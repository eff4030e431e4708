---------------------------- MODULE DaemonProofs ----------------------------
(***************************************************************************)
(* Proofs about Daemon, for any number of daemons, tools and clients and   *)
(* any set of configurations.                                              *)
(***************************************************************************)
EXTENDS Daemon, TLAPS

USE ZenonT(30), SMTT(30)

Serving == {"serving", "interrupted", "awaiting"}
AtWork == {"once", "once_read", "prompt", "prompt_read"}
Reading == {"once_read", "prompt_read"}

(* Who holds the file: a daemon from the open on, as long as it has tasks; *)
(* a tool from the open to its end.                                        *)
FileHeld ==
    /\ \A d \in Daemons : pc[d] \in {"opened", "spawned"} \cup Serving => file = d
    /\ \A d \in Daemons : server[d] # "none" \/ metrics[d] # "none" =>
          file = d /\ pc[d] \in {"spawned", "returning"} \cup Serving
    /\ \A d \in Daemons : server[d] = "accepting" => pc[d] \in Serving
    /\ \A t \in Tools : pc[t] \in AtWork => file = t

(* The configuration of a daemon that is up is what it was started with. *)
Configured ==
    \A d \in Daemons : pc[d] # "off" =>
        cfg[d] # None /\ cfg[d] = resolve_config(launch[d])

(* A session belongs to a daemon that serves, and a closure that runs to   *)
(* one that holds the file, even when its main() has returned.             *)
SessionsHeld ==
    \A c \in Clients :
        /\ client[c].at \in Unheard =>
              client[c].proc \in Daemons /\ pc[client[c].proc] \in Serving
        /\ Running(c) =>
              /\ client[c].proc \in Daemons /\ file = client[c].proc
              /\ pc[client[c].proc] \in Serving \cup {"returning"}

(* Whoever has read the version of the entity still has the current one,   *)
(* and is alone.                                                           *)
VersionsFresh ==
    /\ \A t \in Tools : pc[t] \in Reading => base[t] = Len(log)
    /\ \A c \in Clients : client[c].at = "locked" => client[c].base = Len(log)
    /\ \A c, e \in Clients : client[c].at = "locked" /\ client[e].at = "locked" => c = e

(* A client has a record exactly when its call was answered with ok. *)
OneRecordEach ==
    /\ \A c \in Clients : client[c].answer = "ok" => client[c].at \in {"answering", "told", "lost"}
    /\ \A c \in Clients : client[c].answer = "ok" <=> \E i \in DOMAIN log : log[i].by = c
    /\ \A i, j \in DOMAIN log : log[i].by \in Clients /\ log[i].by = log[j].by => i = j

IInv == TypeOK /\ FileHeld /\ Configured /\ SessionsHeld /\ VersionsFresh /\ OneRecordEach /\ CommitsChain
-----------------------------------------------------------------------------
LEMMA InitHolds == Init => IInv
  <1> SUFFICES ASSUME Init PROVE IInv
    OBVIOUS
  <1> USE DaemonAssumption DEF Init, Processes
  <1>1. TypeOK
    BY SMTT(30) DEF TypeOK, Client, Places, DaemonLabels, ToolLabels
  <1>2. FileHeld /\ Configured
    BY DEF FileHeld, Configured, Serving, AtWork
  <1>3. SessionsHeld /\ VersionsFresh
    BY DEF SessionsHeld, VersionsFresh, Unheard, Running, Reading
  <1>4. OneRecordEach /\ CommitsChain
    BY SMTT(30) DEF OneRecordEach, CommitsChain
  <1> QED
    BY <1>1, <1>2, <1>3, <1>4 DEF IInv

(* A jump of main() within its labels. *)
LEMMA GotoTyped ==
    ASSUME TypeOK, NEW d \in Daemons, NEW label \in DaemonLabels, Goto(d, label)
    PROVE  /\ pc' \in [Processes -> DaemonLabels \cup ToolLabels]
           /\ \A e \in Daemons : pc'[e] \in DaemonLabels
           /\ \A t \in Tools : pc'[t] \in ToolLabels
  BY DaemonAssumption DEF TypeOK, Processes, Goto

(* The steps of one process: main() and the tasks of a daemon. *)
LEMMA DaemonKeeps ==
    ASSUME IInv, NEW d \in Daemons,
           \/ \E l \in Launches : Start(d, l)
           \/ Open(d) \/ Spawn(d) \/ Bind(d) \/ Broadcast(d) \/ Interrupt(d)
           \/ EndServer(d) \/ MetricsStep(d) \/ DispatchPass(d) \/ DispatchEnds(d)
    PROVE  IInv'
  <1> USE DaemonAssumption DEF IInv, Processes
  <1>1. UNCHANGED <<log, base, client>> /\ \A t \in Tools : pc'[t] = pc[t]
    BY SMTT(30) DEF Start, Open, Spawn, Bind, Broadcast, Interrupt, EndServer, MetricsStep,
           DispatchPass, DispatchEnds, TypeOK, Goto
  <1>2. VersionsFresh' /\ OneRecordEach' /\ CommitsChain'
    BY <1>1 DEF VersionsFresh, OneRecordEach, CommitsChain
  <1>3. ASSUME NEW l \in Launches, Start(d, l) PROVE (TypeOK /\ FileHeld /\ Configured /\ SessionsHeld)'
    <2>1. TypeOK'
      <3>1. UNCHANGED pc \/ \E label \in DaemonLabels : Goto(d, label)
        BY <1>3 DEF Start, DaemonLabels
      <3>2. /\ pc' \in [Processes -> DaemonLabels \cup ToolLabels]
            /\ \A e \in Daemons : pc'[e] \in DaemonLabels
            /\ \A t \in Tools : pc'[t] \in ToolLabels
        BY <3>1, GotoTyped DEF TypeOK
      <3> QED
        <4>1. launch' \in [Daemons -> Launches \cup {None}] /\ DOMAIN cfg' = Daemons
          BY <1>3, SMTT(30) DEF Start, TypeOK
        <4>2. starts' \in Nat /\ UNCHANGED <<log, file, tasks, base, client>>
          BY <1>3, SMTT(30) DEF Start, TypeOK
        <4> QED
          BY <3>2, <4>1, <4>2 DEF TypeOK, tasks
    <2>2. FileHeld'
      BY <1>3, SMTT(30) DEF Start, TypeOK, Goto, tasks, FileHeld, Serving, AtWork
    <2>3. Configured'
      BY <1>3, SMTT(30) DEF Start, TypeOK, Goto, tasks, Configured
    <2>4. SessionsHeld'
      BY <1>3, <1>1, SMTT(30) DEF Start, TypeOK, Goto, tasks, SessionsHeld, Unheard, Running, Serving
    <2> QED
      BY <2>1, <2>2, <2>3, <2>4
  <1>4. CASE Open(d)
    <2>1. TypeOK'
      <3>1. UNCHANGED pc \/ \E label \in DaemonLabels : Goto(d, label)
        BY <1>4 DEF Open, DaemonLabels
      <3>2. /\ pc' \in [Processes -> DaemonLabels \cup ToolLabels]
            /\ \A e \in Daemons : pc'[e] \in DaemonLabels
            /\ \A t \in Tools : pc'[t] \in ToolLabels
        BY <3>1, GotoTyped DEF TypeOK
      <3> QED
        BY <1>4, <3>2 DEF Open, TypeOK, daemon, tasks
    <2>2. FileHeld'
      BY <1>4, SMTT(30) DEF Open, TypeOK, Goto, daemon, tasks, FileHeld, Serving, AtWork, Alive
    <2>3. Configured'
      BY <1>4 DEF Open, TypeOK, Goto, daemon, tasks, Configured
    <2>4. SessionsHeld'
      BY <1>4, <1>1, SMTT(30) DEF Open, TypeOK, Goto, daemon, tasks, SessionsHeld, Unheard, Running, Serving
    <2> QED
      BY <1>2, <2>1, <2>2, <2>3, <2>4
  <1>5. CASE Spawn(d)
    <2>1. TypeOK'
      <3>1. \E label \in DaemonLabels : Goto(d, label)
        BY <1>5 DEF Spawn, DaemonLabels
      <3>2. /\ pc' \in [Processes -> DaemonLabels \cup ToolLabels]
            /\ \A e \in Daemons : pc'[e] \in DaemonLabels
            /\ \A t \in Tools : pc'[t] \in ToolLabels
        BY <3>1, GotoTyped
      <3> QED
        BY <1>5, <3>2 DEF Spawn, TypeOK, daemon, tasks
    <2>2. FileHeld'
      <3>1. /\ pc[d] = "opened" /\ UNCHANGED <<file, server>>
            /\ \A p \in Processes : p # d => pc'[p] = pc[p]
            /\ \A e \in Daemons : e # d => metrics'[e] = metrics[e]
        BY <1>5 DEF Spawn, Goto, TypeOK, tasks
      <3>2. \/ pc'[d] = "spawned"
            \/ pc'[d] = "returning" /\ metrics'[d] = metrics[d]
        BY <1>5 DEF Spawn, Goto, TypeOK, tasks
      <3> QED
        BY <3>1, <3>2 DEF FileHeld, Serving, AtWork
    <2>3. Configured'
      BY <1>5 DEF Spawn, TypeOK, Goto, daemon, tasks, Configured
    <2>4. SessionsHeld'
      <3>1. /\ file' = file /\ pc[d] = "opened"
            /\ \A e \in Daemons : e # d => pc'[e] = pc[e]
        BY <1>5 DEF Spawn, TypeOK, Goto
      <3> QED
        BY <3>1, <1>1 DEF SessionsHeld, Unheard, Running, Serving
    <2> QED
      BY <1>2, <2>1, <2>2, <2>3, <2>4
  <1>6. CASE Bind(d)
    <2>1. TypeOK'
      <3>1. \E label \in DaemonLabels : Goto(d, label)
        BY <1>6 DEF Bind, DaemonLabels
      <3>2. /\ pc' \in [Processes -> DaemonLabels \cup ToolLabels]
            /\ \A e \in Daemons : pc'[e] \in DaemonLabels
            /\ \A t \in Tools : pc'[t] \in ToolLabels
        BY <3>1, GotoTyped
      <3> QED
        BY <1>6, <3>2 DEF Bind, TypeOK, daemon, tasks
    <2>2. FileHeld'
      <3>1. /\ pc[d] = "spawned" /\ UNCHANGED <<file, dispatcher, metrics>>
            /\ \A p \in Processes : p # d => pc'[p] = pc[p]
            /\ \A e \in Daemons : e # d => server'[e] = server[e]
        BY <1>6 DEF Bind, Goto, TypeOK
      <3>2. \/ pc'[d] = "serving"
            \/ pc'[d] = "returning" /\ server'[d] = server[d]
        BY <1>6 DEF Bind, Goto, TypeOK
      <3> QED
        BY <3>1, <3>2 DEF FileHeld, Serving, AtWork, Alive
    <2>3. Configured'
      BY <1>6 DEF Bind, TypeOK, Goto, daemon, tasks, Configured
    <2>4. SessionsHeld'
      BY <1>6, <1>1, SMTT(30) DEF Bind, TypeOK, Goto, daemon, tasks, SessionsHeld, Unheard, Running, Serving
    <2> QED
      BY <1>2, <2>1, <2>2, <2>3, <2>4
  <1>7. CASE Broadcast(d)
    <2>1. TypeOK'
      BY <1>7, SMTT(30) DEF Broadcast, TypeOK, Goto, daemon, tasks, DaemonLabels
    <2>2. FileHeld'
      BY <1>7 DEF Broadcast, TypeOK, Goto, daemon, tasks, FileHeld, Serving, AtWork, Alive
    <2>3. Configured'
      BY <1>7 DEF Broadcast, TypeOK, Goto, daemon, tasks, Configured
    <2>4. SessionsHeld'
      BY <1>7, <1>1 DEF Broadcast, TypeOK, Goto, daemon, tasks, SessionsHeld, Unheard, Running, Serving
    <2> QED
      BY <1>2, <2>1, <2>2, <2>3, <2>4
  <1>8. CASE Interrupt(d)
    <2>1. TypeOK'
      BY <1>8, SMTT(30) DEF Interrupt, TypeOK, Goto, daemon, tasks, DaemonLabels
    <2>2. FileHeld'
      BY <1>8, SMTT(30) DEF Interrupt, TypeOK, Goto, daemon, tasks, FileHeld, Serving, AtWork, Alive
    <2>3. Configured'
      BY <1>8 DEF Interrupt, TypeOK, Goto, daemon, tasks, Configured
    <2>4. SessionsHeld'
      BY <1>8, <1>1 DEF Interrupt, TypeOK, Goto, daemon, tasks, SessionsHeld, Unheard, Running, Serving
    <2> QED
      BY <1>2, <2>1, <2>2, <2>3, <2>4
  <1>9. CASE EndServer(d)
    <2>1. TypeOK'
      BY <1>9 DEF EndServer, TypeOK, Goto, daemon, tasks, DaemonLabels
    <2>2. FileHeld'
      BY <1>9 DEF EndServer, TypeOK, Goto, daemon, tasks, FileHeld, Serving, AtWork, Alive
    <2>3. Configured'
      BY <1>9 DEF EndServer, TypeOK, Goto, daemon, tasks, Configured
    <2>4. SessionsHeld'
      BY <1>9, <1>1 DEF EndServer, TypeOK, Goto, daemon, tasks, SessionsHeld, Unheard, Running, Serving
    <2> QED
      BY <1>2, <2>1, <2>2, <2>3, <2>4
  <1>10. CASE MetricsStep(d)
    <2>1. TypeOK'
      BY <1>10, SMTT(30) DEF MetricsStep, TypeOK, Goto, daemon, tasks, DaemonLabels
    <2>2. FileHeld'
      BY <1>10 DEF MetricsStep, TypeOK, Goto, daemon, tasks, FileHeld, Serving, AtWork, Alive
    <2>3. Configured'
      BY <1>10 DEF MetricsStep, TypeOK, Goto, daemon, tasks, Configured
    <2>4. SessionsHeld'
      BY <1>10, <1>1 DEF MetricsStep, TypeOK, Goto, daemon, tasks, SessionsHeld, Unheard, Running, Serving
    <2> QED
      BY <1>2, <2>1, <2>2, <2>3, <2>4
  <1>11. CASE DispatchPass(d)
    <2>1. TypeOK'
      BY <1>11 DEF DispatchPass, TypeOK, Goto, daemon, tasks, DaemonLabels
    <2>2. FileHeld'
      BY <1>11 DEF DispatchPass, TypeOK, Goto, daemon, tasks, FileHeld, Serving, AtWork, Alive
    <2>3. Configured'
      BY <1>11 DEF DispatchPass, TypeOK, Goto, daemon, tasks, Configured
    <2>4. SessionsHeld'
      BY <1>11, <1>1 DEF DispatchPass, TypeOK, Goto, daemon, tasks, SessionsHeld, Unheard, Running, Serving
    <2> QED
      BY <1>2, <2>1, <2>2, <2>3, <2>4
  <1>12. CASE DispatchEnds(d)
    <2>1. TypeOK'
      BY <1>12 DEF DispatchEnds, TypeOK, Goto, daemon, tasks, DaemonLabels
    <2>2. FileHeld'
      BY <1>12 DEF DispatchEnds, TypeOK, Goto, daemon, tasks, FileHeld, Serving, AtWork, Alive
    <2>3. Configured'
      BY <1>12 DEF DispatchEnds, TypeOK, Goto, daemon, tasks, Configured
    <2>4. SessionsHeld'
      BY <1>12, <1>1 DEF DispatchEnds, TypeOK, Goto, daemon, tasks, SessionsHeld, Unheard, Running, Serving
    <2> QED
      BY <1>2, <2>1, <2>2, <2>3, <2>4
  <1> QED
    BY <1>2, <1>3, <1>4, <1>5, <1>6, <1>7, <1>8, <1>9, <1>10, <1>11, <1>12

(* A client that is somewhere else, all else being equal. *)
LEMMA Moved ==
    ASSUME NEW k \in Client, NEW place \in Places, NEW m, m = [k EXCEPT !.at = place]
    PROVE  /\ m \in Client /\ m.at = place
           /\ m.proc = k.proc /\ m.base = k.base /\ m.answer = k.answer
  BY DEF Client

(* The end of main(), of the process, and its death. *)
LEMMA EndingKeeps ==
    ASSUME IInv, NEW d \in Daemons, Join(d) \/ Exit(d) \/ Die(d)
    PROVE  IInv'
  <1> USE DaemonAssumption DEF IInv, Processes
  <1>1. UNCHANGED <<log, base, starts>> /\ \A t \in Tools : pc'[t] = pc[t]
    BY SMTT(30) DEF Join, Exit, Die, Gone, TypeOK, Goto
  <1>2. /\ client' = [c \in Clients |-> client'[c]]
        /\ \A c \in Clients : client'[c] = client[c] \/ client'[c] = [client[c] EXCEPT !.at = "lost"]
    BY DEF Join, Exit, Die, TypeOK
  <1>3. /\ client' \in [Clients -> Client]
        /\ \A c \in Clients :
              /\ client'[c].proc = client[c].proc /\ client'[c].answer = client[c].answer
              /\ client'[c].base = client[c].base /\ client'[c].at \in {client[c].at, "lost"}
    <2>1. "lost" \in Places /\ \A c \in Clients : client[c] \in Client
      BY DEF Places, TypeOK
    <2>2. \A c \in Clients :
              /\ client'[c] \in Client
              /\ client'[c].proc = client[c].proc /\ client'[c].answer = client[c].answer
              /\ client'[c].base = client[c].base /\ client'[c].at \in {client[c].at, "lost"}
      BY <1>2, <2>1, Moved, SMTT(30)
    <2> QED
      BY <1>2, <2>2
  <1>4. TypeOK'
    <2>1. \E label \in DaemonLabels : Goto(d, label)
      BY DEF Join, Exit, Die, Gone, DaemonLabels
    <2>2. /\ pc' \in [Processes -> DaemonLabels \cup ToolLabels]
          /\ \A e \in Daemons : pc'[e] \in DaemonLabels
          /\ \A t \in Tools : pc'[t] \in ToolLabels
      BY <2>1, GotoTyped
    <2>3. file' \in Processes \cup {None}
      BY DEF Join, Exit, Die, Gone, Released, TypeOK
    <2>4. /\ launch' \in [Daemons -> Launches \cup {None}] /\ DOMAIN cfg' = Daemons
          /\ server' \in [Daemons -> {"none", "accepting", "ended"}]
          /\ dispatcher' \in [Daemons -> {"none", "select", "pass", "last", "returned"}]
          /\ metrics' \in [Daemons -> {"none", "starting", "listening", "failed", "ended"}]
      BY DEF Join, Exit, Die, Gone, TypeOK, daemon, tasks
    <2> QED
      BY <1>1, <1>3, <2>2, <2>3, <2>4 DEF TypeOK
  <1>5. FileHeld'
    <2>1. CASE Join(d)
      BY <2>1 DEF Join, Goto, FileHeld, TypeOK, Serving, AtWork, daemon, tasks
    <2>2. CASE Gone(d)
      BY <2>2 DEF Gone, Released, Goto, FileHeld, TypeOK, Serving, AtWork
    <2> QED
      BY <2>1, <2>2 DEF Exit, Die
  <1>6. Configured'
    BY DEF Join, Exit, Die, Gone, Goto, TypeOK, Configured, daemon
  <1>7. SessionsHeld'
    <2>1. CASE Join(d)
      BY <2>1, SMTT(30) DEF Join, Goto, SessionsHeld, TypeOK, Unheard, Running, Serving, Client
    <2>2. CASE Exit(d)
      BY <2>2 DEF Exit, Gone, Quiet, RunningIn, Released, Goto, SessionsHeld, TypeOK, Unheard, Running, Serving
    <2>3. CASE Die(d)
      BY <2>3, SMTT(30) DEF Die, Gone, Released, Goto, SessionsHeld, TypeOK, Unheard, Running, Serving, Client
    <2> QED
      BY <2>1, <2>2, <2>3
  <1>8. VersionsFresh' /\ OneRecordEach' /\ CommitsChain'
    BY <1>1, <1>3, SMTT(30) DEF VersionsFresh, OneRecordEach, CommitsChain
  <1> QED
    BY <1>4, <1>5, <1>6, <1>7, <1>8

(* A client moves on, and the invariant holds of where it has come. *)
LEMMA MoveKeeps ==
    ASSUME IInv, NEW c \in Clients, NEW m \in Client, client' = [client EXCEPT ![c] = m],
           UNCHANGED <<log, file, starts, pc, daemon, base>>,
           m.answer = "ok" <=> client[c].answer = "ok",
           m.answer = "ok" => m.at \in {"answering", "told", "lost"},
           m.at \in Unheard => m.proc \in Daemons /\ pc[m.proc] \in Serving,
           m.at \in {"entered", "locked"} =>
               m.proc \in Daemons /\ file = m.proc /\ pc[m.proc] \in Serving \cup {"returning"},
           m.at = "locked" =>
               m.base = Len(log) /\ \A e \in Clients : client[e].at = "locked" => e = c
    PROVE  IInv'
  <1> USE DEF IInv
  <1>1. \A e \in Clients : client'[e] = IF e = c THEN m ELSE client[e]
    BY DEF TypeOK
  <1>2. TypeOK' /\ FileHeld' /\ Configured' /\ CommitsChain'
    BY DEF TypeOK, FileHeld, Configured, CommitsChain, daemon, tasks
  <1>3. SessionsHeld'
    BY <1>1 DEF SessionsHeld, Unheard, Running
  <1>4. VersionsFresh'
    BY <1>1, SMTT(30) DEF VersionsFresh
  <1>5. OneRecordEach'
    BY <1>1, SMTT(30) DEF OneRecordEach
  <1> QED
    BY <1>2, <1>3, <1>4, <1>5

(* What a client and its call do, short of the commit. *)
LEMMA ClientKeeps ==
    ASSUME IInv, NEW c \in Clients,
           \/ \E d \in Daemons, token \in Tokens : Connect(c, d, token)
           \/ Submit(c) \/ Enter(c) \/ Read(c) \/ Reject(c) \/ Reply(c)
    PROVE  IInv'
  <1> USE DEF IInv
  <1> DEFINE k == client[c]
  <1>1. k \in Client /\ (k.answer = "ok" => k.at \in {"answering", "told", "lost"})
    BY DEF TypeOK, OneRecordEach
  <1>2. ASSUME NEW d \in Daemons, NEW token \in Tokens, Connect(c, d, token)
        PROVE  IInv'
    <2> DEFINE m == [k EXCEPT !.proc = d, !.token = token,
                       !.at = IF token_is_valid(cfg[d].tokens, token) THEN "open" ELSE "refused"]
    <2>1. /\ m \in Client /\ m.proc = d /\ m.answer = k.answer /\ m.at \in {"open", "refused"}
          /\ k.at = "new"
      BY <1>1, <1>2 DEF Connect, Client, Places
    <2>2. client' = [client EXCEPT ![c] = m] /\ UNCHANGED <<log, file, starts, pc, daemon, base>>
      BY <1>2 DEF Connect, Set
    <2>3. pc[d] \in Serving
      BY <1>2 DEF Connect, FileHeld
    <2> HIDE DEF m
    <2> QED
      BY <1>1, <2>1, <2>2, <2>3, MoveKeeps
  <1>3. CASE Submit(c)
    <2> DEFINE m == [k EXCEPT !.at = "queued"]
    <2>1. m \in Client /\ m.at = "queued" /\ m.proc = k.proc /\ m.answer = k.answer
      BY <1>1, Moved, SMTT(30) DEF Places
    <2>2. /\ client' = [client EXCEPT ![c] = m] /\ UNCHANGED <<log, file, starts, pc, daemon, base>>
          /\ k.at = "open"
      BY <1>3 DEF Submit, Set
    <2>3. k.proc \in Daemons /\ pc[k.proc] \in Serving
      BY <2>2 DEF SessionsHeld, Unheard
    <2> HIDE DEF m
    <2> QED
      BY <1>1, <2>1, <2>2, <2>3, MoveKeeps
  <1>4. CASE Enter(c)
    <2> DEFINE m == IF EngineStopped(k.proc)
                    THEN [k EXCEPT !.at = "answering", !.answer = "shutting_down"]
                    ELSE [k EXCEPT !.at = "entered"]
    <2>1. k.at = "queued" /\ k.answer # "ok"
      BY <1>1, <1>4 DEF Enter
    <2>2. /\ m \in Client /\ m.at \in {"answering", "entered"} /\ m.proc = k.proc
          /\ m.answer # "ok"
      BY <1>1, <2>1 DEF Client, Places
    <2>3. client' = [client EXCEPT ![c] = m] /\ UNCHANGED <<log, file, starts, pc, daemon, base>>
      BY <1>4 DEF Enter, Set
    <2>4. k.proc \in Daemons /\ pc[k.proc] \in Serving /\ file = k.proc
      BY <2>1 DEF SessionsHeld, FileHeld, Unheard
    <2> HIDE DEF m
    <2> QED
      BY <1>1, <2>1, <2>2, <2>3, <2>4, MoveKeeps
  <1>5. CASE Read(c)
    <2> DEFINE m == [k EXCEPT !.at = "locked", !.base = Len(log)]
    <2>1. k.at = "entered" /\ Len(log) \in Nat
      BY <1>5, SMTT(30) DEF Read, TypeOK
    <2>2. /\ m \in Client /\ m.at = "locked" /\ m.proc = k.proc /\ m.answer = k.answer
          /\ m.base = Len(log)
      BY <1>1, <2>1 DEF Client, Places
    <2>3. client' = [client EXCEPT ![c] = m] /\ UNCHANGED <<log, file, starts, pc, daemon, base>>
      BY <1>5 DEF Read, Set
    <2>4. k.proc \in Daemons /\ file = k.proc /\ pc[k.proc] \in Serving \cup {"returning"}
      BY <2>1 DEF SessionsHeld, Running
    <2>5. \A e \in Clients : client[e].at # "locked"
      BY <1>5, <2>4 DEF Read, RunningIn, Running, SessionsHeld
    <2> HIDE DEF m
    <2> QED
      BY <1>1, <2>1, <2>2, <2>3, <2>4, <2>5, MoveKeeps DEF Unheard
  <1>6. CASE Reject(c)
    <2> DEFINE place == IF Alive(k.proc) THEN "answering" ELSE "lost"
               m == [k EXCEPT !.at = place]
    <2>1. m \in Client /\ m.at = place /\ m.proc = k.proc /\ m.answer = k.answer
      BY <1>1, Moved, SMTT(30) DEF Places
    <2>2. /\ client' = [client EXCEPT ![c] = m] /\ UNCHANGED <<log, file, starts, pc, daemon, base>>
          /\ k.at = "locked"
      BY <1>6 DEF Reject, Set
    <2>3. k.proc \in Daemons /\ pc[k.proc] \in Serving \cup {"returning"}
      BY <2>2 DEF SessionsHeld, Running
    <2> HIDE DEF m
    <2> QED
      BY <1>1, <2>1, <2>2, <2>3, MoveKeeps DEF Alive, Unheard
  <1>7. CASE Reply(c)
    <2> DEFINE m == [k EXCEPT !.at = "told"]
    <2>1. m \in Client /\ m.at = "told" /\ m.proc = k.proc /\ m.answer = k.answer
      BY <1>1, Moved, SMTT(30) DEF Places
    <2>2. client' = [client EXCEPT ![c] = m] /\ UNCHANGED <<log, file, starts, pc, daemon, base>>
      BY <1>7 DEF Reply, Set
    <2> HIDE DEF m
    <2> QED
      BY <2>1, <2>2, MoveKeeps DEF Unheard
  <1> QED
    BY <1>2, <1>3, <1>4, <1>5, <1>6, <1>7

(* A record that is appended to the log. *)
LEMMA Appended ==
    ASSUME log \in Seq(Record), NEW r \in Record, log' = Append(log, r)
    PROVE  /\ log' \in Seq(Record) /\ Len(log') = Len(log) + 1 /\ Len(log) \in Nat
           /\ DOMAIN log' = DOMAIN log \cup {Len(log) + 1} /\ Len(log) + 1 \notin DOMAIN log
           /\ \A i \in DOMAIN log : log'[i] = log[i]
           /\ log'[Len(log) + 1] = r
  OBVIOUS

LEMMA CommitKeeps ==
    ASSUME IInv, NEW c \in Clients, Commit(c)
    PROVE  IInv'
  <1> USE DaemonAssumption DEF IInv, Processes
  <1> DEFINE r == [by |-> c, base |-> client[c].base]
  <1>1. r \in Record /\ log \in Seq(Record) /\ log' = Append(log, r)
    BY DEF Commit, TypeOK, Client, Places, Record
  <1> HIDE DEF r
  <1>2. /\ log' \in Seq(Record) /\ Len(log') = Len(log) + 1 /\ Len(log) \in Nat
        /\ DOMAIN log' = DOMAIN log \cup {Len(log) + 1} /\ Len(log) + 1 \notin DOMAIN log
        /\ \A i \in DOMAIN log : log'[i] = log[i]
        /\ log'[Len(log) + 1] = r
    BY <1>1, Appended
  <1>3. r.by = c /\ r.base = Len(log)
    BY DEF r, Commit, VersionsFresh
  <1>4. /\ UNCHANGED <<file, starts, pc, daemon, base>>
        /\ client[c].at = "locked" /\ client' = [client EXCEPT ![c] = client'[c]]
        /\ client'[c] \in Client /\ client'[c].answer = "ok" /\ client'[c].proc = client[c].proc
        /\ client'[c].at = IF Alive(client[c].proc) THEN "answering" ELSE "lost"
    <2> DEFINE after == [client[c] EXCEPT !.answer = "ok",
                             !.at = IF Alive(client[c].proc) THEN "answering" ELSE "lost"]
    <2>1. UNCHANGED <<file, starts, pc, daemon, base>> /\ client[c].at = "locked"
      BY DEF Commit
    <2>2. client' = [client EXCEPT ![c] = after]
      BY DEF Commit, Set
    <2>3. client[c] \in Client
      BY DEF TypeOK
    <2>4. /\ after \in Client /\ after.answer = "ok" /\ after.proc = client[c].proc
          /\ after.at = IF Alive(client[c].proc) THEN "answering" ELSE "lost"
      BY <2>3 DEF Client, Places
    <2> HIDE DEF after
    <2>5. client'[c] = after
      BY <2>2 DEF TypeOK
    <2> QED
      BY <2>1, <2>2, <2>4, <2>5
  <1>5. client[c].proc \in Daemons /\ file = client[c].proc /\ pc[client[c].proc] \in Serving \cup {"returning"}
    BY <1>4 DEF SessionsHeld, Running
  <1>6. TypeOK' /\ FileHeld' /\ Configured'
    <2>1. client' \in [Clients -> Client]
      BY <1>4 DEF TypeOK
    <2> QED
      BY <1>2, <1>4, <2>1 DEF TypeOK, FileHeld, Configured, daemon, tasks
  <1>7. SessionsHeld'
    BY <1>4, <1>5, SMTT(30) DEF SessionsHeld, TypeOK, Unheard, Running, Serving, Alive
  <1>8. VersionsFresh'
    <2>1. \A t \in Tools : pc[t] \notin AtWork
      BY <1>5 DEF FileHeld
    <2>2. \A e \in Clients : e # c => client[e].at # "locked"
      BY <1>4 DEF VersionsFresh
    <2>3. \A t \in Tools : pc'[t] \notin Reading
      BY <1>4, <2>1 DEF Reading, AtWork
    <2>4. \A e \in Clients : client'[e].at # "locked"
      BY <1>4, <2>2 DEF TypeOK
    <2> QED
      BY <2>3, <2>4 DEF VersionsFresh
  <1>9. OneRecordEach'
    <2>1. \A i \in DOMAIN log : log[i].by # c
      BY <1>4 DEF OneRecordEach
    <2>2. \A e \in Clients : (\E i \in DOMAIN log' : log'[i].by = e) <=> (e = c \/ \E i \in DOMAIN log : log[i].by = e)
      BY <1>2, <1>3
    <2>3. \A i, j \in DOMAIN log' : log'[i].by \in Clients /\ log'[i].by = log'[j].by => i = j
      BY <1>2, <1>3, <2>1 DEF OneRecordEach
    <2>4. \A e \in Clients : e # c => client'[e] = client[e]
      BY <1>4 DEF TypeOK
    <2>5. client'[c].answer = "ok" /\ client'[c].at \in {"answering", "lost"}
      BY <1>4
    <2> QED
      BY <2>2, <2>3, <2>4, <2>5 DEF OneRecordEach
  <1>10. CommitsChain'
    BY <1>2, <1>3, SMTT(30) DEF CommitsChain
  <1> QED
    BY <1>6, <1>7, <1>8, <1>9, <1>10

(* The tools. *)
LEMMA ToolKeeps ==
    ASSUME IInv, NEW t \in Tools,
           StartTool(t) \/ OpenTool(t) \/ ToolReads(t) \/ ToolEnds(t) \/ ToolGone(t)
    PROVE  IInv'
  <1> USE DaemonAssumption DEF IInv, Processes
  <1>1. UNCHANGED <<daemon, client>>
    BY DEF StartTool, OpenTool, ToolReads, ToolEnds, ToolGone
  <1>2. \E label \in ToolLabels : Goto(t, label)
    BY DEF StartTool, OpenTool, ToolReads, ToolEnds, ToolGone, ToolLabels
  <1>3. /\ pc' \in [Processes -> DaemonLabels \cup ToolLabels]
        /\ \A d \in Daemons : pc'[d] = pc[d]
        /\ \A u \in Tools : pc'[u] \in ToolLabels /\ (u # t => pc'[u] = pc[u])
    BY <1>2, SMTT(30) DEF Goto, TypeOK
  <1>4. Configured'
    BY <1>1, <1>3 DEF Configured, daemon
  <1>5. /\ pc[t] \in AtWork => file = t
        /\ \/ file' = file
           \/ file = None /\ file' = t
           \/ file = t /\ file' = None /\ pc'[t] = "off"
        /\ pc'[t] \in AtWork => file' = t
    BY DEF StartTool, OpenTool, ToolReads, ToolEnds, ToolGone, Goto, TypeOK, FileHeld, AtWork, Released
  <1>6. FileHeld'
    BY <1>1, <1>3, <1>5 DEF FileHeld, daemon, tasks
  <1>7. SessionsHeld'
    BY <1>1, <1>3, <1>5 DEF SessionsHeld, Running
  <1>8. base' \in [Tools -> Nat] /\ \A u \in Tools : u # t => base'[u] = base[u]
    <2>1. base \in [Tools -> Nat] /\ Len(log) \in Nat
      BY SMTT(30) DEF TypeOK
    <2>2. UNCHANGED base \/ \E n \in Nat : base' = [base EXCEPT ![t] = n]
      BY <2>1 DEF StartTool, OpenTool, ToolReads, ToolEnds, ToolGone
    <2> QED
      BY <2>1, <2>2
  <1>9. CASE UNCHANGED log
    <2>1. pc'[t] \in Reading => base'[t] = Len(log)
      BY DEF StartTool, OpenTool, ToolReads, ToolEnds, ToolGone, Goto, TypeOK, Reading
    <2>2. TypeOK'
      BY <1>1, <1>3, <1>5, <1>8, <1>9, SMTT(30) DEF StartTool, OpenTool, ToolReads, ToolEnds, ToolGone,
                                          TypeOK, daemon, tasks
    <2>3. VersionsFresh' /\ OneRecordEach' /\ CommitsChain'
      BY <1>1, <1>3, <1>8, <1>9, <2>1 DEF VersionsFresh, OneRecordEach, CommitsChain
    <2> QED
      BY <1>4, <1>6, <1>7, <2>2, <2>3
  <1>10. CASE ToolEnds(t) /\ log' = Append(log, [by |-> t, base |-> base[t]])
    <2> DEFINE r == [by |-> t, base |-> base[t]]
    <2>1. r \in Record /\ log \in Seq(Record) /\ log' = Append(log, r)
      BY <1>10 DEF TypeOK, Record
    <2>2. pc[t] \in Reading /\ pc'[t] \notin Reading /\ starts' = starts
      BY <1>10 DEF ToolEnds, Goto, TypeOK, Reading
    <2>3. r.by = t /\ r.base = Len(log)
      BY <2>2 DEF VersionsFresh
    <2> HIDE DEF r
    <2>4. /\ log' \in Seq(Record) /\ Len(log') = Len(log) + 1 /\ Len(log) \in Nat
          /\ DOMAIN log' = DOMAIN log \cup {Len(log) + 1} /\ Len(log) + 1 \notin DOMAIN log
          /\ \A i \in DOMAIN log : log'[i] = log[i]
          /\ log'[Len(log) + 1] = r
      BY <2>1, Appended
    <2>5. TypeOK'
      BY <1>1, <1>3, <1>5, <1>8, <2>2, <2>4 DEF TypeOK, daemon, tasks
    <2>6. VersionsFresh'
      <3>1. file = t /\ \A u \in Tools : u # t => pc[u] \notin AtWork
        BY <1>5, <2>2 DEF FileHeld, Reading, AtWork
      <3>2. \A c \in Clients : client[c].at # "locked"
        BY <3>1 DEF SessionsHeld, Running
      <3> QED
        BY <1>1, <1>3, <2>2, <3>1, <3>2 DEF VersionsFresh, Reading, AtWork
    <2>7. OneRecordEach'
      <3>1. t \notin Clients
        OBVIOUS
      <3>2. \A c \in Clients : (\E i \in DOMAIN log' : log'[i].by = c) <=> \E i \in DOMAIN log : log[i].by = c
        BY <2>3, <2>4, <3>1
      <3>3. \A i, j \in DOMAIN log' : log'[i].by \in Clients /\ log'[i].by = log'[j].by => i = j
        BY <2>3, <2>4, <3>1 DEF OneRecordEach
      <3> QED
        BY <1>1, <3>2, <3>3 DEF OneRecordEach
    <2>8. CommitsChain'
      BY <2>3, <2>4, SMTT(30) DEF CommitsChain
    <2> QED
      BY <1>4, <1>6, <1>7, <2>5, <2>6, <2>7, <2>8
  <1> QED
    BY <1>9, <1>10 DEF StartTool, OpenTool, ToolReads, ToolEnds, ToolGone

(* The invariant is inductive. *)
LEMMA NextKeeps == IInv /\ [Next]_vars => IInv'
  <1> SUFFICES ASSUME IInv, [Next]_vars PROVE IInv'
    OBVIOUS
  <1>1. CASE UNCHANGED vars
    <2> USE <1>1 DEF vars, daemon, tasks, IInv
    <2>1. TypeOK'
      BY DEF TypeOK
    <2>2. FileHeld' /\ Configured'
      BY DEF FileHeld, Configured
    <2>3. SessionsHeld' /\ VersionsFresh'
      BY DEF SessionsHeld, Running, VersionsFresh
    <2>4. OneRecordEach' /\ CommitsChain'
      BY DEF OneRecordEach, CommitsChain
    <2> QED
      BY <2>1, <2>2, <2>3, <2>4
  <1>2. ASSUME NEW d \in Daemons,
               \/ \E l \in Launches : Start(d, l)
               \/ Open(d) \/ Spawn(d) \/ Bind(d) \/ Broadcast(d) \/ Interrupt(d)
               \/ ServerStops(d) \/ AcceptFails(d) \/ MetricsStep(d) \/ DispatchPass(d) \/ DispatchEnds(d)
        PROVE  IInv'
    BY <1>2, DaemonKeeps DEF ServerStops, AcceptFails
  <1>3. ASSUME NEW d \in Daemons, Join(d) \/ Exit(d) \/ Terminate(d) \/ Crash(d)
        PROVE  IInv'
    BY <1>3, EndingKeeps DEF Terminate, Crash
  <1>4. ASSUME NEW c \in Clients,
               \/ \E d \in Daemons, token \in Tokens : Connect(c, d, token)
               \/ Submit(c) \/ ClientStep(c)
        PROVE  IInv'
    BY <1>4, ClientKeeps, CommitKeeps DEF ClientStep
  <1>5. ASSUME NEW t \in Tools,
               StartTool(t) \/ OpenTool(t) \/ ToolReads(t) \/ ToolEnds(t) \/ ToolGone(t)
        PROVE  IInv'
    BY <1>5, ToolKeeps
  <1> QED
    BY <1>1, <1>2, <1>3, <1>4, <1>5 DEF Next, main

(* In every reachable state the file is held by the one process that works *)
(* on it, and what was read from it is current.                            *)
THEOREM AlwaysHeld == Spec => []IInv
  BY InitHolds, NextKeeps, PTL DEF Spec

(* Engine::transition plans from the current version although the stripe   *)
(* locks of one process say nothing to another: for any number of daemons, *)
(* tools and clients.                                                      *)
THEOREM CommitsAlwaysChain == Spec => []CommitsChain
  <1>1. IInv => CommitsChain
    BY DEF IInv
  <1> QED
    BY AlwaysHeld, <1>1, PTL

(* What a client of smdbd is told is true, shutdowns and deaths included. *)
THEOREM AnswersAlwaysTrue == Spec => []AnswersAreTrue
  <1>1. IInv => AnswersAreTrue
    BY DEF IInv, OneRecordEach, AnswersAreTrue
  <1> QED
    BY AlwaysHeld, <1>1, PTL

(* /readyz and the wire listener of smdbd answer only while it has the     *)
(* database open.                                                          *)
THEOREM ReadyAlwaysOpen == Spec => []ReadyMeansOpen
  <1>1. IInv => ReadyMeansOpen
    BY DEF IInv, FileHeld, ReadyMeansOpen
  <1> QED
    BY AlwaysHeld, <1>1, PTL

(* resolve_config and build_tls_config never drop a certificate or a key   *)
(* that was given, whatever the sources of the configuration.              *)
THEOREM NoCertificateIgnored == Spec => []CertificatesNeverIgnored
  <1>1. IInv => CertificatesNeverIgnored
    <2> SUFFICES ASSUME IInv, NEW d \in Daemons, server[d] = "accepting", ~Tls(cfg[d])
                 PROVE  /\ launch[d].cert = None /\ launch[d].key = None
                        /\ load(launch[d]).cert = None /\ load(launch[d]).key = None
      BY DEF CertificatesNeverIgnored
    <2> DEFINE c == Resolved(launch[d], load(launch[d]))
    <2>1. cfg[d] = c /\ validate(c)
      BY DEF IInv, FileHeld, Configured, Serving, resolve_config
    <2>2. c.cert = None /\ c.key = None
      BY <2>1 DEF Tls, validate
    <2>3. c.cert = OrElse(launch[d].cert, load(launch[d]).cert) /\ c.key = OrElse(launch[d].key, load(launch[d]).key)
      BY DEF Resolved
    <2> QED
      BY <2>2, <2>3 DEF OrElse
  <1> QED
    BY AlwaysHeld, <1>1, PTL
=============================================================================
