------------------------------- MODULE Daemon -------------------------------
(***************************************************************************)
(* The processes that open one database file: smdbd from its start to its  *)
(* end, and the tools smdbctl and smash, which open the file themselves.   *)
(* Each has an Engine of its own, so the stripe locks of one say nothing   *)
(* to the other: what keeps them apart is the exclusive lock that redb     *)
(* takes on the file.  Of the tokio runtime, its drop matters: it cancels  *)
(* the tasks and the blocking closures that have not started, and waits    *)
(* for those that have.  All transitions are on one entity; a record is    *)
(* who made it and the version it was planned from.                        *)
(***************************************************************************)
EXTENDS Naturals, Sequences

CONSTANTS Daemons,    \* processes that run smdbd
          Tools,      \* processes that run smdbctl or smash
          Clients,    \* clients of a daemon: each sends one transition
          Tokens,     \* bearer tokens
          Blank,      \* what SMDB_AUTH_TOKENS holds between two commas
          Launches,   \* what smdbd is started with
          None,       \* nothing, and an Option that is not set
          Faults,     \* whether processes may crash
          MaxStarts,  \* bound: processes started
          MaxLog      \* bound: length of the log

Processes == Daemons \cup Tools

ASSUME DaemonAssumption ==
    /\ Daemons \cap Tools = {} /\ Processes \cap Clients = {}
    /\ None \notin Processes \cup Clients \cup Tokens
    /\ Blank \notin Tokens /\ Faults \in BOOLEAN
    /\ MaxStarts \in Nat /\ MaxLog \in Nat

VARIABLES
    log,         \* the file: committed transitions of the entity
    file,        \* the file: the process that holds its lock
    starts,      \* processes started so far
    pc,          \* each process: where its main() is
    launch,      \* each daemon: what it was started with (history)
    cfg,         \* each daemon: the resolved Config
    server,      \* each daemon: the task of serve_with_shutdown
    dispatcher,  \* each daemon: the task of Dispatcher::run
    metrics,     \* each daemon: the task of run_metrics_server
    base,        \* each tool: the version its command has read
    client       \* each client: its session, its call and the answer

tasks == <<server, dispatcher, metrics>>
daemon == <<launch, cfg, tasks>>
vars == <<log, file, starts, pc, daemon, base, client>>

-----------------------------------------------------------------------------
Record == [by: Tools \cup Clients, base: Nat]

DaemonLabels == {"off", "resolved", "opened", "spawned", "serving", "interrupted", "awaiting", "returning"}
ToolLabels == {"off", "opening", "once", "once_read", "prompt", "prompt_read"}

(* A client: a session with a process (open), its call handed to the       *)
(* blocking pool (queued), past the shutdown check (entered), holding the  *)
(* stripe with the version it has read (locked), answered by the engine    *)
(* (answering); then it was told, or lost its connection first.            *)
Places == {"new", "refused", "open", "queued", "entered", "locked", "answering", "told", "lost"}
Client == [at: Places, token: Tokens \cup {None}, proc: Daemons \cup {None},
           base: Nat, answer: {"none", "ok", "shutting_down"}]

Running(c) == client[c].at \in {"entered", "locked"}
RunningIn(p) == {c \in Clients : client[c].proc = p /\ Running(c)}

(* The shape of the state. *)
TypeOK ==
    /\ log \in Seq(Record) /\ file \in Processes \cup {None}
    /\ starts \in Nat
    /\ pc \in [Processes -> DaemonLabels \cup ToolLabels]
    /\ \A d \in Daemons : pc[d] \in DaemonLabels
    /\ \A t \in Tools : pc[t] \in ToolLabels
    /\ launch \in [Daemons -> Launches \cup {None}] /\ DOMAIN cfg = Daemons
    /\ server \in [Daemons -> {"none", "accepting", "ended"}]
    /\ dispatcher \in [Daemons -> {"none", "select", "pass", "last", "returned"}]
    /\ metrics \in [Daemons -> {"none", "starting", "listening", "failed", "ended"}]
    /\ base \in [Tools -> Nat]
    /\ client \in [Clients -> Client]

Init ==
    /\ log = <<>> /\ file = None /\ starts = 0
    /\ pc = [p \in Processes |-> "off"]
    /\ launch = [d \in Daemons |-> None] /\ cfg = [d \in Daemons |-> None]
    /\ server = [d \in Daemons |-> "none"]
    /\ dispatcher = [d \in Daemons |-> "none"]
    /\ metrics = [d \in Daemons |-> "none"]
    /\ base = [t \in Tools |-> 0]
    /\ client = [c \in Clients |-> [at |-> "new", token |-> None, proc |-> None,
                                    base |-> 0, answer |-> "none"]]

Goto(p, label) == pc' = [pc EXCEPT ![p] = label]

-----------------------------------------------------------------------------
(* config::load and resolve_config: defaults < file < environment < flags. *)
(* Paths are present or None; addresses and levels are right or wrong.     *)
DefaultFile == [cert |-> None, key |-> None, tokens |-> {}, level |-> "right",
                listen |-> "right", interval |-> 100]

load(l) ==
    IF l.status = "read" THEN l.file
    ELSE IF l.status = "absent" /\ ~l.explicit THEN DefaultFile
    ELSE None

OrElse(option, default) == IF option = None THEN default ELSE option

Resolved(l, f) ==
    [cert   |-> OrElse(l.cert, f.cert),
     key    |-> OrElse(l.key, f.key),
     tokens |-> OrElse(IF l.env_tokens = None THEN None ELSE l.env_tokens \ {Blank}, f.tokens),
     level  |-> OrElse(l.level, OrElse(l.env_level, f.level)),
     listen |-> OrElse(l.listen, f.listen),
     interval |-> f.interval]

ValidWithoutPairing(c) ==
    /\ c.listen = "right" /\ c.level = "right" /\ c.interval # 0
    /\ "missing" \notin {c.cert, c.key}

validate(c) ==
    /\ c.listen = "right" /\ c.level = "right" /\ c.interval # 0
    /\ (c.cert = None) = (c.key = None)
    /\ "missing" \notin {c.cert, c.key}

resolve_config(l) ==
    IF load(l) = None THEN None
    ELSE IF validate(Resolved(l, load(l))) THEN Resolved(l, load(l)) ELSE None

Start(d, l) ==
    /\ pc[d] = "off" /\ starts < MaxStarts
    /\ starts' = starts + 1
    /\ cfg' = [cfg EXCEPT ![d] = resolve_config(l)]
    /\ IF resolve_config(l) = None
       THEN UNCHANGED <<launch, pc>>
       ELSE launch' = [launch EXCEPT ![d] = l] /\ Goto(d, "resolved")
    /\ UNCHANGED <<log, file, tasks, base, client>>

(* RedbEngine::open: redb locks the file, or the open fails. *)
OpenIgnoringErrors(d) ==
    /\ pc[d] = "resolved" /\ Goto(d, "opened")
    /\ file' = IF file = None THEN d ELSE file
    /\ UNCHANGED <<log, starts, daemon, base, client>>

Open(d) ==
    /\ pc[d] = "resolved"
    /\ \/ file = None /\ file' = d /\ Goto(d, "opened")
       \/ Goto(d, "returning") /\ UNCHANGED file
    /\ UNCHANGED <<log, starts, daemon, base, client>>

(* build_tls_config: no TLS unless both paths are set; if they are, it     *)
(* succeeds when both files hold what they should.                         *)
Tls(c) == c.cert # None /\ c.key # None
build_tls_config(c) == Tls(c) => "unusable" \notin {c.cert, c.key}

(* Server::new, then the dispatcher and the metrics server are spawned. *)
Spawn(d) ==
    /\ pc[d] = "opened"
    /\ IF build_tls_config(cfg[d])
       THEN /\ Goto(d, "spawned")
            /\ dispatcher' = [dispatcher EXCEPT ![d] = "select"]
            /\ metrics' = [metrics EXCEPT ![d] = "starting"]
            /\ UNCHANGED server
       ELSE Goto(d, "returning") /\ UNCHANGED tasks
    /\ UNCHANGED <<log, file, starts, launch, cfg, base, client>>

(* The wire listener is bound and serve_with_shutdown spawned, or main()   *)
(* returns the error.                                                      *)
Bind(d) ==
    /\ pc[d] = "spawned"
    /\ \/ Goto(d, "serving") /\ server' = [server EXCEPT ![d] = "accepting"]
       \/ Goto(d, "returning") /\ UNCHANGED server
    /\ UNCHANGED <<log, file, starts, launch, cfg, dispatcher, metrics, base, client>>

(* SIGINT: engine.shutdown(), then the watch, then main() waits for the    *)
(* server task, and for nothing else.                                      *)
Interrupt(d) ==
    /\ pc[d] = "serving" /\ Goto(d, "interrupted")
    /\ UNCHANGED <<log, file, starts, daemon, base, client>>

Broadcast(d) ==
    /\ pc[d] = "interrupted" /\ Goto(d, "awaiting")
    /\ UNCHANGED <<log, file, starts, daemon, base, client>>

EngineStopped(d) == pc[d] \in {"interrupted", "awaiting"}
WatchSent(d) == pc[d] = "awaiting"

(* The end of main(): every session is cancelled, and with it what its     *)
(* client waits for; closures that run go on.                              *)
Unheard == {"open", "queued", "answering"}

JoinMetricsToo(d) ==
    /\ pc[d] = "awaiting" /\ server[d] = "ended" /\ metrics[d] = "ended"
    /\ Goto(d, "returning")
    /\ UNCHANGED <<log, file, starts, daemon, base, client>>

Join(d) ==
    /\ pc[d] = "awaiting" /\ server[d] = "ended"
    /\ Goto(d, "returning")
    /\ client' = [c \in Clients |-> IF client[c].proc = d /\ client[c].at \in Unheard
                                    THEN [client[c] EXCEPT !.at = "lost"] ELSE client[c]]
    /\ UNCHANGED <<log, file, starts, daemon, base>>

(* Nothing of the process is left; the file is unlocked with it. *)
Released(p) == IF file = p THEN None ELSE file
Gone(d) ==
    /\ Goto(d, "off") /\ file' = Released(d)
    /\ launch' = [launch EXCEPT ![d] = None] /\ cfg' = [cfg EXCEPT ![d] = None]
    /\ server' = [server EXCEPT ![d] = "none"]
    /\ dispatcher' = [dispatcher EXCEPT ![d] = "none"]
    /\ metrics' = [metrics EXCEPT ![d] = "none"]

(* The runtime is dropped: it waits for the closures that run. *)
Quiet(d) ==
    /\ pc[d] = "returning"
    /\ RunningIn(d) = {}
    /\ dispatcher[d] \notin {"pass", "last"}

Exit(d) ==
    /\ Quiet(d) /\ Gone(d)
    /\ UNCHANGED <<log, starts, base, client>>

(* The process dies at once, and no task or closure goes on. *)
Die(d) ==
    /\ pc[d] # "off" /\ Gone(d)
    /\ client' = [c \in Clients |-> IF client[c].proc = d /\ (Running(c) \/ client[c].at \in Unheard)
                                    THEN [client[c] EXCEPT !.at = "lost"] ELSE client[c]]
    /\ UNCHANGED <<log, starts, base>>

Crash(d) == Faults /\ Die(d)

(* SIGTERM: signal::ctrl_c() installs a handler for SIGINT only, so the    *)
(* default disposition applies, as it does to SIGINT during the start.     *)
Terminate(d) == Die(d)

-----------------------------------------------------------------------------
(* The tasks of a daemon, until the runtime is dropped.                    *)
Alive(d) == pc[d] \notin {"off", "returning"}

(* serve_with_shutdown ends when the watch is sent or when accept() fails; *)
(* in the latter case main() goes on waiting for a signal.                 *)
EndServer(d) ==
    /\ Alive(d) /\ server[d] = "accepting"
    /\ server' = [server EXCEPT ![d] = "ended"]
    /\ UNCHANGED <<log, file, starts, pc, launch, cfg, dispatcher, metrics, base, client>>

ServerStops(d) == WatchSent(d) /\ EndServer(d)
AcceptFails(d) == EndServer(d)

(* run_metrics_server; a listener that cannot be bound only ends the task. *)
MetricsStep(d) ==
    /\ Alive(d)
    /\ \/ /\ metrics[d] = "starting"
          /\ \E s \in {"listening", "failed"} : metrics' = [metrics EXCEPT ![d] = s]
       \/ /\ metrics[d] = "listening" /\ WatchSent(d)
          /\ metrics' = [metrics EXCEPT ![d] = "ended"]
    /\ UNCHANGED <<log, file, starts, pc, launch, cfg, server, dispatcher, base, client>>

(* Dispatcher::run: a pass is a blocking closure; the one that the watch   *)
(* starts is the last.  select! takes any branch that is ready, so a       *)
(* commit or the timer may start another pass before it.                   *)
DispatchPass(d) ==
    /\ Alive(d) /\ dispatcher[d] = "select"
    /\ \/ dispatcher' = [dispatcher EXCEPT ![d] = "pass"]
       \/ WatchSent(d) /\ dispatcher' = [dispatcher EXCEPT ![d] = "last"]
    /\ UNCHANGED <<log, file, starts, pc, launch, cfg, server, metrics, base, client>>

DispatchEnds(d) ==
    /\ dispatcher[d] \in {"pass", "last"}
    /\ dispatcher' = [dispatcher EXCEPT ![d] = IF @ = "last" THEN "returned" ELSE "select"]
    /\ UNCHANGED <<log, file, starts, pc, launch, cfg, server, metrics, base, client>>

-----------------------------------------------------------------------------
(* A client connects while the server accepts; its token has to be one of  *)
(* the configured ones.                                                    *)
Set(c, fields) == client' = [client EXCEPT ![c] = fields]

token_is_valid(valid, presented) == \E token \in valid : token = presented

Connect(c, d, token) ==
    /\ client[c].at = "new" /\ Alive(d) /\ server[d] = "accepting"
    /\ Set(c, [client[c] EXCEPT !.proc = d, !.token = token,
                  !.at = IF token_is_valid(cfg[d].tokens, token) THEN "open" ELSE "refused"])
    /\ UNCHANGED <<log, file, starts, pc, daemon, base>>

(* A Transition frame: handle_frame is handed to the blocking pool. *)
Submit(c) ==
    /\ client[c].at = "open"
    /\ Set(c, [client[c] EXCEPT !.at = "queued"])
    /\ UNCHANGED <<log, file, starts, pc, daemon, base>>

(* Engine::transition: the shutdown check, the read under the stripe lock, *)
(* the commit.                                                             *)
Enter(c) ==
    /\ client[c].at = "queued"
    /\ Set(c, IF EngineStopped(client[c].proc)
              THEN [client[c] EXCEPT !.at = "answering", !.answer = "shutting_down"]
              ELSE [client[c] EXCEPT !.at = "entered"])
    /\ UNCHANGED <<log, file, starts, pc, daemon, base>>

Read(c) ==
    /\ client[c].at = "entered"
    /\ \A e \in RunningIn(client[c].proc) : client[e].at # "locked"
    /\ Set(c, [client[c] EXCEPT !.at = "locked", !.base = Len(log)])
    /\ UNCHANGED <<log, file, starts, pc, daemon, base>>

CheckedAfterTheCommit(c) ==
    /\ client[c].at = "locked" /\ Len(log) < MaxLog
    /\ log' = Append(log, [by |-> c, base |-> client[c].base])
    /\ Set(c, [client[c] EXCEPT !.answer = IF EngineStopped(client[c].proc) THEN "shutting_down" ELSE "ok",
                  !.at = IF Alive(client[c].proc) THEN "answering" ELSE "lost"])
    /\ UNCHANGED <<file, starts, pc, daemon, base>>

Commit(c) ==
    /\ client[c].at = "locked" /\ Len(log) < MaxLog
    /\ log' = Append(log, [by |-> c, base |-> client[c].base])
    /\ Set(c, [client[c] EXCEPT !.answer = "ok",
                  !.at = IF Alive(client[c].proc) THEN "answering" ELSE "lost"])
    /\ UNCHANGED <<file, starts, pc, daemon, base>>

(* The engine refuses the transition, or storage fails: no record. *)
Reject(c) ==
    /\ client[c].at = "locked"
    /\ Set(c, [client[c] EXCEPT !.at = IF Alive(client[c].proc) THEN "answering" ELSE "lost"])
    /\ UNCHANGED <<log, file, starts, pc, daemon, base>>

Reply(c) ==
    /\ client[c].at = "answering"
    /\ Set(c, [client[c] EXCEPT !.at = "told"])
    /\ UNCHANGED <<log, file, starts, pc, daemon, base>>

-----------------------------------------------------------------------------
(* smdbctl, or smash with -c (once), and the prompt of smash: open the     *)
(* file, then commands; a transition reads and commits.                    *)
StartTool(t) ==
    /\ pc[t] = "off" /\ starts < MaxStarts
    /\ starts' = starts + 1
    /\ Goto(t, "opening")
    /\ UNCHANGED <<log, file, daemon, base, client>>

OpenTool(t) ==
    /\ pc[t] = "opening"
    /\ \/ file = None /\ file' = t /\ \E label \in {"once", "prompt"} : Goto(t, label)
       \/ Goto(t, "off") /\ UNCHANGED file
    /\ UNCHANGED <<log, starts, daemon, base, client>>

ToolReads(t) ==
    /\ \/ pc[t] = "once" /\ Goto(t, "once_read")
       \/ pc[t] = "prompt" /\ Goto(t, "prompt_read")
    /\ base' = [base EXCEPT ![t] = Len(log)]
    /\ UNCHANGED <<log, file, starts, daemon, client>>

(* The command ends, with a record or with an error: a tool that runs one  *)
(* command exits, the shell shows its prompt again.                        *)
ToolEnds(t) ==
    /\ \/ pc[t] = "once_read" /\ Goto(t, "off") /\ file' = Released(t)
       \/ pc[t] = "prompt_read" /\ Goto(t, "prompt") /\ UNCHANGED file
    /\ \/ Len(log) < MaxLog /\ log' = Append(log, [by |-> t, base |-> base[t]])
       \/ UNCHANGED log
    /\ base' = [base EXCEPT ![t] = 0]
    /\ UNCHANGED <<starts, daemon, client>>

(* \quit, the end of the input, or the process dies at any point. *)
ToolGone(t) ==
    /\ pc[t] # "off" /\ Goto(t, "off") /\ file' = Released(t)
    /\ base' = [base EXCEPT ![t] = 0]
    /\ UNCHANGED <<log, starts, daemon, client>>

-----------------------------------------------------------------------------
main(d) == Open(d) \/ Spawn(d) \/ Bind(d) \/ Broadcast(d) \/ Join(d) \/ Exit(d)

ClientStep(c) == Enter(c) \/ Read(c) \/ Commit(c) \/ Reject(c) \/ Reply(c)

Next ==
    \/ \E d \in Daemons :
          \/ \E l \in Launches : Start(d, l)
          \/ main(d) \/ Interrupt(d) \/ Terminate(d) \/ Crash(d)
          \/ ServerStops(d) \/ AcceptFails(d) \/ MetricsStep(d)
          \/ DispatchPass(d) \/ DispatchEnds(d)
          \/ \E c \in Clients, token \in Tokens : Connect(c, d, token)
    \/ \E c \in Clients : Submit(c) \/ ClientStep(c)
    \/ \E t \in Tools :
          StartTool(t) \/ OpenTool(t) \/ ToolReads(t) \/ ToolEnds(t) \/ ToolGone(t)

Spec == Init /\ [][Next]_vars

(* Processes that run are scheduled; signals, clients and users may do     *)
(* nothing.                                                                *)
FairSpec ==
    /\ Spec
    /\ \A d \in Daemons : WF_vars(main(d)) /\ WF_vars(ServerStops(d)) /\ WF_vars(DispatchEnds(d))
    /\ \A c \in Clients : WF_vars(ClientStep(c))

-----------------------------------------------------------------------------
(* "Serialise on the entity stripe" (Engine::transition) holds between     *)
(* processes too: every record was planned from the version right before   *)
(* it, although a daemon that is ending still commits what it has begun    *)
(* while tools and the next daemon try to open the file.                   *)
CommitsChain == \A i \in DOMAIN log : log[i].base = i - 1

(* A client is told the truth: "ok" was committed, once; a client that was *)
(* refused, rejected or told that the daemon is shutting down has no       *)
(* record, now or later; one that lost its connection has at most one.     *)
AnswersAreTrue ==
    \A c \in Clients :
        LET records == {i \in DOMAIN log : log[i].by = c} IN
        /\ \A i, j \in records : i = j
        /\ client[c].at = "told" => (client[c].answer = "ok" <=> records # {})
        /\ client[c].at = "refused" => records = {}

(* "/readyz (ready after WAL recovery and storage open)" (README.md): a    *)
(* daemon that reports ready or accepts connections has the file open.     *)
ReadyMeansOpen ==
    \A d \in Daemons :
        (server[d] = "accepting" \/ metrics[d] = "listening") => file = d

(* A daemon accepts plain TCP only if no source of its configuration names *)
(* a certificate or a key: none that is given is silently ignored.         *)
CertificatesNeverIgnored ==
    \A d \in Daemons : server[d] = "accepting" =>
        \/ Tls(cfg[d])
        \/ /\ launch[d].cert = None /\ launch[d].key = None
           /\ load(launch[d]).cert = None /\ load(launch[d]).key = None

(* A daemon that gets SIGINT ends and leaves the file to the next process, *)
(* whatever its sessions, closures and tasks are doing.                    *)
InterruptStops ==
    \A d \in Daemons : pc[d] = "interrupted" ~> (pc[d] = "off" /\ file # d)

(* "empty = open dev mode" (README.md, [auth] tokens): a daemon without    *)
(* tokens lets every client in.                                            *)
DevModeIsOpen ==
    \A c \in Clients : client[c].at = "refused" /\ Alive(client[c].proc) =>
        cfg[client[c].proc].tokens # {}

(* "The server is ready when /readyz returns 200" (README.md). *)
ReadyMeansAccepting ==
    \A d \in Daemons : metrics[d] = "listening" /\ ~WatchSent(d) => server[d] = "accepting"

(* "Wait for SIGINT/SIGTERM, then drive a graceful shutdown" (main): when  *)
(* nothing crashes, a daemon that serves ends through its shutdown path.   *)
StopsGracefully ==
    [][\A d \in Daemons : pc[d] = "serving" => pc'[d] \in {"serving", "interrupted"}]_vars

(* "draining remaining records" (Dispatcher::run): a daemon that is told   *)
(* to stop ends only when its dispatcher has made its last pass.           *)
DrainsBeforeExit ==
    [][\A d \in Daemons : Exit(d) /\ server[d] = "ended" => dispatcher[d] = "returned"]_vars
=============================================================================
