-------------------------- MODULE ConnectionProofs --------------------------
(***************************************************************************)
(* Proofs about Connection, for any number of tasks, calls and pushed      *)
(* records.                                                                *)
(***************************************************************************)
EXTENDS Connection, TLAPS

USE ZenonT(30), SMTT(30)

Request == [tag: Kinds \cup {None}, request_id: Nat, call: Nat]
Frame ==
    {ServerFrame(tag, id) : tag \in ServerTags, id \in Nat}
        \cup {ResultFrame(tag, id) : tag \in ClientTags, id \in Nat}
        \cup {make_rejection_frame(id, outcome) : id \in Nat, outcome \in Outcomes}
Message == [frame: Frame, call: Nat, sub: Nat]

Asked == {requests[i] : i \in DOMAIN requests}
Told == {responses[i] : i \in DOMAIN responses}
IsPush(m) == m.frame.tag = "ChangeRecord"

(* The ids the server has seen, or will see. *)
Sent == served \cup {q.request_id : q \in Asked} \cup {m.call : m \in {x \in Told : ~IsPush(x)}}

Unsent == {"register", "insert", "write"}   \* steps before the frame is written

(* A call and its id have the same number. *)
Shape ==
    /\ pc \in [Callers -> Busy \cup {"idle"}]
    /\ kind \in [Callers -> Kinds \cup {None}]
    /\ rid \in [Callers -> Nat] /\ call = rid
    /\ got \in [Callers -> Message \cup {None}]
    /\ result \in [Callers -> Results \cup {None}]
    /\ calls \in Nat /\ next_request_id = calls + 1
    /\ pending \in [DOMAIN pending -> Callers]
    /\ requests \in Seq(Request) /\ responses \in Seq(Message)

(* An id belongs to one call.  The sender under it is that call's, also    *)
(* when a failed write has left it in the table.                           *)
IdsOwned ==
    /\ \A c \in Callers : rid[c] <= calls /\ (pc[c] # "idle" => rid[c] # 0 /\ result[c] = None)
    /\ \A c, d \in Callers : rid[c] = rid[d] /\ rid[c] # 0 => c = d
    /\ DOMAIN pending \subseteq 1..calls
    /\ \A c \in Callers : rid[c] \in DOMAIN pending => pending[rid[c]] = c
    /\ \A c \in Callers : got[c] # None =>
          rid[c] \notin DOMAIN pending /\ pc[c] \notin Unsent /\ got[c].call = rid[c]

(* An id the server sees is that of a frame that was written, and a sender *)
(* still under it belongs to a call that waits.                            *)
FlightTracked ==
    /\ Sent \subseteq 1..calls
    /\ \A c \in Callers : rid[c] \in Sent => pc[c] \notin Unsent
    /\ \A r \in Sent \cap DOMAIN pending : rid[pending[r]] = r /\ pc[pending[r]] \in {"wait", "expired"}
    /\ \A q \in Asked : q.call = q.request_id
    /\ \A m \in Told : IF IsPush(m) THEN m.sub \in served ELSE m.frame.request_id \in {0, m.call}

(* A subscription is in the table before its frame is written, and stays   *)
(* there unless its call fails.                                            *)
Subscribed ==
    /\ \A c \in Callers : kind[c] = "Subscribe" /\ result[c] \in {None, "Ok"} =>
          pc[c] = "register" \/ rid[c] \in subscriptions
    /\ missed \subseteq served

IInv == Shape /\ IdsOwned /\ FlightTracked /\ Subscribed /\ NoRecordMissed /\ DeadStrandsNoOne
-----------------------------------------------------------------------------
(* What the ends of a sequence are made of. *)
LEMMA TailWithin ==
    ASSUME NEW S, NEW s \in Seq(S), s # <<>>
    PROVE  /\ Tail(s) \in Seq(S) /\ Head(s) \in S
           /\ 1 \in DOMAIN s /\ Head(s) = s[1]
           /\ \A i \in DOMAIN Tail(s) : i + 1 \in DOMAIN s /\ Tail(s)[i] = s[i + 1]
BY SMTT(30)

LEMMA AppendWithin ==
    ASSUME NEW S, NEW s \in Seq(S), NEW x \in S
    PROVE  /\ Append(s, x) \in Seq(S)
           /\ \A i \in DOMAIN Append(s, x) :
                 Append(s, x)[i] = x \/ (i \in DOMAIN s /\ Append(s, x)[i] = s[i])
BY SMTT(30)

LEMMA PrefixWithin ==
    ASSUME NEW S, NEW s \in Seq(S), NEW n \in 0..Len(s)
    PROVE  /\ SubSeq(s, 1, n) \in Seq(S)
           /\ \A i \in DOMAIN SubSeq(s, 1, n) : i \in DOMAIN s /\ SubSeq(s, 1, n)[i] = s[i]
BY SMTT(30)

LEMMA InitHolds == Init => IInv
<1> SUFFICES ASSUME Init PROVE IInv
  OBVIOUS
<1> USE DEF Init
<1>1. Shape
  BY SMTT(30) DEF Shape
<1>2. Asked = {} /\ Told = {} /\ Sent = {}
  BY SMTT(30) DEF Asked, Told, Sent
<1>3. IdsOwned
  BY SMTT(30) DEF IdsOwned
<1>4. FlightTracked
  BY <1>2 DEF FlightTracked
<1>5. \A c \in Callers : kind[c] # "Subscribe"
  BY ConnectionAssumption DEF ClientTags
<1>6. Subscribed /\ NoRecordMissed /\ DeadStrandsNoOne
  BY <1>5 DEF Subscribed, NoRecordMissed, DeadStrandsNoOne
<1> QED
  BY <1>1, <1>3, <1>4, <1>6 DEF IInv

(* connect_with_retry leaves the calls alone. *)
LEMMA Unmoved ==
    ASSUME IInv, UNCHANGED <<caller, next_request_id, shared, stream, counters>>
    PROVE  IInv'
<1>1. Asked' = Asked /\ Told' = Told /\ Sent' = Sent
  BY DEF stream, Asked, Told, Sent
<1> QED
  BY <1>1 DEF IInv, Shape, IdsOwned, FlightTracked, Subscribed, NoRecordMissed, DeadStrandsNoOne,
              caller, shared, stream, counters

(* A caller takes a step that starts no call and writes no frame.  It may  *)
(* take senders out of the table, and its own subscription.                *)
LEMMA CallerMoves ==
    ASSUME IInv, NEW c \in Callers,
           UNCHANGED <<kind, rid, call, got, next_request_id, dead, stream, counters>>,
           pc' \in [Callers -> Busy \cup {"idle"}], result' \in [Callers -> Results \cup {None}],
           \A d \in Callers \ {c} : pc'[d] = pc[d] /\ result'[d] = result[d],
           pending' \in [DOMAIN pending' -> Callers], DOMAIN pending' \subseteq DOMAIN pending,
           \A r \in DOMAIN pending' : pending'[r] = pending[r],
           \A d \in Callers \ {c} : rid[d] \in subscriptions => rid[d] \in subscriptions',
           pc'[c] # "idle" => rid[c] # 0 /\ result'[c] = None,
           pc'[c] \in Unsent => pc[c] \in Unsent,
           rid[c] \in Sent \cap DOMAIN pending' => pc'[c] \in {"wait", "expired"},
           result'[c] \in {None, "Ok"} => result[c] \in {None, "Ok"},
           kind[c] = "Subscribe" /\ result'[c] \in {None, "Ok"} =>
               pc'[c] = "register" \/ rid[c] \in subscriptions'
    PROVE  IInv'
<1>1. UNCHANGED <<requests, responses, served, calls, missed>>
  BY DEF stream, counters
<1>2. Asked' = Asked /\ Told' = Told /\ Sent' = Sent
  BY <1>1, SMTT(30) DEF Asked, Told, Sent
<1> USE DEF IInv
<1>3. Shape'
  BY <1>1 DEF Shape
<1>4. IdsOwned'
  BY <1>1, SMTT(30) DEF IdsOwned
<1>5. FlightTracked'
  BY <1>1, <1>2, SMTT(30) DEF FlightTracked
<1>6. Subscribed'
  BY <1>1 DEF Subscribed
<1>7. NoRecordMissed' /\ DeadStrandsNoOne'
  BY <1>1 DEF NoRecordMissed, DeadStrandsNoOne
<1> QED
  BY <1>3, <1>4, <1>5, <1>6, <1>7

LEMMA CallerKeeps ==
    ASSUME IInv, NEW c \in Callers,
           Register(c) \/ Receive(c) \/ SenderDropped(c) \/ Elapse(c) \/ RemovePending(c)
    PROVE  IInv'
<1> USE DEF IInv
<1>1. /\ pc \in [Callers -> Busy \cup {"idle"}] /\ result \in [Callers -> Results \cup {None}]
      /\ pending \in [DOMAIN pending -> Callers]
  BY DEF Shape
<1>2. \A d \in Callers \ {c} : pc[c] # "idle" => rid[d] # rid[c]
  BY DEF IdsOwned
<1>3. CASE Register(c)
  <2>1. /\ pc[c] = "register" /\ pc' = [pc EXCEPT ![c] = "insert"]
        /\ subscriptions' = subscriptions \cup {rid[c]}
        /\ UNCHANGED <<kind, rid, call, got, result, next_request_id, pending, dead, stream, counters>>
    BY <1>3 DEF Register, GoTo
  <2>2. rid[c] \notin Sent
    BY <2>1 DEF FlightTracked, Unsent
  <2>3. rid[c] # 0 /\ result[c] = None
    BY <2>1 DEF IdsOwned
  <2> QED
    BY <1>1, <2>1, <2>2, <2>3, CallerMoves DEF Busy, Unsent
<1>4. CASE Receive(c)
  <2> DEFINE answer == Decoded(kind[c], got[c].frame)
  <2>1. /\ pc[c] = "wait" /\ got[c] # None /\ pc' = [pc EXCEPT ![c] = "idle"]
        /\ result' = [result EXCEPT ![c] = answer]
        /\ UNCHANGED <<kind, rid, call, got, next_request_id, pending, dead, stream, counters>>
    BY <1>4 DEF Receive, Return
  <2>2. /\ subscriptions \ {rid[c]} \subseteq subscriptions'
        /\ kind[c] = "Subscribe" /\ got[c].frame.tag = "Result" => subscriptions' = subscriptions
    BY <1>4 DEF Receive
  <2>3. /\ answer \in Results
        /\ got[c].frame.tag # "Result" => answer \notin {None, "Ok"}
    BY ConnectionAssumption DEF Decoded, Results
  <2>4. rid[c] # 0 /\ result[c] = None /\ rid[c] \notin DOMAIN pending
    BY <2>1 DEF IdsOwned
  <2>5. kind[c] = "Subscribe" => rid[c] \in subscriptions
    BY <2>1, <2>4 DEF Subscribed
  <2> HIDE DEF answer
  <2> QED
    BY <1>1, <1>2, <2>1, <2>2, <2>3, <2>4, <2>5, CallerMoves DEF Unsent
<1>5. CASE SenderDropped(c)
  <2>1. /\ pc[c] = "wait" /\ rid[c] \notin DOMAIN pending /\ pc' = [pc EXCEPT ![c] = "idle"]
        /\ result' = [result EXCEPT ![c] = "Disconnected"]
        /\ UNCHANGED <<kind, rid, call, got, next_request_id, shared, stream, counters>>
    BY <1>5 DEF SenderDropped, Return
  <2>2. UNCHANGED <<pending, subscriptions, dead>> /\ "Disconnected" \notin {None, "Ok"}
    BY <2>1, ConnectionAssumption DEF shared, Results
  <2> QED
    BY <1>1, <2>1, <2>2, CallerMoves DEF Results, Unsent
<1>6. CASE Elapse(c)
  <2>1. /\ pc[c] = "wait" /\ pc' = [pc EXCEPT ![c] = "expired"]
        /\ UNCHANGED <<kind, rid, call, got, result, next_request_id, shared, stream, counters>>
    BY <1>6 DEF Elapse, GoTo
  <2>2. UNCHANGED <<pending, subscriptions, dead>>
    BY <2>1 DEF shared
  <2>3. rid[c] # 0 /\ result[c] = None
    BY <2>1 DEF IdsOwned
  <2>4. kind[c] = "Subscribe" => rid[c] \in subscriptions
    BY <2>1, <2>3 DEF Subscribed
  <2> QED
    BY <1>1, <2>1, <2>2, <2>3, <2>4, CallerMoves DEF Busy, Unsent
<1>7. CASE RemovePending(c)
  <2>1. /\ pc[c] = "expired" /\ pc' = [pc EXCEPT ![c] = "idle"]
        /\ result' = [result EXCEPT ![c] = "Timeout"] /\ pending' = Without(pending, rid[c])
        /\ UNCHANGED <<kind, rid, call, got, next_request_id, subscriptions, dead, stream, counters>>
    BY <1>7 DEF RemovePending, Return
  <2>2. /\ DOMAIN pending' = DOMAIN pending \ {rid[c]} /\ pending' \in [DOMAIN pending' -> Callers]
        /\ \A r \in DOMAIN pending' : pending'[r] = pending[r]
    BY <1>1, <2>1 DEF Without
  <2>3. "Timeout" \notin {None, "Ok"}
    BY ConnectionAssumption DEF Results
  <2> QED
    BY <1>1, <2>1, <2>2, <2>3, CallerMoves DEF Results, Unsent
<1> QED
  BY <1>3, <1>4, <1>5, <1>6, <1>7

(* A call gets an id that is nowhere yet. *)
LEMMA StartKeeps ==
    ASSUME IInv, NEW c \in Callers, NEW k \in Kinds, Start(c, k)
    PROVE  IInv'
<1> USE DEF IInv
<1>1. /\ pc \in [Callers -> Busy \cup {"idle"}] /\ kind \in [Callers -> Kinds \cup {None}]
      /\ rid \in [Callers -> Nat] /\ call = rid /\ got \in [Callers -> Message \cup {None}]
      /\ result \in [Callers -> Results \cup {None}] /\ calls \in Nat
      /\ next_request_id = calls + 1
  BY DEF Shape
<1>2. /\ pc[c] = "idle" /\ calls' = calls + 1
      /\ next_request_id' = calls' + 1
      /\ rid' = [rid EXCEPT ![c] = calls'] /\ call' = [call EXCEPT ![c] = calls']
      /\ kind' = [kind EXCEPT ![c] = k] /\ got' = [got EXCEPT ![c] = None]
      /\ result' = [result EXCEPT ![c] = None] /\ pc' = [pc EXCEPT ![c] = FirstStep(k)]
      /\ UNCHANGED <<pending, subscriptions, dead, requests, responses, served, missed>>
  BY <1>1 DEF Start, NextRequestId, shared, stream
<1>3. /\ rid'[c] = calls' /\ kind'[c] = k /\ got'[c] = None /\ result'[c] = None /\ pc'[c] = FirstStep(k)
      /\ \A d \in Callers \ {c} : /\ rid'[d] = rid[d] /\ kind'[d] = kind[d] /\ got'[d] = got[d]
                                  /\ result'[d] = result[d] /\ pc'[d] = pc[d]
  BY <1>1, <1>2
<1>4. /\ FirstStep(k) \in {"register", "insert"} /\ (k = "Subscribe" => FirstStep(k) = "register")
  BY DEF FirstStep
<1>5. calls' \in Nat /\ calls' # 0 /\ calls' \notin 1..calls /\ 1..calls \subseteq 1..calls'
  BY <1>1, <1>2, SMTT(30)
<1>6. \A n \in Nat : n <= calls => n <= calls' /\ n # calls'
  BY <1>1, <1>2, SMTT(30)
<1>7. Asked' = Asked /\ Told' = Told /\ Sent' = Sent
  BY <1>2 DEF Asked, Told, Sent
<1>8. Shape'
  BY <1>1, <1>2, <1>4, <1>5 DEF Shape, Busy
<1>9. IdsOwned'
  <2>1. \A d \in Callers : rid'[d] <= calls' /\ (pc'[d] # "idle" => rid'[d] # 0 /\ result'[d] = None)
    <3>1. calls' <= calls'
      BY <1>5, SMTT(30)
    <3> QED
      BY <1>1, <1>3, <1>5, <1>6, <3>1 DEF IdsOwned
  <2>2. \A d, e \in Callers : rid'[d] = rid'[e] /\ rid'[d] # 0 => d = e
    BY <1>1, <1>3, <1>6, SMTT(30) DEF IdsOwned
  <2>3. DOMAIN pending' \subseteq 1..calls'
    BY <1>2, <1>5 DEF IdsOwned
  <2>4. \A d \in Callers : rid'[d] \in DOMAIN pending' => pending'[rid'[d]] = d
    BY <1>2, <1>3, <1>5 DEF IdsOwned
  <2>5. \A d \in Callers : got'[d] # None =>
            rid'[d] \notin DOMAIN pending' /\ pc'[d] \notin Unsent /\ got'[d].call = rid'[d]
    BY <1>2, <1>3 DEF IdsOwned
  <2> QED
    BY <2>1, <2>2, <2>3, <2>4, <2>5 DEF IdsOwned
<1>10. FlightTracked'
  <2>1. Sent' \subseteq 1..calls'
    BY <1>5, <1>7 DEF FlightTracked
  <2>2. \A d \in Callers : rid'[d] \in Sent' => pc'[d] \notin Unsent
    BY <1>3, <1>5, <1>7 DEF FlightTracked
  <2>3. \A r \in Sent' \cap DOMAIN pending' :
            rid'[pending'[r]] = r /\ pc'[pending'[r]] \in {"wait", "expired"}
    <3>1. \A r \in Sent \cap DOMAIN pending : pending[r] \in Callers \ {c}
      BY <1>2 DEF FlightTracked, Shape
    <3>2. \A r \in Sent \cap DOMAIN pending :
              rid[pending[r]] = r /\ pc[pending[r]] \in {"wait", "expired"}
      BY DEF FlightTracked
    <3>3. \A d \in Callers \ {c} : rid'[d] = rid[d] /\ pc'[d] = pc[d]
      BY <1>3
    <3>4. UNCHANGED pending /\ Sent' = Sent
      BY <1>2, <1>7
    <3> HIDE DEF IInv
    <3> QED
      BY <3>1, <3>2, <3>3, <3>4
  <2> QED
    BY <1>2, <1>7, <2>1, <2>2, <2>3 DEF FlightTracked
<1>11. Subscribed'
  BY <1>2, <1>3, <1>4, SMTT(30) DEF Subscribed
<1>12. NoRecordMissed'
  <2>1. calls' \notin missed
    BY <1>5 DEF Subscribed, FlightTracked, Sent
  <2> QED
    BY <1>2, <1>3, <2>1, SMTT(30) DEF NoRecordMissed
<1>13. DeadStrandsNoOne'
  BY <1>2 DEF DeadStrandsNoOne
<1> QED
  BY <1>8, <1>9, <1>10, <1>11, <1>12, <1>13

(* The sender goes into the table of a connection that is not dead. *)
LEMMA InsertKeeps ==
    ASSUME IInv, NEW c \in Callers, Insert(c)
    PROVE  IInv'
<1> USE DEF IInv
<1>1. /\ pc \in [Callers -> Busy \cup {"idle"}] /\ result \in [Callers -> Results \cup {None}]
      /\ pending \in [DOMAIN pending -> Callers] /\ rid \in [Callers -> Nat] /\ calls \in Nat
  BY DEF Shape
<1>2. /\ pc[c] = "insert"
      /\ UNCHANGED <<kind, rid, call, got, next_request_id, subscriptions, dead, stream, counters>>
  BY DEF Insert, GoTo, Return
<1>3. /\ rid[c] # 0 /\ result[c] = None /\ got[c] = None /\ rid[c] \notin Sent
      /\ rid[c] <= calls
  BY <1>2 DEF IdsOwned, FlightTracked, Unsent
<1>4. CASE dead
  <2>1. /\ pc' = [pc EXCEPT ![c] = "idle"] /\ result' = [result EXCEPT ![c] = "Disconnected"]
        /\ UNCHANGED pending
    BY <1>4 DEF Insert, Usable, Return
  <2>2. "Disconnected" \notin {None, "Ok"}
    BY ConnectionAssumption DEF Results
  <2> QED
    BY <1>1, <1>2, <1>3, <2>1, <2>2, CallerMoves DEF Results, Unsent
<1>5. CASE ~dead
  <2>1. /\ pending' = [r \in DOMAIN pending \cup {rid[c]} |-> IF r = rid[c] THEN c ELSE pending[r]]
        /\ pc' = [pc EXCEPT ![c] = "write"] /\ UNCHANGED result
    BY <1>5 DEF Insert, Usable, GoTo
  <2>2. /\ DOMAIN pending' = DOMAIN pending \cup {rid[c]} /\ pending' \in [DOMAIN pending' -> Callers]
        /\ pending'[rid[c]] = c /\ \A r \in DOMAIN pending \ {rid[c]} : pending'[r] = pending[r]
    BY <1>1, <2>1
  <2>3. pc'[c] = "write" /\ \A d \in Callers \ {c} : pc'[d] = pc[d]
    BY <1>1, <2>1
  <2>4. /\ Asked' = Asked /\ Told' = Told /\ Sent' = Sent
        /\ UNCHANGED <<requests, responses, served, calls, missed>>
    BY <1>2 DEF stream, counters, Asked, Told, Sent
  <2>5. Shape'
    BY <1>2, <2>1, <2>2, <2>4 DEF Shape, Busy
  <2>6. IdsOwned'
    <3>1. rid[c] \in 1..calls
      BY <1>1, <1>3, SMTT(30)
    <3>2. \A d \in Callers \ {c} : rid[d] # rid[c]
      BY <1>3 DEF IdsOwned
    <3> QED
      BY <1>2, <1>3, <2>1, <2>2, <2>3, <2>4, <3>1, <3>2 DEF IdsOwned
  <2>7. FlightTracked'
    <3>1. \A r \in Sent \cap DOMAIN pending' : r \in DOMAIN pending /\ pending'[r] = pending[r]
      BY <1>3, <2>2
    <3>2. \A r \in Sent \cap DOMAIN pending : pending[r] # c
      BY <1>2 DEF FlightTracked
    <3>3. \A r \in Sent' \cap DOMAIN pending' :
              rid'[pending'[r]] = r /\ pc'[pending'[r]] \in {"wait", "expired"}
      BY <1>1, <1>2, <2>3, <2>4, <3>1, <3>2, SMTT(30) DEF FlightTracked
    <3> QED
      BY <1>2, <1>3, <2>3, <2>4, <3>3 DEF FlightTracked
  <2>8. Subscribed'
    BY <1>2, <2>1, <2>3, <2>4 DEF Subscribed
  <2>9. NoRecordMissed' /\ DeadStrandsNoOne'
    BY <1>2, <1>5, <2>1, <2>4 DEF NoRecordMissed, DeadStrandsNoOne
  <2> QED
    BY <2>5, <2>6, <2>7, <2>8, <2>9
<1> QED
  BY <1>4, <1>5

(* From here on the server may see the id.  When the write fails it never  *)
(* will, and the sender stays in the table for good.                       *)
LEMMA WriteKeeps ==
    ASSUME IInv, NEW c \in Callers, Write(c)
    PROVE  IInv'
<1> USE DEF IInv
<1> DEFINE q == [tag |-> kind[c], request_id |-> rid[c], call |-> call[c]]
<1>1. /\ pc \in [Callers -> Busy \cup {"idle"}] /\ result \in [Callers -> Results \cup {None}]
      /\ pending \in [DOMAIN pending -> Callers] /\ rid \in [Callers -> Nat] /\ call = rid
      /\ calls \in Nat /\ requests \in Seq(Request) /\ kind[c] \in Kinds \cup {None}
  BY DEF Shape
<1>2. /\ pc[c] = "write"
      /\ UNCHANGED <<kind, rid, call, got, next_request_id, shared, responses, served, broken, counters>>
  BY DEF Write, GoTo, Return
<1>3. UNCHANGED <<pending, subscriptions, dead, calls, missed>>
  BY <1>2 DEF shared, counters
<1>4. rid[c] # 0 /\ result[c] = None /\ rid[c] \notin Sent /\ rid[c] <= calls /\ got[c] = None
  BY <1>2 DEF IdsOwned, FlightTracked, Unsent
<1>5. CASE pc' = [pc EXCEPT ![c] = "idle"] /\ result' = [result EXCEPT ![c] = "Disconnected"] /\ UNCHANGED requests
  <2>1. "Disconnected" \notin {None, "Ok"} /\ UNCHANGED stream
    BY <1>2, <1>5, ConnectionAssumption DEF Results, stream
  <2> QED
    BY <1>1, <1>2, <1>3, <1>4, <1>5, <2>1, CallerMoves DEF Results, Unsent
<1>6. CASE requests' = Append(requests, q) /\ pc' = [pc EXCEPT ![c] = "wait"] /\ UNCHANGED result
  <2>1. pc'[c] = "wait" /\ \A d \in Callers \ {c} : pc'[d] = pc[d]
    BY <1>1, <1>6
  <2>2. q \in Request /\ q.request_id = rid[c] /\ q.call = rid[c]
    BY <1>1 DEF Request
  <2> HIDE DEF q
  <2>3. requests' \in Seq(Request) /\ Asked' \subseteq Asked \cup {q}
    BY <1>1, <1>6, <2>2, AppendWithin, SMTT(30) DEF Asked
  <2>4. Told' = Told /\ Sent' \subseteq Sent \cup {rid[c]}
    BY <1>2, <2>2, <2>3 DEF Told, Sent
  <2>5. Shape'
    BY <1>2, <1>3, <1>6, <2>3 DEF Shape, Busy
  <2>6. IdsOwned'
    BY <1>2, <1>3, <1>4, <1>6, <2>1 DEF IdsOwned
  <2>7. FlightTracked'
    <3>1. rid[c] \in 1..calls
      BY <1>1, <1>4, SMTT(30)
    <3>2. Sent' \subseteq 1..calls'
      BY <1>3, <2>4, <3>1 DEF FlightTracked
    <3>3. \A d \in Callers : rid'[d] \in Sent' => pc'[d] \notin Unsent
      <4>1. \A d \in Callers \ {c} : rid[d] # rid[c]
        BY <1>4 DEF IdsOwned
      <4> QED
        BY <1>2, <2>1, <2>4, <4>1 DEF FlightTracked, Unsent
    <3>4. \A r \in Sent' \cap DOMAIN pending' :
              rid'[pending'[r]] = r /\ pc'[pending'[r]] \in {"wait", "expired"}
      <4>1. rid[c] \in DOMAIN pending => pending[rid[c]] = c
        BY DEF IdsOwned
      <4>2. \A r \in DOMAIN pending : pending[r] \in Callers
        BY <1>1
      <4> QED
        BY <1>2, <1>3, <2>1, <2>4, <4>1, <4>2 DEF FlightTracked
    <3> QED
      BY <1>2, <2>2, <2>3, <2>4, <3>2, <3>3, <3>4 DEF FlightTracked
  <2>8. Subscribed'
    BY <1>2, <1>3, <1>6, <2>1 DEF Subscribed
  <2>9. NoRecordMissed' /\ DeadStrandsNoOne'
    BY <1>2, <1>3, <1>6 DEF NoRecordMissed, DeadStrandsNoOne
  <2> QED
    BY <2>5, <2>6, <2>7, <2>8, <2>9
<1> QED
  BY <1>5, <1>6 DEF Write, GoTo, Return

-----------------------------------------------------------------------------
(* A step of the server or of the network: frames it takes from the stream *)
(* and frames it puts there name calls and subscriptions it has seen.      *)
LEMMA ServerMoves ==
    ASSUME IInv, UNCHANGED <<caller, next_request_id, shared, calls, missed>>,
           requests' \in Seq(Request), Asked' \subseteq Asked,
           responses' \in Seq(Message), served \subseteq served', served' \subseteq Sent,
           \A m \in Told' : m \in Told \/
               (IF IsPush(m) THEN m.sub \in served ELSE m.call \in Sent /\ m.frame.request_id \in {0, m.call})
    PROVE  IInv'
<1> USE DEF IInv
<1>1. UNCHANGED <<pc, kind, rid, call, got, result, pending, subscriptions, dead, calls, missed, next_request_id>>
  BY DEF caller, shared
<1>2. Sent' \subseteq Sent
  <2>1. \A m \in Told' : ~IsPush(m) => m.call \in Sent
    BY DEF Sent
  <2>2. \A q \in Asked' : q.request_id \in Sent
    BY DEF Sent
  <2> QED
    BY <2>1, <2>2 DEF Sent
<1>3. Shape'
  BY <1>1 DEF Shape
<1>4. IdsOwned'
  BY <1>1 DEF IdsOwned
<1>5. FlightTracked'
  <2>1. \A m \in Told' : IF IsPush(m) THEN m.sub \in served' ELSE m.frame.request_id \in {0, m.call}
    BY DEF FlightTracked
  <2> QED
    BY <1>1, <1>2, <2>1 DEF FlightTracked
<1>6. Subscribed' /\ NoRecordMissed' /\ DeadStrandsNoOne'
  BY <1>1 DEF Subscribed, NoRecordMissed, DeadStrandsNoOne
<1> QED
  BY <1>3, <1>4, <1>5, <1>6

(* What Serve puts on the stream. *)
Answers(t, n, outcome) ==
    IF t = "Subscribe" THEN <<ResultFrame(t, n)>> ELSE handle_frame(ClientFrame(t, "ok", ""), n, outcome)

IsAnswer(f, n) == f \in Frame /\ f.tag # "ChangeRecord" /\ f.request_id \in {0, n}

LEMMA AnswerKinds ==
    ASSUME NEW n \in Nat
    PROVE  /\ IsAnswer(ServerFrame("Pong", 0), n) /\ IsAnswer(make_error_frame, n)
           /\ \A t \in ClientTags : IsAnswer(ResultFrame(t, n), n)
           /\ \A outcome \in Outcomes : IsAnswer(make_rejection_frame(n, outcome), n)
<1>1. 0 \in Nat
  BY SMTT(30)
<1>2. ServerFrame("Pong", 0) \in Frame /\ make_error_frame \in Frame
  BY <1>1, SMTT(30) DEF Frame, make_error_frame, ServerTags
<1>3. \A t \in ClientTags : ResultFrame(t, n) \in Frame
  BY SMTT(30) DEF Frame
<1>4. \A outcome \in Outcomes : make_rejection_frame(n, outcome) \in Frame
  BY SMTT(30) DEF Frame
<1>5. /\ ServerFrame("Pong", 0).tag = "Pong" /\ ServerFrame("Pong", 0).request_id = 0
      /\ make_error_frame.tag = "Error" /\ make_error_frame.request_id = 0
  BY DEF make_error_frame, ServerFrame
<1>6. \A t : ResultFrame(t, n).tag = "Result" /\ ResultFrame(t, n).request_id = n
  BY DEF ResultFrame, ServerFrame
<1>7. \A outcome : /\ make_rejection_frame(n, outcome).tag = "Rejection"
                   /\ make_rejection_frame(n, outcome).request_id = n
  BY DEF make_rejection_frame, ServerFrame
<1> QED
  BY <1>2, <1>3, <1>4, <1>5, <1>6, <1>7 DEF IsAnswer

LEMMA OneOrNone ==
    ASSUME NEW S, NEW f \in S
    PROVE  /\ <<>> \in Seq(S) /\ DOMAIN <<>> = {}
           /\ <<f>> \in Seq(S) /\ \A i \in DOMAIN <<f>> : <<f>>[i] = f
BY SMTT(30)

(* handle_frame answers with no record, and names the request or none. *)
LEMMA AnswersName ==
    ASSUME NEW t \in Kinds \cup {None}, NEW n \in Nat, NEW outcome \in Outcomes
    PROVE  /\ Answers(t, n, outcome) \in Seq(Frame)
           /\ \A i \in DOMAIN Answers(t, n, outcome) : IsAnswer(Answers(t, n, outcome)[i], n)
<1>1. Answers(t, n, outcome) = <<>> \/ \E f : Answers(t, n, outcome) = <<f>> /\ IsAnswer(f, n)
  <2>1. CASE t = "Subscribe"
    BY <2>1, AnswerKinds DEF Answers, ClientTags
  <2>2. CASE t = "Ping"
    BY <2>2, AnswerKinds DEF Answers, handle_frame, ClientFrame
  <2>3. CASE t = "Ack"
    BY <2>3 DEF Answers, handle_frame, ClientFrame
  <2>4. CASE t \in {"DefineMachine", "Transition", "Current", "History"}
    BY <2>4, AnswerKinds DEF Answers, handle_frame, ClientFrame, ClientTags
  <2>5. CASE t \notin {"Subscribe", "Ping", "Ack", "DefineMachine", "Transition", "Current", "History"}
    BY <2>5, AnswerKinds DEF Answers, handle_frame, ClientFrame
  <2> QED
    BY <2>1, <2>2, <2>3, <2>4, <2>5
<1>2. \A f : IsAnswer(f, n) => f \in Frame
  BY DEF IsAnswer
<1>3. make_error_frame \in Frame
  BY <1>2, AnswerKinds
<1> QED
  BY <1>1, <1>2, <1>3, OneOrNone

LEMMA ConcatWithin ==
    ASSUME NEW S, NEW s \in Seq(S), NEW t \in Seq(S)
    PROVE  /\ s \o t \in Seq(S)
           /\ \A i \in DOMAIN (s \o t) : \/ i \in DOMAIN s /\ (s \o t)[i] = s[i]
                                        \/ \E j \in DOMAIN t : (s \o t)[i] = t[j]
BY SMTT(30)

LEMMA ServerKeeps ==
    ASSUME IInv, ServeSubscribe \/ Serve \/ Break \/ \E s \in served : Push(s)
    PROVE  IInv'
<1> USE DEF IInv
<1>1. requests \in Seq(Request) /\ responses \in Seq(Message)
  BY DEF Shape
<1>2. Sent \subseteq Nat /\ served \subseteq Sent
  BY SMTT(30) DEF FlightTracked, Sent
<1>3. CASE ServeSubscribe
  <2>1. Head(requests) \in Asked
    BY <1>1, <1>3, TailWithin DEF ServeSubscribe, Asked
  <2>2. /\ served' = served \cup {Head(requests).request_id}
        /\ UNCHANGED <<caller, next_request_id, shared, requests, responses, calls, missed>>
    BY <1>3 DEF ServeSubscribe, counters
  <2>3. Asked' = Asked /\ Told' = Told
    BY <2>2 DEF Asked, Told
  <2>4. served' \subseteq Sent
    BY <1>2, <2>1, <2>2 DEF Sent
  <2> QED
    BY <1>1, <2>2, <2>3, <2>4, ServerMoves
<1>4. CASE Serve
  <2> DEFINE q == Head(requests)
  <2>1. PICK outcome \in Outcomes :
            LET frames == Answers(q.tag, q.request_id, outcome)
            IN  responses' = responses \o [i \in DOMAIN frames |->
                                              [frame |-> frames[i], call |-> q.call, sub |-> 0]]
    BY <1>4 DEF Serve, Answers
  <2> DEFINE frames == Answers(q.tag, q.request_id, outcome)
             answers == [i \in DOMAIN frames |-> [frame |-> frames[i], call |-> q.call, sub |-> 0]]
  <2>2. /\ requests # <<>> /\ requests' = Tail(requests)
        /\ UNCHANGED <<caller, next_request_id, shared, served, calls, missed>>
    BY <1>4 DEF Serve, counters
  <2>3. /\ q \in Request /\ q \in Asked /\ requests' \in Seq(Request) /\ Asked' \subseteq Asked
    BY <1>1, <2>2, TailWithin, SMTT(30) DEF Asked
  <2>4. q.call = q.request_id /\ q.call \in Sent /\ q.call \in Nat /\ q.tag \in Kinds \cup {None}
    BY <1>2, <2>3, SMTT(30) DEF FlightTracked, Sent, Request
  <2>5. responses' = responses \o answers
    BY <2>1
  <2>6. /\ frames \in Seq(Frame)
        /\ \A i \in DOMAIN frames : frames[i].tag # "ChangeRecord" /\ frames[i].request_id \in {0, q.call}
    <3> HIDE DEF q
    <3> QED
      BY <2>4, AnswersName DEF IsAnswer
  <2> HIDE DEF q, frames
  <2>7. answers \in Seq(Message)
    <3>1. 0 \in Nat /\ \A i \in DOMAIN frames : frames[i] \in Frame
      BY <2>6, SMTT(30)
    <3>2. \A i \in DOMAIN frames : answers[i] \in Message
      BY <2>4, <3>1 DEF Message
    <3>3. Len(frames) \in Nat /\ DOMAIN frames = 1..Len(frames)
      BY <2>6, SMTT(30)
    <3> HIDE DEF Message
    <3> QED
      BY <3>2, <3>3, SMTT(30)
  <2>8. \A i \in DOMAIN answers : /\ ~IsPush(answers[i]) /\ answers[i].call \in Sent
                                  /\ answers[i].frame.request_id \in {0, answers[i].call}
    BY <2>4, <2>6 DEF IsPush
  <2> HIDE DEF answers
  <2>9. /\ responses' \in Seq(Message)
        /\ \A m \in Told' : m \in Told \/ \E j \in DOMAIN answers : m = answers[j]
    BY <1>1, <2>5, <2>7, ConcatWithin, SMTT(30) DEF Told
  <2> QED
    BY <1>2, <2>2, <2>3, <2>8, <2>9, ServerMoves
<1>5. CASE Break
  <2>1. PICK n \in 0..Len(responses) : responses' = SubSeq(responses, 1, n)
    BY <1>5 DEF Break
  <2>2. UNCHANGED <<caller, next_request_id, shared, requests, served, calls, missed>>
    BY <1>5 DEF Break, counters
  <2>3. responses' \in Seq(Message) /\ Told' \subseteq Told
    BY <1>1, <2>1, PrefixWithin DEF Told
  <2>4. Asked' = Asked
    BY <2>2 DEF Asked
  <2> QED
    BY <1>1, <1>2, <2>2, <2>3, <2>4, ServerMoves
<1>6. ASSUME NEW s \in served, Push(s) PROVE IInv'
  <2> DEFINE record == [frame |-> ServerFrame("ChangeRecord", 0), call |-> 0, sub |-> s]
  <2>1. /\ responses' = Append(responses, record)
        /\ UNCHANGED <<caller, next_request_id, shared, requests, served, calls, missed>>
    BY <1>6 DEF Push
  <2>2. record \in Message /\ IsPush(record) /\ record.sub = s
    <3>1. s \in Nat /\ 0 \in Nat /\ "ChangeRecord" \in ServerTags
      BY <1>2, SMTT(30) DEF ServerTags
    <3>2. ServerFrame("ChangeRecord", 0) \in Frame
      BY <3>1, SMTT(30) DEF Frame
    <3> QED
      BY <3>1, <3>2 DEF Message, IsPush, ServerFrame
  <2> HIDE DEF record
  <2>3. responses' \in Seq(Message) /\ Told' \subseteq Told \cup {record}
    BY <1>1, <2>1, <2>2, AppendWithin, SMTT(30) DEF Told
  <2>4. Asked' = Asked
    BY <2>1 DEF Asked
  <2> QED
    BY <1>1, <1>2, <2>1, <2>2, <2>3, <2>4, ServerMoves
<1> QED
  BY <1>3, <1>4, <1>5, <1>6

-----------------------------------------------------------------------------
(* The reader takes a frame.  An answer that finds a sender finds the one  *)
(* of its own call; a record that finds no subscription is of a call that  *)
(* has failed.                                                             *)
LEMMA ReaderMoves ==
    ASSUME IInv, ReadFrame
    PROVE  IInv'
<1> USE DEF IInv
<1> DEFINE m == Head(responses)
<1>1. /\ responses # <<>> /\ ~dead /\ responses' = Tail(responses)
      /\ UNCHANGED <<pc, kind, rid, call, result, next_request_id, dead, requests, served, calls>>
  BY DEF ReadFrame
<1>2. responses \in Seq(Message) /\ got \in [Callers -> Message \cup {None}] /\ pending \in [DOMAIN pending -> Callers]
  BY DEF Shape
<1>3. m \in Told /\ m \in Message /\ responses' \in Seq(Message) /\ Told' \subseteq Told
  BY <1>1, <1>2, TailWithin, SMTT(30) DEF Told
<1>4. Asked' = Asked
  BY <1>1 DEF Asked
<1>5. Sent' \subseteq Sent
  BY <1>1, <1>3, <1>4 DEF Sent
<1>6. CASE IsPush(m)
  <2>1. /\ missed' = IF m.sub \in subscriptions THEN missed ELSE missed \cup {m.sub}
        /\ UNCHANGED <<got, pending, subscriptions>>
    BY <1>6 DEF ReadFrame, RouteRecord, IsPush
  <2>2. m.sub \in served /\ m.sub \in Sent
    BY <1>3, <1>6 DEF FlightTracked, Sent
  <2> HIDE DEF m
  <2>3. Shape'
    BY <1>1, <1>3, <2>1 DEF Shape
  <2>4. IdsOwned'
    BY <1>1, <2>1 DEF IdsOwned
  <2>5. FlightTracked'
    BY <1>1, <1>3, <1>4, <1>5, <2>1 DEF FlightTracked
  <2>6. Subscribed'
    BY <1>1, <2>1, <2>2 DEF Subscribed
  <2>7. NoRecordMissed'
    <3>1. \A c \in Callers : m.sub = rid[c] => pc[c] # "register"
      BY <2>2 DEF FlightTracked, Unsent
    <3>2. \A c \in Callers : kind[c] = "Subscribe" /\ result[c] \in {None, "Ok"} /\ m.sub = rid[c] =>
              m.sub \in subscriptions
      BY <3>1 DEF Subscribed
    <3> QED
      BY <1>1, <2>1, <3>2 DEF NoRecordMissed
  <2>8. DeadStrandsNoOne'
    BY <1>1, <2>1 DEF DeadStrandsNoOne
  <2> QED
    BY <2>3, <2>4, <2>5, <2>6, <2>7, <2>8
<1>7. CASE ~IsPush(m)
  <2> DEFINE r == extract_request_id(m.frame)
  <2>1. /\ UNCHANGED <<subscriptions, missed>>
        /\ IF r \in DOMAIN pending
           THEN got' = [got EXCEPT ![pending[r]] = m] /\ pending' = Without(pending, r)
           ELSE UNCHANGED <<got, pending>>
    BY <1>7 DEF ReadFrame, RouteAnswer, IsPush
  <2>2. m.call \in Sent /\ m.frame.request_id \in {0, m.call}
    BY <1>3, <1>7 DEF FlightTracked, Sent
  <2>3. r \in DOMAIN pending => r = m.call
    <3>1. None \notin DOMAIN pending
      <4>1. 1..calls \subseteq Nat
        BY SMTT(30) DEF Shape
      <4> QED
        BY <4>1, ConnectionAssumption DEF IdsOwned
    <3> QED
      BY <2>2, <3>1 DEF extract_request_id
  <2> HIDE DEF m, r
  <2>4. /\ pending' \in [DOMAIN pending' -> Callers] /\ DOMAIN pending' \subseteq DOMAIN pending
        /\ \A k \in DOMAIN pending' : pending'[k] = pending[k]
        /\ r \notin DOMAIN pending'
    BY <1>2, <2>1 DEF Without
  <2>5. \A c \in Callers : got'[c] = got[c] \/
            (/\ got'[c] = m /\ rid[c] = r /\ r = m.call /\ pc[c] \in {"wait", "expired"})
    <3>1. CASE r \in DOMAIN pending
      <4>1. rid[pending[r]] = r /\ pc[pending[r]] \in {"wait", "expired"} /\ r = m.call
        BY <2>2, <2>3, <3>1 DEF FlightTracked
      <4> QED
        BY <1>2, <2>1, <3>1, <4>1
    <3>2. CASE r \notin DOMAIN pending
      BY <2>1, <3>2
    <3> QED
      BY <3>1, <3>2
  <2>6. got' \in [Callers -> Message \cup {None}]
    BY <1>2, <1>3, <2>1
  <2>7. Shape'
    BY <1>1, <1>3, <2>4, <2>6 DEF Shape
  <2>8. IdsOwned'
    <3>1. \A c \in Callers : got'[c] # None =>
              rid[c] \notin DOMAIN pending' /\ pc[c] \notin Unsent /\ got'[c].call = rid[c]
      BY <2>4, <2>5 DEF IdsOwned, Unsent
    <3> QED
      BY <1>1, <2>4, <3>1 DEF IdsOwned
  <2>9. FlightTracked'
    BY <1>1, <1>3, <1>4, <1>5, <2>4 DEF FlightTracked
  <2>10. Subscribed' /\ NoRecordMissed' /\ DeadStrandsNoOne'
    BY <1>1, <2>1 DEF Subscribed, NoRecordMissed, DeadStrandsNoOne
  <2> QED
    BY <2>7, <2>8, <2>9, <2>10
<1> QED
  BY <1>6, <1>7

LEMMA ReaderLeaves ==
    ASSUME IInv, ReaderExits
    PROVE  IInv'
<1> USE DEF IInv
<1>1. /\ DOMAIN pending' = {} /\ pending' \in [DOMAIN pending' -> Callers]
      /\ UNCHANGED <<caller, next_request_id, subscriptions, stream, counters>>
  BY DEF ReaderExits
<1>2. /\ Asked' = Asked /\ Told' = Told /\ Sent' = Sent
      /\ UNCHANGED <<pc, kind, rid, call, got, result, requests, responses, served, calls, missed>>
  BY <1>1 DEF Asked, Told, Sent, stream, caller, counters
<1>3. Shape'
  BY <1>1, <1>2 DEF Shape
<1>4. IdsOwned'
  BY <1>1, <1>2 DEF IdsOwned
<1>5. FlightTracked'
  BY <1>1, <1>2 DEF FlightTracked
<1>6. Subscribed' /\ NoRecordMissed' /\ DeadStrandsNoOne'
  BY <1>1, <1>2 DEF Subscribed, NoRecordMissed, DeadStrandsNoOne
<1> QED
  BY <1>3, <1>4, <1>5, <1>6

LEMMA NextKeeps == IInv /\ [Next]_vars => IInv'
<1> SUFFICES ASSUME IInv, [Next]_vars PROVE IInv'
  OBVIOUS
<1>1. CASE connect
  <2>1. UNCHANGED <<caller, next_request_id, shared, stream, counters>>
    BY <1>1 DEF connect, Dial, HandshakeFrame, Deadline, GiveUp
  <2> QED
    BY <2>1, Unmoved
<1>2. CASE ReadFrame \/ ReaderExits
  BY <1>2, ReaderMoves, ReaderLeaves
<1>3. CASE ServeSubscribe \/ Serve \/ Break \/ \E s \in served : Push(s)
  BY <1>3, ServerKeeps
<1>4. ASSUME NEW c \in Callers, CallerStep(c) \/ Elapse(c) PROVE IInv'
  BY <1>4, CallerKeeps, InsertKeeps, WriteKeeps DEF CallerStep
<1>5. ASSUME NEW c \in Callers, NEW k \in Kinds, Start(c, k) PROVE IInv'
  BY <1>5, StartKeeps
<1>6. CASE UNCHANGED vars
  <2>1. UNCHANGED <<caller, next_request_id, shared, stream, counters>>
    BY <1>6 DEF vars
  <2> QED
    BY <2>1, Unmoved
<1> QED
  BY <1>1, <1>2, <1>3, <1>4, <1>5, <1>6 DEF Next

LEMMA Invariance == Spec => []IInv
BY InitHolds, NextKeeps, PTL DEF Spec

(* send_request and spawn_reader: an answer is handed to the call it       *)
(* answers, however many tasks share the connection, and whatever has      *)
(* timed out, failed to be written or is answered late.                    *)
THEOREM AnswersMatchHolds == Spec => []AnswersMatch
<1>1. IInv => AnswersMatch
  BY DEF IInv, Shape, IdsOwned, AnswersMatch
<1> QED
  BY <1>1, Invariance, PTL

(* spawn_reader and send_request: no sender is left in the table, and none *)
(* is put there, once the reader has exited.                               *)
THEOREM DeadStrandsNoOneHolds == Spec => []DeadStrandsNoOne
<1>1. IInv => DeadStrandsNoOne
  BY DEF IInv
<1> QED
  BY <1>1, Invariance, PTL

(* subscribe: the reader drops no record of a subscription whose call is   *)
(* under way or has succeeded, also when records overtake the answer.      *)
THEOREM NoRecordMissedHolds == Spec => []NoRecordMissed
<1>1. IInv => NoRecordMissed
  BY DEF IInv
<1> QED
  BY <1>1, Invariance, PTL
=============================================================================
