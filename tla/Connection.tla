----------------------------- MODULE Connection -----------------------------
(***************************************************************************)
(* smdb-sdk: Client over one Connection.  Tasks call the client at the     *)
(* same time; each inserts a oneshot sender under its request id, writes   *)
(* its frame and waits with a timeout, while the reader task routes what   *)
(* the server sends to the senders and the subscription channels.  Both    *)
(* share SharedState under a mutex.  The server answers in order, with     *)
(* what handle_frame of smdb-wire answers.  Frames carry the number of the *)
(* call they belong to as history.                                         *)
(***************************************************************************)
EXTENDS Protocol, FiniteSets

CONSTANTS Callers,     \* tasks that share the client
          Kinds,       \* the requests they make, by tag
          None,        \* an Option that is not set
          MaxRetries,  \* config.max_retries
          MaxCalls,    \* bound: calls made
          MaxPushes    \* bound: change records pushed

Results == {"Ok", "Rejected", "Internal", "Timeout", "Disconnected"}

ASSUME ConnectionAssumption ==
    /\ Kinds \subseteq ClientTags
    /\ None \notin Nat \cup ClientTags \cup Results
    /\ MaxRetries \in Nat /\ MaxCalls \in Nat /\ MaxPushes \in Nat

VARIABLES
    link, attempt, last_err,     \* connect_with_retry
    tls,                         \* config.tls
    greeting, admitted,          \* connect: tags the server sends, tags received
    pc, kind, rid, call,         \* per caller: step, request, its id and number
    got, result,                 \* per caller: frame in the oneshot, what was returned
    next_request_id,             \* the counter of the connection
    pending, subscriptions,      \* SharedState: request id -> caller, subscription ids
    dead,                        \* SharedState: the reader task has exited
    requests, responses,         \* the two directions of the stream
    served,                      \* subscriptions the server has registered
    broken,                      \* the stream is closed or failing
    calls, pushes, read, missed  \* counters; answers read and records dropped

caller == <<pc, kind, rid, call, got, result>>
shared == <<pending, subscriptions, dead>>
stream == <<requests, responses, served, broken>>
connecting == <<link, attempt, last_err, tls, greeting, admitted>>
counters == <<calls, pushes, read, missed>>
vars == <<connecting, caller, next_request_id, shared, stream, counters>>

-----------------------------------------------------------------------------
(* What a client that greets the server reads: the two frames of the       *)
(* admission, one that refuses, or the end of the stream at any point; or  *)
(* nothing more comes.                                                     *)
Admission == {"AuthOk", "Ready"}
Greetings == {<<"AuthOk", "Ready">>, <<"AuthError">>, <<"Error">>, <<"AuthOk", "closed">>,
              <<"closed">>, <<"AuthOk">>, <<>>}

Busy == {"register", "insert", "write", "wait", "expired"}
ConnectErrors == {"ConnectionFailed", "AuthFailed", "Internal"}

(* The shape of the state; a sender is used at most once, so a call that   *)
(* has its answer is no longer pending.                                    *)
TypeOK ==
    /\ link \in {"connecting", "greeting", "up", "failed"} /\ attempt \in 0..MaxRetries + 1
    /\ last_err \in ConnectErrors \cup {None} /\ tls \in BOOLEAN
    /\ greeting \in Greetings \cup {Tail(g) : g \in Greetings \ {<<>>}} /\ admitted \subseteq Admission
    /\ pc \in [Callers -> Busy \cup {"idle"}]
    /\ \A c \in Callers : pc[c] = "idle" <=> (call[c] = 0 \/ result[c] \in Results)
    /\ DOMAIN pending \subseteq 1..next_request_id /\ \A r \in DOMAIN pending : pending[r] \in Callers
    /\ subscriptions \subseteq 1..next_request_id
    /\ \A c \in Callers : got[c] # None => rid[c] \notin DOMAIN pending
    /\ dead \in BOOLEAN /\ broken \in BOOLEAN /\ (dead => broken)

Init ==
    /\ link = "connecting" /\ attempt = 0 /\ last_err = None
    /\ tls \in BOOLEAN /\ greeting = <<>> /\ admitted = {}
    /\ pc = [c \in Callers |-> "idle"] /\ kind = [c \in Callers |-> None]
    /\ rid = [c \in Callers |-> 0] /\ call = [c \in Callers |-> 0]
    /\ got = [c \in Callers |-> None] /\ result = [c \in Callers |-> None]
    /\ next_request_id = 1
    /\ pending = [r \in {} |-> None] /\ subscriptions = {} /\ dead = FALSE
    /\ requests = <<>> /\ responses = <<>> /\ served = {} /\ broken = FALSE
    /\ calls = 0 /\ pushes = 0 /\ read = {} /\ missed = {}

-----------------------------------------------------------------------------
(* connect_with_retry.  Its locals are gone when it returns a connection;  *)
(* the sleep between two attempts is not modelled.                         *)
MayTry(n) == n <= MaxRetries

Failed(e) ==
    /\ link' = "connecting" /\ attempt' = attempt + 1 /\ last_err' = e
    /\ greeting' = <<>> /\ admitted' = {}

(* Connection::connect: dial within connect_timeout, write Startup and     *)
(* Auth with no timeout, then read until AuthOk and Ready are there, with  *)
(* one deadline for all of the reading.                                    *)
Dial ==
    /\ link = "connecting" /\ MayTry(attempt)
    /\ \/ Failed("ConnectionFailed")
       \/ tls /\ Failed("Internal")
       \/ /\ ~tls /\ link' = "greeting" /\ greeting' \in Greetings
          /\ UNCHANGED <<attempt, last_err, admitted>>
    /\ UNCHANGED <<tls, caller, next_request_id, shared, stream, counters>>

HandshakeFrame ==
    /\ link = "greeting" /\ greeting # <<>>
    /\ \/ Head(greeting) = "AuthError" /\ Failed("AuthFailed")
       \/ Head(greeting) \in {"Error", "closed"} /\ Failed("ConnectionFailed")
       \/ /\ Head(greeting) \notin {"AuthError", "Error", "closed"}
          /\ admitted' = admitted \cup ({Head(greeting)} \cap Admission)
          /\ greeting' = Tail(greeting)
          /\ IF admitted' = Admission
             THEN link' = "up" /\ attempt' = 0 /\ last_err' = None
             ELSE UNCHANGED <<link, attempt, last_err>>
    /\ UNCHANGED <<tls, caller, next_request_id, shared, stream, counters>>

(* The deadline passes, whatever has been read. *)
OnlyForTheFirst ==
    /\ link = "greeting" /\ admitted = {}
    /\ Failed("ConnectionFailed")
    /\ UNCHANGED <<tls, caller, next_request_id, shared, stream, counters>>

Deadline ==
    /\ link = "greeting"
    /\ Failed("ConnectionFailed")
    /\ UNCHANGED <<tls, caller, next_request_id, shared, stream, counters>>

GiveUp ==
    /\ link = "connecting" /\ ~MayTry(attempt)
    /\ link' = "failed"
    /\ UNCHANGED <<attempt, last_err, tls, greeting, admitted, caller, next_request_id, shared, stream, counters>>

connect == Dial \/ HandshakeFrame \/ Deadline \/ GiveUp

-----------------------------------------------------------------------------
(* A call: conn() hands out the connection, whatever has become of it.     *)
FirstStep(k) == IF k = "Subscribe" THEN "register" ELSE "insert"

SharedRequestId == next_request_id
NextRequestId == next_request_id + 1

Start(c, k) ==
    /\ link = "up" /\ pc[c] = "idle" /\ calls < MaxCalls
    /\ calls' = calls + 1
    /\ next_request_id' = NextRequestId
    /\ rid' = [rid EXCEPT ![c] = next_request_id]
    /\ call' = [call EXCEPT ![c] = calls + 1]
    /\ kind' = [kind EXCEPT ![c] = k]
    /\ got' = [got EXCEPT ![c] = None] /\ result' = [result EXCEPT ![c] = None]
    /\ pc' = [pc EXCEPT ![c] = FirstStep(k)]
    /\ UNCHANGED <<connecting, shared, stream, pushes, read, missed>>

GoTo(c, step) == pc' = [pc EXCEPT ![c] = step] /\ UNCHANGED <<kind, rid, call, got, result>>
Return(c, r) ==
    /\ pc' = [pc EXCEPT ![c] = "idle"] /\ result' = [result EXCEPT ![c] = r]
    /\ UNCHANGED <<kind, rid, call, got>>

(* subscribe: "Register before sending the frame so no records can be missed" *)
RegisterLater(c) ==
    /\ pc[c] = "register" /\ GoTo(c, "insert")
    /\ UNCHANGED <<connecting, next_request_id, shared, stream, counters>>

Register(c) ==
    /\ pc[c] = "register" /\ GoTo(c, "insert")
    /\ subscriptions' = subscriptions \cup {rid[c]}
    /\ UNCHANGED <<connecting, next_request_id, pending, dead, stream, counters>>

(* send_request: the check of dead and the insertion are under one lock. *)
AssumedUsable == TRUE
Usable == ~dead

Insert(c) ==
    /\ pc[c] = "insert"
    /\ IF Usable
       THEN /\ pending' = [r \in DOMAIN pending \cup {rid[c]} |-> IF r = rid[c] THEN c ELSE pending[r]]
            /\ GoTo(c, "write")
       ELSE Return(c, "Disconnected") /\ UNCHANGED pending
    /\ UNCHANGED <<connecting, next_request_id, subscriptions, dead, stream, counters>>

(* A write to a broken stream fails, or is still accepted. *)
Write(c) ==
    /\ pc[c] = "write"
    /\ \/ /\ requests' = Append(requests, [tag |-> kind[c], request_id |-> rid[c], call |-> call[c]])
          /\ GoTo(c, "wait")
       \/ /\ broken /\ Return(c, "Disconnected") /\ UNCHANGED requests
    /\ UNCHANGED <<connecting, next_request_id, shared, responses, served, broken, counters>>

(* What the callers make of a response.  The result of a transition is     *)
(* decoded as a ChangeRecord.                                              *)
ChangeRecordFields == {"sequence", "transition_id", "entity_id", "machine", "from_state",
                       "to_state", "event", "actor", "version", "timestamp", "ctx", "effects"}
EntityStateFields == {"entity_id", "machine", "current_state", "version", "updated_at", "created_at"}

Needed(k) ==
    CASE k = "Transition" -> ChangeRecordFields
      [] k = "Current" -> EntityStateFields
      [] k = "History" -> {"[]"}
      [] OTHER -> {}

Decoded(k, frame) ==
    CASE frame.tag = "Result" -> IF Needed(k) \subseteq frame.fields THEN "Ok" ELSE "Internal"
      [] frame.tag = "Rejection" -> "Rejected"
      [] OTHER -> "Internal"

Receive(c) ==
    /\ pc[c] = "wait" /\ got[c] # None
    /\ Return(c, Decoded(kind[c], got[c].frame))
    /\ subscriptions' = IF kind[c] = "Subscribe" /\ got[c].frame.tag # "Result"
                        THEN subscriptions \ {rid[c]} ELSE subscriptions
    /\ UNCHANGED <<connecting, next_request_id, pending, dead, stream, counters>>

SenderDropped(c) ==
    /\ pc[c] = "wait" /\ got[c] = None /\ rid[c] \notin DOMAIN pending
    /\ Return(c, "Disconnected")
    /\ UNCHANGED <<connecting, next_request_id, shared, stream, counters>>

(* The timeout elapses first; the entry is removed once the lock is taken. *)
Elapse(c) ==
    /\ pc[c] = "wait" /\ got[c] = None
    /\ GoTo(c, "expired")
    /\ UNCHANGED <<connecting, next_request_id, shared, stream, counters>>

Without(table, r) == [k \in DOMAIN table \ {r} |-> table[k]]

RemovePending(c) ==
    /\ pc[c] = "expired"
    /\ pending' = Without(pending, rid[c])
    /\ Return(c, "Timeout")
    /\ UNCHANGED <<connecting, next_request_id, subscriptions, dead, stream, counters>>

-----------------------------------------------------------------------------
(* The reader task.  extract_request_id finds none in an Error frame.      *)
extract_request_id(frame) == IF frame.request_id = 0 THEN None ELSE frame.request_id

RouteAnswer(msg) ==
    LET r == extract_request_id(msg.frame) IN
    /\ read' = read \cup {msg.call}
    /\ IF r \in DOMAIN pending
       THEN /\ got' = [got EXCEPT ![pending[r]] = msg]
            /\ pending' = Without(pending, r)
       ELSE UNCHANGED <<got, pending>>
    /\ UNCHANGED <<subscriptions, missed>>

RouteRecord(msg) ==
    /\ missed' = IF msg.sub \in subscriptions THEN missed ELSE missed \cup {msg.sub}
    /\ UNCHANGED <<got, pending, subscriptions, read>>

ReadFrame ==
    /\ link = "up" /\ ~dead /\ responses # <<>>
    /\ responses' = Tail(responses)
    /\ IF Head(responses).frame.tag = "ChangeRecord"
       THEN RouteRecord(Head(responses)) ELSE RouteAnswer(Head(responses))
    /\ UNCHANGED <<connecting, pc, kind, rid, call, result, next_request_id, dead,
                   requests, served, broken, calls, pushes>>

(* The stream ends or fails: the reader marks the connection dead and      *)
(* drops all senders.                                                      *)
ReaderExitsQuietly ==
    /\ link = "up" /\ ~dead /\ broken
    /\ dead' = TRUE
    /\ UNCHANGED <<connecting, caller, next_request_id, pending, subscriptions, stream, counters>>

ReaderExits ==
    /\ link = "up" /\ ~dead /\ broken
    /\ dead' = TRUE /\ pending' = [r \in {} |-> None]
    /\ UNCHANGED <<connecting, caller, next_request_id, subscriptions, stream, counters>>

-----------------------------------------------------------------------------
(* The server end of the stream: handle_frame, and for a subscription the  *)
(* registration, after which records may be pushed before the answer.      *)
ServeSubscribe ==
    /\ requests # <<>> /\ Head(requests).tag = "Subscribe"
    /\ Head(requests).request_id \notin served
    /\ served' = served \cup {Head(requests).request_id}
    /\ UNCHANGED <<connecting, caller, next_request_id, shared, requests, responses, broken, counters>>

Serve ==
    LET q == Head(requests) IN
    /\ requests # <<>> /\ ~broken
    /\ q.tag = "Subscribe" => q.request_id \in served
    /\ requests' = Tail(requests)
    /\ \E outcome \in Outcomes :
          LET frames == IF q.tag = "Subscribe" THEN <<ResultFrame(q.tag, q.request_id)>>
                        ELSE handle_frame(ClientFrame(q.tag, "ok", ""), q.request_id, outcome)
          IN responses' = responses \o [i \in DOMAIN frames |->
                 [frame |-> frames[i], call |-> q.call, sub |-> 0]]
    /\ UNCHANGED <<connecting, caller, next_request_id, shared, served, broken, counters>>

Push(s) ==
    /\ s \in served /\ ~broken /\ pushes < MaxPushes
    /\ pushes' = pushes + 1
    /\ responses' = Append(responses, [frame |-> ServerFrame("ChangeRecord", 0), call |-> 0, sub |-> s])
    /\ UNCHANGED <<connecting, caller, next_request_id, shared, requests, served, broken, calls, read, missed>>

(* The stream breaks: what was in flight may be lost. *)
Break ==
    /\ link = "up" /\ ~broken /\ broken' = TRUE
    /\ \E n \in 0..Len(responses) : responses' = SubSeq(responses, 1, n)
    /\ UNCHANGED <<connecting, caller, next_request_id, shared, requests, served, counters>>

CallerStep(c) == Register(c) \/ Insert(c) \/ Write(c) \/ Receive(c) \/ SenderDropped(c) \/ RemovePending(c)

Next ==
    \/ connect
    \/ ReadFrame \/ ReaderExits \/ Serve \/ ServeSubscribe \/ Break
    \/ \E c \in Callers : CallerStep(c) \/ Elapse(c) \/ \E k \in Kinds : Start(c, k)
    \/ \E s \in served : Push(s)

Spec == Init /\ [][Next]_vars

(* The tasks keep running, the timeout of the dial and the deadline of the *)
(* handshake pass, and the two writes of connect, which have no timeout,   *)
(* return.  Nothing is assumed of the timeout of a request.                *)
FairSpec ==
    Spec /\ WF_vars(connect) /\ WF_vars(ReadFrame \/ ReaderExits) /\ \A c \in Callers : WF_vars(CallerStep(c))

-----------------------------------------------------------------------------
(* An answer reaches the call it answers and no other, although calls      *)
(* overlap, time out and are answered late.                                *)
AnswersMatch == \A c \in Callers : got[c] # None => got[c].call = call[c]

(* "wake all pending waiters" (spawn_reader): once the reader is gone no   *)
(* call is left waiting on a sender that nobody will use.                  *)
DeadStrandsNoOne == dead => DOMAIN pending = {}

(* "so no records can be missed" (subscribe): the reader drops no record   *)
(* of a subscription whose call is under way or has succeeded.             *)
NoRecordMissed ==
    \A c \in Callers : (kind[c] = "Subscribe" /\ result[c] \in {None, "Ok"}) => rid[c] \notin missed

(* When the stream breaks every waiting call returns, timeout or not.      *)
BrokenReturns == \A c \in Callers : (broken /\ pc[c] = "wait") ~> pc[c] # "wait"

(* Client::connect returns, with a connection or with an error, although   *)
(* every attempt may meet a server that accepts and says nothing: the      *)
(* deadline set after the two writes ends every wait for a frame.          *)
ConnectReturns == <>(link \in {"up", "failed"})

(* "Maximum number of retries on transient failures" (ClientConfig): what  *)
(* is tried again did not fail for good.                                   *)
OnlyTransientRetried ==
    link = "connecting" /\ MayTry(attempt) => last_err \notin {"AuthFailed", "Internal"}

(* "All three message types serialize request_id as the first named field" *)
(* (extract_request_id): an answer that was read has reached its call.     *)
ReadAnswersArrive == \A c \in Callers : (pc[c] = "wait" /\ call[c] \in read) => got[c] # None

(* "We deserialise via the ChangeRecord type which has the fields we need" *)
(* (TransitionBuilder::send): a Result is returned as Ok.                  *)
ResultsDecode ==
    \A c \in Callers : (got[c] # None /\ pc[c] = "wait" /\ got[c].frame.tag = "Result") =>
        Decoded(kind[c], got[c].frame) = "Ok"

(* "Returns None when the subscription channel is closed (e.g. after a     *)
(* disconnect)" (Subscription::next): the sender of a subscription that    *)
(* was handed out goes with the connection.                                *)
DisconnectClosesChannels ==
    dead => \A c \in Callers :
        (kind[c] = "Subscribe" /\ result[c] = "Ok") => rid[c] \notin subscriptions
=============================================================================
