------------------------------ MODULE Session -------------------------------
(***************************************************************************)
(* smdb-wire: Server::serve_with_shutdown, one serve_framed per            *)
(* connection, and one forward_subscription task per Subscribe frame.      *)
(* They share the write half of the connection (sink), the semaphore and   *)
(* the subscribers of the engine.  The dispatcher is reduced to what a     *)
(* forwarder sees of it: the next record arrives in its channel, or its    *)
(* subscriber is pruned because the channel is closed.                     *)
(***************************************************************************)
EXTENDS Protocol, FiniteSets

CONSTANTS Conns,           \* connections
          Scripts,         \* what the clients send: a sequence of frames for each of Conns
          MaxConnections,  \* config.max_connections
          MaxRecords       \* bound: records committed

SentFrame == [tag: ClientTags \cup {"Malformed"}, body: {"ok", "garbled", "refused"}, id: STRING]

ASSUME SessionAssumption ==
    /\ IsFiniteSet(Conns) /\ Scripts \subseteq [Conns -> Seq(SentFrame)]
    /\ MaxConnections \in Nat /\ MaxRecords \in Nat

VARIABLES
    script, sent,   \* per connection: what its client sends, and how much it has sent
    open,           \* per connection: the client has not closed it
    phase,          \* per connection: where serve_framed is
    consumed,       \* per connection: frames taken off the stream
    answer,         \* per connection: response_frames still to be written
    subscriptions,  \* per connection: the keys of session.subscriptions
    wire,           \* per connection: history of the frames written
    channel,        \* subscriptions, keyed by connection and Subscribe frame
    permits,        \* the semaphore
    active,         \* metrics.connections_active
    shutdown,       \* the shutdown watch
    committed       \* length of the transition log

client == <<script, sent, open>>
server == <<permits, active, shutdown>>
vars == <<client, phase, consumed, answer, subscriptions, wire, channel, server, committed>>

-----------------------------------------------------------------------------
Live == {c \in Conns : phase[c] \notin {"free", "closed"}}

(* What is written: a frame, with the position of the client frame it      *)
(* answers, or the subscription and the record it carries.                 *)
Reply(frame, re) == [frame |-> frame, re |-> re, sub |-> 0, record |-> 0]
Pushed(k, n) == [frame |-> ServerFrame("ChangeRecord", 0), re |-> 0, sub |-> k, record |-> n]

Channel == [id: STRING, registered: BOOLEAN, forwarding: BOOLEAN, queue: Seq(Nat), through: Nat]

(* The shape of the state; serve_framed takes no frame that was not sent,  *)
(* and holds answers only while it writes them.                            *)
TypeOK ==
    /\ script \in Scripts
    /\ \A c \in Conns : consumed[c] <= sent[c] /\ sent[c] <= Len(script[c])
    /\ open \in [Conns -> BOOLEAN]
    /\ phase \in [Conns -> {"free", "startup", "auth", "ready", "loop", "work", "reply", "closed"}]
    /\ \A c \in Conns : answer[c] # <<>> => phase[c] = "reply"
    /\ DOMAIN channel \subseteq Conns \X Nat
    /\ \A h \in DOMAIN channel : channel[h] \in Channel
    /\ permits \in 0..MaxConnections /\ active \in Nat
    /\ shutdown \in BOOLEAN /\ committed \in 0..MaxRecords

Init ==
    /\ script \in Scripts
    /\ sent = [c \in Conns |-> 0] /\ open = [c \in Conns |-> TRUE]
    /\ phase = [c \in Conns |-> "free"] /\ consumed = [c \in Conns |-> 0]
    /\ answer = [c \in Conns |-> <<>>] /\ subscriptions = [c \in Conns |-> {}]
    /\ wire = [c \in Conns |-> <<>>]
    /\ channel = [h \in {} |-> 0]
    /\ permits = MaxConnections /\ active = 0 /\ shutdown = FALSE
    /\ committed = 0

-----------------------------------------------------------------------------
(* The client and the rest of the daemon. *)
ClientSend(c) ==
    /\ open[c] /\ phase[c] # "free" /\ sent[c] < Len(script[c])
    /\ sent' = [sent EXCEPT ![c] = @ + 1]
    /\ UNCHANGED <<script, open, phase, consumed, answer, subscriptions, wire, channel, server, committed>>

ClientClose(c) ==
    /\ open[c]
    /\ open' = [open EXCEPT ![c] = FALSE]
    /\ UNCHANGED <<script, sent, phase, consumed, answer, subscriptions, wire, channel, server, committed>>

Shutdown ==
    /\ ~shutdown /\ shutdown' = TRUE
    /\ UNCHANGED <<client, phase, consumed, answer, subscriptions, wire, channel, permits, active, committed>>

Commit ==
    /\ committed < MaxRecords /\ committed' = committed + 1
    /\ UNCHANGED <<client, phase, consumed, answer, subscriptions, wire, channel, server>>

(* Engine::unsubscribe and the pruning of dispatch_pass remove by id. *)
Unregistered(ids) ==
    [h \in DOMAIN channel |->
        IF channel[h].id \in ids THEN [channel[h] EXCEPT !.registered = FALSE] ELSE channel[h]]

Deliver(h) ==
    /\ channel[h].registered /\ channel[h].through < committed
    /\ channel' = IF channel[h].forwarding
                  THEN [channel EXCEPT ![h].queue = Append(@, channel[h].through + 1),
                                       ![h].through = @ + 1]
                  ELSE Unregistered({channel[h].id})
    /\ UNCHANGED <<client, phase, consumed, answer, subscriptions, wire, server, committed>>

-----------------------------------------------------------------------------
(* serve_with_shutdown: accept, or drop the stream when no permit is left. *)
TakePermit(c) ==
    /\ permits > 0
    /\ permits' = permits - 1
    /\ active' = active + 1
    /\ phase' = [phase EXCEPT ![c] = "startup"]

Refuse(c) ==
    /\ permits = 0
    /\ phase' = [phase EXCEPT ![c] = "closed"]
    /\ UNCHANGED <<permits, active>>

Accept(c) ==
    /\ phase[c] = "free" /\ ~shutdown
    /\ TakePermit(c) \/ Refuse(c)
    /\ UNCHANGED <<client, consumed, answer, subscriptions, wire, channel, shutdown, committed>>

(* The task of the connection ends: the permit is dropped. *)
EndKeepingThePermit(c) ==
    /\ phase' = [phase EXCEPT ![c] = "closed"]
    /\ answer' = [answer EXCEPT ![c] = <<>>]
    /\ active' = active - 1
    /\ UNCHANGED <<permits, shutdown>>

End(c) ==
    /\ phase' = [phase EXCEPT ![c] = "closed"]
    /\ answer' = [answer EXCEPT ![c] = <<>>]
    /\ permits' = permits + 1
    /\ active' = active - 1
    /\ UNCHANGED shutdown

HasFrame(c) == consumed[c] < sent[c]
NextFrame(c) == script[c][consumed[c] + 1]
Position(c) == consumed[c] + 1
Take(c) == consumed' = [consumed EXCEPT ![c] = @ + 1]
Written(c, entries) == wire' = [wire EXCEPT ![c] = @ \o entries]

(* A write succeeds while the client is there; once it has closed, the     *)
(* write may still be accepted by the kernel, or fail.                     *)
MayFail(c) == ~open[c]
BestEffort(c, entries) == Written(c, entries) \/ (MayFail(c) /\ UNCHANGED wire)

(* What the handshake makes of the next frame: Startup is expected first,  *)
(* then Auth.  A frame or a body that does not decode ends the connection  *)
(* without a word.                                                         *)
AnyFrameOpens(c) == "accept"

Verdict(c) ==
    LET frame == NextFrame(c)
        expected == IF phase[c] = "startup" THEN "Startup" ELSE "Auth"
    IN IF frame.tag = "Malformed" \/ (frame.tag = expected /\ frame.body = "garbled") THEN "drop"
       ELSE IF frame.tag # expected THEN "Error"
       ELSE IF frame.body = "refused"
       THEN IF expected = "Startup" THEN "Error" ELSE "AuthError"
       ELSE "accept"

Handshake(c) ==
    /\ phase[c] \in {"startup", "auth"} /\ HasFrame(c)
    /\ Take(c)
    /\ \/ Verdict(c) = "drop" /\ UNCHANGED wire /\ End(c)
       \/ /\ Verdict(c) \in {"Error", "AuthError"}
          /\ BestEffort(c, <<Reply(ServerFrame(Verdict(c), 0), Position(c))>>)
          /\ End(c)
       \/ /\ Verdict(c) = "accept" /\ phase[c] = "startup"
          /\ phase' = [phase EXCEPT ![c] = "auth"]
          /\ UNCHANGED <<wire, answer, server>>
       \/ /\ Verdict(c) = "accept" /\ phase[c] = "auth"
          /\ Written(c, <<Reply(ServerFrame("AuthOk", 0), Position(c))>>)
          /\ phase' = [phase EXCEPT ![c] = "ready"]
          /\ UNCHANGED <<answer, server>>
       \/ /\ Verdict(c) = "accept" /\ phase[c] = "auth"
          /\ MayFail(c) /\ UNCHANGED wire /\ End(c)
    /\ UNCHANGED <<client, subscriptions, channel, committed>>

(* Ready is a write of its own, which may fail after AuthOk went out. *)
WriteReady(c) ==
    /\ phase[c] = "ready"
    /\ \/ /\ Written(c, <<Reply(ServerFrame("Ready", 0), consumed[c])>>)
          /\ phase' = [phase EXCEPT ![c] = "loop"]
          /\ UNCHANGED <<answer, server>>
       \/ MayFail(c) /\ UNCHANGED wire /\ End(c)
    /\ UNCHANGED <<client, consumed, subscriptions, channel, committed>>

(* handle_subscribe: subscribe at the engine, drop the stale key, spawn    *)
(* the forwarder; the Result frame is written by the caller, later.        *)
handle_subscribe(c, frame) ==
    /\ channel' = [h \in DOMAIN channel \cup {<<c, Position(c)>>} |->
          IF h = <<c, Position(c)>>
          THEN [id |-> frame.id, registered |-> TRUE, forwarding |-> TRUE,
                queue |-> <<>>, through |-> 0]
          ELSE channel[h]]
    /\ subscriptions' = [subscriptions EXCEPT ![c] = @ \ {frame.id}]
    /\ answer' = [answer EXCEPT ![c] =
          <<Reply(ResultFrame("Subscribe", Position(c)), Position(c))>>]
    /\ phase' = [phase EXCEPT ![c] = "reply"]
    /\ UNCHANGED wire

handle_unsubscribe(c, frame) ==
    /\ channel' = Unregistered({frame.id})
    /\ subscriptions' = [subscriptions EXCEPT ![c] = @ \ {frame.id}]
    /\ UNCHANGED <<wire, phase, answer>>

(* Neither of the two decodes: an error frame, best effort. *)
RefuseSubscription(c) ==
    /\ BestEffort(c, <<Reply(make_error_frame, Position(c))>>)
    /\ UNCHANGED <<channel, subscriptions, phase, answer>>

(* One iteration of the request loop takes a frame. *)
WithoutWaiting(c) == phase[c] \in {"loop", "reply"}
AtLoopTop(c) == phase[c] = "loop"

TakeFrame(c) ==
    /\ AtLoopTop(c) /\ HasFrame(c)
    /\ Take(c)
    /\ LET frame == NextFrame(c) IN
       /\ frame.tag \notin {"Terminate", "Malformed"}
       /\ \/ frame.tag = "Subscribe" /\ frame.body = "ok" /\ handle_subscribe(c, frame)
          \/ frame.tag = "Unsubscribe" /\ frame.body = "ok" /\ handle_unsubscribe(c, frame)
          \/ frame.tag \in {"Subscribe", "Unsubscribe"} /\ frame.body = "garbled" /\ RefuseSubscription(c)
          \/ /\ frame.tag \notin {"Subscribe", "Unsubscribe"}
             /\ phase' = [phase EXCEPT ![c] = "work"]
             /\ UNCHANGED <<wire, answer, channel, subscriptions>>
    /\ UNCHANGED <<client, server, committed>>

(* handle_frame on a blocking worker, which may panic. *)
Work(c) ==
    /\ phase[c] = "work"
    /\ \E frames \in {<<make_error_frame>>} \cup
             {handle_frame(script[c][consumed[c]], consumed[c], outcome) : outcome \in Outcomes} :
          answer' = [answer EXCEPT ![c] =
              [i \in DOMAIN frames |-> Reply(frames[i], consumed[c])]]
    /\ phase' = [phase EXCEPT ![c] = "reply"]
    /\ UNCHANGED <<client, consumed, subscriptions, wire, channel, server, committed>>

(* The answers are written under one guard of the sink; a write error      *)
(* returns from serve_framed at once.                                      *)
WriteAnswers(c) ==
    /\ phase[c] = "reply"
    /\ \/ /\ Written(c, answer[c])
          /\ phase' = [phase EXCEPT ![c] = "loop"]
          /\ answer' = [answer EXCEPT ![c] = <<>>]
          /\ UNCHANGED server
       \/ /\ MayFail(c) /\ answer[c] # <<>>
          /\ End(c) /\ UNCHANGED wire
    /\ UNCHANGED <<client, consumed, subscriptions, channel, committed>>

(* The stream ends before the handshake is complete. *)
AbandonStartup(c) ==
    /\ phase[c] = "startup" /\ ~HasFrame(c) /\ ~open[c]
    /\ End(c)
    /\ UNCHANGED <<client, consumed, subscriptions, wire, channel, committed>>

Abandon(c) ==
    /\ phase[c] \in {"startup", "auth"} /\ ~HasFrame(c) /\ ~open[c]
    /\ End(c)
    /\ UNCHANGED <<client, consumed, subscriptions, wire, channel, committed>>

(* Terminate, a framing error or the end of the stream: the subscriptions  *)
(* of the session are removed, as far as session.subscriptions lists them. *)
CleanUp(c) ==
    /\ phase[c] = "loop"
    /\ IF HasFrame(c) THEN NextFrame(c).tag \in {"Terminate", "Malformed"} /\ Take(c)
       ELSE ~open[c] /\ UNCHANGED consumed
    /\ channel' = Unregistered(subscriptions[c])
    /\ End(c)
    /\ UNCHANGED <<client, subscriptions, wire, committed>>

(* forward_subscription: write the next record, or end on a write error or *)
(* when the sender is gone and the channel is empty.                       *)
NewestFirst(queue) == queue[Len(queue)]
NextRecord(queue) == queue[1]

Forward(h) ==
    LET c == h[1] IN
    /\ h \in DOMAIN channel /\ channel[h].forwarding
    /\ \/ /\ channel[h].queue # <<>>
          /\ Written(c, <<Pushed(h[2], NextRecord(channel[h].queue))>>)
          /\ channel' = [channel EXCEPT ![h].queue = Tail(@)]
       \/ /\ channel[h].queue # <<>> /\ MayFail(c)
          /\ channel' = [channel EXCEPT ![h].forwarding = FALSE, ![h].queue = <<>>]
          /\ UNCHANGED wire
       \/ /\ channel[h].queue = <<>> /\ ~channel[h].registered
          /\ channel' = [channel EXCEPT ![h].forwarding = FALSE]
          /\ UNCHANGED wire
    /\ UNCHANGED <<client, phase, consumed, answer, subscriptions, server, committed>>

ServerStep(c) ==
    \/ Handshake(c) \/ WriteReady(c) \/ TakeFrame(c) \/ Work(c) \/ WriteAnswers(c)
    \/ Abandon(c) \/ CleanUp(c)

Next ==
    \/ Shutdown \/ Commit
    \/ \E c \in Conns : ClientSend(c) \/ ClientClose(c) \/ Accept(c) \/ ServerStep(c)
    \/ \E h \in DOMAIN channel : Deliver(h) \/ Forward(h)

Spec == Init /\ [][Next]_vars

(* The tasks of the server keep running; clients may do nothing. *)
FairSpec == Spec /\ \A c \in Conns : WF_vars(ServerStep(c))

-----------------------------------------------------------------------------
Tags(c) == {wire[c][i].frame.tag : i \in DOMAIN wire[c]}
Replies(c) == {i \in DOMAIN wire[c] : wire[c][i].frame.tag \notin {"AuthOk", "Ready", "ChangeRecord"}}
Owes(frame) == frame.tag \notin {"Startup", "Auth", "Ack", "Unsubscribe", "Terminate", "Malformed"}

(* "The server processes commands in the order received per connection and *)
(* delivers replies in that same order": replies are in the order of their *)
(* commands, one each, although forwarders write to the same sink, and     *)
(* each command taken before the one being answered has had its reply.     *)
RepliesInOrder ==
    \A c \in Conns :
        /\ \A i, j \in Replies(c) : i < j => wire[c][i].re < wire[c][j].re
        /\ phase[c] = "loop" /\ open[c] =>
              \A k \in 1..consumed[c] : Owes(script[c][k]) =>
                  \E i \in Replies(c) : wire[c][i].re = k

(* A command is worked on only after a Startup and an Auth frame were      *)
(* accepted, in that order, and both answers to them were written: AuthOk  *)
(* is written to no other client, before anything else, and whatever is    *)
(* written beyond it and the errors follows Ready, which may be missing    *)
(* when the connection breaks between the two writes.  Only then can a     *)
(* subscription exist.                                                     *)
HandshakeFirst ==
    \A c \in Conns :
        LET subscribed == \E h \in DOMAIN channel : h[1] = c
        IN /\ subscribed \/ Tags(c) \ {"Error", "AuthError"} # {} =>
                 /\ script[c][1].tag = "Startup" /\ script[c][1].body = "ok"
                 /\ script[c][2].tag = "Auth" /\ script[c][2].body = "ok"
                 /\ 1 \in DOMAIN wire[c] /\ wire[c][1].frame.tag = "AuthOk"
           /\ subscribed \/ Tags(c) \ {"Error", "AuthError", "AuthOk"} # {} =>
                 2 \in DOMAIN wire[c] /\ wire[c][2].frame.tag = "Ready"

(* The semaphore and the gauge agree with the connections there are,       *)
(* however each of them ended.                                             *)
PermitsBalance ==
    /\ permits + Cardinality(Live) = MaxConnections
    /\ active = Cardinality(Live)

(* What a subscription pushes is the log from its start, in order and      *)
(* without a gap, on every connection it is written to.                    *)
PushesInOrder ==
    \A h \in DOMAIN channel :
        LET w == wire[h[1]]
            mine == {i \in DOMAIN w : w[i].sub = h[2]}
        IN /\ \A i, j \in mine : i < j => w[i].record < w[j].record
           /\ \A i \in mine :
                 /\ w[i].record \in 1..committed
                 /\ \A n \in 1..w[i].record : \E j \in mine : w[j].record = n

(* A connection whose client has gone away ends, and its permit returns.   *)
SessionsEnd == \A c \in Conns : (c \in Live /\ ~open[c]) ~> c \notin Live

(* "Clean up all subscriptions for this session" (serve_framed): a session *)
(* that has ended has no subscriber left at the engine.                    *)
SessionCleansUp ==
    \A h \in DOMAIN channel : phase[h[1]] = "closed" => ~channel[h].registered

(* "Reply: Result ... confirming the subscription, followed by a stream of *)
(* ChangeRecord frames" (PROTOCOL.md, Subscribe).                          *)
ResultBeforeRecords ==
    \A h \in DOMAIN channel :
        (open[h[1]] /\ \E i \in DOMAIN wire[h[1]] : wire[h[1]][i].sub = h[2]) =>
            \E i \in DOMAIN wire[h[1]] : wire[h[1]][i].re = h[2]

(* "Error frames are fatal.  The server closes the connection after        *)
(* sending one" (PROTOCOL.md).                                             *)
ErrorsAreFatal ==
    \A c \in Conns : \A i \in DOMAIN wire[c] :
        wire[c][i].frame.tag = "Error" => i = Len(wire[c])
=============================================================================
