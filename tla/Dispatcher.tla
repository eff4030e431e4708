----------------------------- MODULE Dispatcher -----------------------------
(***************************************************************************)
(* The change stream of smdb-engine: Dispatcher::run and dispatch,         *)
(* Engine::dispatch_pass, subscribe and unsubscribe, next to calls that    *)
(* commit.  The transition log is reduced to the machine of each record,   *)
(* the outbox to the status of the effect of each record.  A step of the   *)
(* dispatcher is one storage call, one send or one lock operation; a pass  *)
(* holds the read lock on the subscribers, so it excludes subscribe and    *)
(* unsubscribe but neither commits nor receivers that go away.             *)
(***************************************************************************)
EXTENDS Naturals, Sequences, FiniteSets

CONSTANTS Machines,     \* machines records belong to
          Handles,      \* subscribers: one per call of subscribe()
          Ids,          \* subscription ids: callers choose them, and may share one
          Filters,      \* machine filters: machines, or None
          Positions,    \* after_sequence values callers pass
          None,         \* an Option that is not set
          Batch,        \* BATCH: records read at a time
          EffectLimit,  \* pending effects read at a time
          Polling,      \* whether the interval of the dispatcher ever ends
          Faults,       \* whether storage calls may fail and the daemon may die
          MaxCalls,     \* bound: transition calls in flight
          MaxLog        \* bound: length of the log

Statuses == {"Pending", "Published", "Failed"}

(* joined is the length of the log at subscribe(), left is set by          *)
(* unsubscribe(): both are history.  delivered lists what was sent.        *)
Subscriber == [id: Ids, machine_filter: Filters, after: Nat, delivered_through: Nat,
               alive: BOOLEAN, left: BOOLEAN, joined: Nat, delivered: Seq(Nat)]

ASSUME DispatcherAssumption ==
    /\ Filters \subseteq Machines \cup {None}
    /\ None \notin Machines \cup Handles \cup Ids \cup Subscriber
    /\ Positions \subseteq Nat
    /\ Batch \in Nat \ {0}
    /\ EffectLimit \in Nat \ {0}
    /\ {Polling, Faults} \subseteq BOOLEAN
    /\ MaxCalls \in Nat /\ MaxLog \in Nat

VARIABLES
    log,          \* storage: the machine of each committed transition
    outbox,       \* storage: the status of the effect of each transition
    calls,        \* transition calls past the shutdown check, not yet committed
    wakeups,      \* notify_one calls still to be made after a commit or a push
    permit,       \* the stored permit of commit_notify
    shutdown,     \* the shutdown watch
    subscribers,  \* the subscriber Vec: handles in order
    sub,          \* each subscriber: fields of Subscriber, receiver, deliveries
    pc,           \* the dispatcher
    final,        \* the dispatcher is in the pass it makes on shutdown
    at,           \* position in the subscriber Vec
    cursor,       \* the local cursor
    batch,        \* [last: last sequence of the batch, full: batch_len = BATCH]
    dead,         \* ids found dead in this pass
    marks         \* transitions whose pending effects are still to be marked

storage == <<log, outbox>>
callers == <<calls, wakeups, shutdown>>
locals == <<final, at, cursor, batch, dead, marks>>
vars == <<storage, callers, permit, subscribers, sub, pc, locals>>

-----------------------------------------------------------------------------
Passing == {"read", "send"}      \* dispatch_pass holds subscribers.read()
Labels == Passing \cup {"select", "prune", "effects", "mark", "done"}

Members == {subscribers[i] : i \in DOMAIN subscribers}
Registered == {h \in Handles : sub[h] # None}
Wants(h, i) == sub[h].machine_filter \in {None, log[i]}
Delivered(h) == {sub[h].delivered[i] : i \in DOMAIN sub[h].delivered}

(* The shape of the state; a pass indexes the subscriber Vec and the batch *)
(* it has read within their bounds, although the log grows meanwhile.      *)
TypeOK ==
    /\ log \in Seq(Machines)
    /\ outbox \in Seq(Statuses) /\ Len(outbox) = Len(log)
    /\ calls \in 0..MaxCalls /\ wakeups \in Nat
    /\ permit \in BOOLEAN /\ shutdown \in BOOLEAN /\ final \in BOOLEAN
    /\ subscribers \in Seq(Handles)
    /\ sub \in [Handles -> Subscriber \cup {None}]
    /\ Members \subseteq Registered
    /\ pc \in Labels
    /\ at \in Nat /\ cursor \in Nat
    /\ batch \in [last: Nat, full: BOOLEAN]
    /\ dead \subseteq Ids
    /\ marks \subseteq DOMAIN log
    /\ pc \in Passing => at \in DOMAIN subscribers
    /\ pc = "send" => cursor < batch.last /\ batch.last \in DOMAIN log

NoBatch == [last |-> 0, full |-> FALSE]

Init ==
    /\ log = <<>> /\ outbox = <<>>
    /\ calls = 0 /\ wakeups = 0
    /\ permit = FALSE /\ shutdown = FALSE
    /\ subscribers = <<>>
    /\ sub = [h \in Handles |-> None]
    /\ pc = "select" /\ final = FALSE
    /\ at = 0 /\ cursor = 0 /\ batch = NoBatch /\ dead = {} /\ marks = {}

-----------------------------------------------------------------------------
(* Engine::transition, as far as the stream sees it: the shutdown check,   *)
(* the commit of the record with its pending effect, the wake-up.          *)
BeginCall ==
    /\ ~shutdown
    /\ calls < MaxCalls
    /\ Len(log) + calls < MaxLog
    /\ calls' = calls + 1
    /\ UNCHANGED <<storage, wakeups, permit, shutdown, subscribers, sub, pc, locals>>

Commit(m) ==
    /\ calls > 0
    /\ calls' = calls - 1
    /\ log' = Append(log, m)
    /\ outbox' = Append(outbox, "Pending")
    /\ wakeups' = wakeups + 1
    /\ UNCHANGED <<permit, shutdown, subscribers, sub, pc, locals>>

NotifyOne ==
    /\ wakeups > 0
    /\ wakeups' = wakeups - 1
    /\ permit' = TRUE
    /\ UNCHANGED <<storage, calls, shutdown, subscribers, sub, pc, locals>>

(* Engine::subscribe and unsubscribe take the write lock. *)
subscribe(h, id, filter, after) ==
    /\ pc \notin Passing
    /\ sub[h] = None
    /\ sub' = [sub EXCEPT ![h] =
          [id |-> id, machine_filter |-> filter, after |-> after, delivered_through |-> after,
           alive |-> TRUE, left |-> FALSE, joined |-> Len(log), delivered |-> <<>>]]
    /\ subscribers' = Append(subscribers, h)
    /\ wakeups' = wakeups + 1
    /\ UNCHANGED <<storage, calls, permit, shutdown, pc, locals>>

(* Vec::retain: the elements at the positions K, in their order. *)
Nth(K, n) == CHOOSE i \in K : Cardinality({j \in K : j <= i}) = n
Retained(K) == [n \in 1..Cardinality(K) |-> subscribers[Nth(K, n)]]

InvertedRetain(ids) == Retained({i \in DOMAIN subscribers : sub[subscribers[i]].id \in ids})

WithoutIds(ids) == Retained({i \in DOMAIN subscribers : sub[subscribers[i]].id \notin ids})

unsubscribe(id) ==
    /\ pc \notin Passing
    /\ \E h \in Members : sub[h].id = id
    /\ subscribers' = WithoutIds({id})
    /\ sub' = [h \in Handles |-> IF h \in Members /\ sub[h].id = id
                                 THEN [sub[h] EXCEPT !.left = TRUE] ELSE sub[h]]
    /\ UNCHANGED <<storage, callers, permit, pc, locals>>

(* The receiver of a subscriber is dropped: its forwarder has ended. *)
DropReceiver(h) ==
    /\ h \in Registered /\ sub[h].alive
    /\ sub' = [sub EXCEPT ![h].alive = FALSE]
    /\ UNCHANGED <<storage, callers, permit, subscribers, pc, locals>>

Shutdown ==
    /\ ~shutdown
    /\ shutdown' = TRUE
    /\ UNCHANGED <<storage, calls, wakeups, permit, subscribers, sub, pc, locals>>

(* The daemon dies and starts again over the same database. *)
Restart ==
    /\ Faults
    /\ calls' = 0 /\ wakeups' = 0
    /\ permit' = FALSE /\ shutdown' = FALSE
    /\ subscribers' = <<>>
    /\ sub' = [h \in Handles |-> None]
    /\ pc' = "select" /\ final' = FALSE
    /\ at' = 0 /\ cursor' = 0 /\ batch' = NoBatch /\ dead' = {} /\ marks' = {}
    /\ UNCHANGED storage

-----------------------------------------------------------------------------
(* dispatch_pass visits the k-th subscriber, or ends when there is none. *)
Visit(k) ==
    /\ batch' = NoBatch
    /\ IF k <= Len(subscribers)
       THEN pc' = "read" /\ at' = k /\ cursor' = sub[subscribers[k]].delivered_through
       ELSE pc' = "prune" /\ at' = 0 /\ cursor' = 0

(* The three branches of the select! in run(), each of which starts a      *)
(* dispatch; the one on shutdown is the last.                              *)
Wake == pc = "select" /\ Visit(1) /\ UNCHANGED <<storage, callers, subscribers, sub, dead, marks>>
WakeOnNotify == permit /\ permit' = FALSE /\ Wake /\ UNCHANGED final
PollOnlyForSubscribers == Polling /\ subscribers # <<>> /\ Wake /\ UNCHANGED <<permit, final>>
WakeOnPoll == Polling /\ Wake /\ UNCHANGED <<permit, final>>
WakeOnShutdown == shutdown /\ final' = TRUE /\ Wake /\ UNCHANGED permit

(* get_transitions_after(cursor, BATCH): the records that follow cursor.   *)
(* The log is gap-free, so the last sequence determines the batch.         *)
LastOfBatch == IF cursor + Batch < Len(log) THEN cursor + Batch ELSE Len(log)

ReadBatch ==
    /\ pc = "read"
    /\ \/ /\ cursor < Len(log)
          /\ batch' = [last |-> LastOfBatch, full |-> LastOfBatch - cursor = Batch]
          /\ pc' = "send"
          /\ UNCHANGED <<at, cursor>>
       \/ /\ cursor >= Len(log) \/ Faults
          /\ Visit(at + 1)
    /\ UNCHANGED <<storage, callers, permit, subscribers, sub, final, dead, marks>>

(* One record of the batch: skipped by the filter, sent, or refused by a   *)
(* closed channel, which ends the visit.  The shared cursor of the         *)
(* subscriber is stored at the end of the batch or on a refusal.           *)
ResentOnNextPass(h, i, sent) ==
    [sub[h] EXCEPT !.delivered = IF sent THEN Append(@, i) ELSE @]

Advanced(h, i, sent) ==
    [sub[h] EXCEPT !.delivered = IF sent THEN Append(@, i) ELSE @,
                   !.delivered_through = IF i = batch.last THEN i ELSE @]

Refused(h, i) == Wants(h, i) /\ ~sub[h].alive

StopAfterEveryBatch(i) ==
    IF i = batch.last
    THEN Visit(at + 1)
    ELSE pc' = "send" /\ cursor' = i /\ UNCHANGED <<at, batch>>

AfterRecord(i) ==
    IF i = batch.last /\ ~batch.full
    THEN Visit(at + 1)
    ELSE /\ pc' = IF i = batch.last THEN "read" ELSE "send"
         /\ batch' = IF i = batch.last THEN NoBatch ELSE batch
         /\ cursor' = i
         /\ UNCHANGED at

Send ==
    LET h == subscribers[at]
        i == cursor + 1
    IN
    /\ pc = "send"
    /\ \/ /\ Refused(h, i)
          /\ sub' = [sub EXCEPT ![h].delivered_through = i]
          /\ dead' = dead \cup {sub[h].id}
          /\ Visit(at + 1)
       \/ /\ ~Refused(h, i)
          /\ sub' = [sub EXCEPT ![h] = Advanced(h, i, Wants(h, i))]
          /\ AfterRecord(i)
          /\ UNCHANGED dead
    /\ UNCHANGED <<storage, callers, permit, subscribers, final, marks>>

(* The read lock is gone; the dead are removed under the write lock, by id. *)
Prune ==
    /\ pc = "prune"
    /\ subscribers' = WithoutIds(dead)
    /\ dead' = {}
    /\ pc' = "effects"
    /\ UNCHANGED <<storage, callers, permit, sub, final, at, cursor, batch, marks>>

Finished == IF final THEN "done" ELSE "select"

(* get_pending_effects: up to the limit, in the order of random ids. *)
ReadEffects ==
    LET pending == {i \in DOMAIN outbox : outbox[i] = "Pending"} IN
    /\ pc = "effects"
    /\ \/ /\ marks' \in SUBSET pending
          /\ \/ marks' = pending /\ Cardinality(pending) <= EffectLimit
             \/ Cardinality(marks') = EffectLimit
       \/ Faults /\ marks' = {}
    /\ pc' = IF marks' = {} THEN Finished ELSE "mark"
    /\ UNCHANGED <<storage, callers, permit, subscribers, sub, final, at, cursor, batch, dead>>

(* mark_effect_published, or on an error mark_effect_failed, which may     *)
(* fail as well and leave the effect pending.                              *)
MarkEffect(i) ==
    /\ pc = "mark"
    /\ i \in marks
    /\ \E status \in {"Published"} \cup (IF Faults THEN {"Failed", "Pending"} ELSE {}) :
          outbox' = [outbox EXCEPT ![i] = status]
    /\ marks' = marks \ {i}
    /\ pc' = IF marks' = {} THEN Finished ELSE "mark"
    /\ UNCHANGED <<log, callers, permit, subscribers, sub, final, at, cursor, batch, dead>>

DispatcherStep ==
    \/ WakeOnNotify \/ WakeOnShutdown
    \/ ReadBatch \/ Send \/ Prune \/ ReadEffects
    \/ \E i \in marks : MarkEffect(i)

Next ==
    \/ DispatcherStep
    \/ WakeOnPoll
    \/ BeginCall \/ NotifyOne \/ Shutdown \/ Restart
    \/ \E m \in Machines : Commit(m)
    \/ \E h \in Handles, id \in Ids, filter \in Filters, after \in Positions :
          subscribe(h, id, filter, after)
    \/ \E id \in Ids : unsubscribe(id)
    \/ \E h \in Handles : DropReceiver(h)

Spec == Init /\ [][Next]_vars

(* The dispatcher task and the threads that have committed keep running.   *)
(* Nothing is assumed of the poll timer here.                              *)
FairSpec == Spec /\ WF_vars(DispatcherStep) /\ WF_vars(NotifyOne)

-----------------------------------------------------------------------------
(* "in-order, gap-free delivery" (Subscriber): what was sent to a          *)
(* subscriber is strictly increasing, holds only records it asked for, and *)
(* misses none of those before any record it holds; and the stored cursor  *)
(* of a live subscriber never runs past a record that was not sent.        *)
ExactlyOnceInOrder ==
    \A h \in Registered :
        LET got == sub[h].delivered
            due(i) == sub[h].after < i /\ Wants(h, i)
        IN
        /\ \A p, q \in DOMAIN got : p < q => got[p] < got[q]
        /\ \A p \in DOMAIN got : got[p] \in DOMAIN log /\ due(got[p])
        /\ \A p \in DOMAIN got, i \in DOMAIN log : (i < got[p] /\ due(i)) => i \in Delivered(h)
        /\ sub[h].alive => \A i \in DOMAIN log :
              (i <= sub[h].delivered_through /\ due(i)) => i \in Delivered(h)

(* "Dead subscribers (receiver dropped) are pruned" (dispatch_pass): one    *)
(* whose receiver is there and that was not unsubscribed stays registered. *)
(* The code does not keep this: it prunes by id.                           *)
LiveStaysSubscribed ==
    \A h \in Registered : (sub[h].alive /\ ~sub[h].left) => h \in Members

(* What pruning by id does keep: a pass takes a live subscriber off the    *)
(* stream only when another one under the same id has lost its receiver,   *)
(* however many receivers go and subscribers come between the send that    *)
(* was refused and the removal.                                            *)
PrunedSharesDeadId ==
    \A h \in Registered :
        (sub[h].alive /\ ~sub[h].left /\ h \notin Members) =>
            \E g \in Registered : sub[g].id = sub[h].id /\ ~sub[g].alive

(* Record i is due to h, a live subscriber, and was not sent to it yet. *)
Owed(h, i) ==
    IF h \in Members /\ i \in DOMAIN log
    THEN sub[h].alive /\ sub[h].after < i /\ Wants(h, i) /\ i \notin Delivered(h)
    ELSE FALSE

(* "once a transition's change record is on the stream, its effects are    *)
(* considered published" (dispatch): an effect is marked published only    *)
(* after the live subscribers that had joined before the commit, and want  *)
(* its record, were sent it.                                               *)
StreamedBeforePublished ==
    \A i \in DOMAIN log : outbox[i] = "Published" =>
        \A h \in Members : Owed(h, i) => sub[h].joined >= i

(* "draining remaining records" (run, on shutdown): when the dispatcher    *)
(* has returned, every committed record has been sent to every live        *)
(* subscriber that had joined before its commit.                           *)
DrainedAtExit ==
    pc = "done" => \A h \in Members, i \in DOMAIN log :
        Owed(h, i) => sub[h].joined >= i

(* Every committed record a live subscriber asked for is sent to it in the *)
(* end, unless it leaves or the daemon stops, although commit_notify holds *)
(* one permit for any number of commits: no wake-up is lost.               *)
EventuallyDelivered ==
    \A h \in Handles, i \in 1..MaxLog : Owed(h, i) ~> (shutdown \/ ~Owed(h, i))

(* While the poll timer keeps ending, every outbox row is marked in the    *)
(* end, however many are pending at once: what a full read of the outbox   *)
(* leaves is found by a later pass.                                        *)
OutboxDrains ==
    WF_vars(WakeOnPoll) =>
        \A i \in 1..MaxLog :
            (i \in DOMAIN outbox /\ outbox[i] = "Pending")
                ~> (shutdown \/ (i \in DOMAIN outbox /\ outbox[i] # "Pending"))
=============================================================================
