---------------------------- MODULE SessionProofs ---------------------------
(***************************************************************************)
(* Theorems about Session, for any number of connections and whatever the  *)
(* clients send.  What a connection must satisfy is stated on the values   *)
(* of its variables, so that a step of one connection leaves the others'   *)
(* alone by sight.                                                         *)
(***************************************************************************)
EXTENDS Session, FiniteSetTheorems, TLAPS

USE ZenonT(30), SMTT(30)

-----------------------------------------------------------------------------
(* What is written to a connection. *)
IsSeq(s) == s \in Seq({s[i] : i \in DOMAIN s})

(* v is w with one more entry. *)
Extended(w, v, e) ==
    /\ IsSeq(w) /\ IsSeq(v) /\ Len(w) \in Nat
    /\ DOMAIN w = 1..Len(w) /\ DOMAIN v = DOMAIN w \cup {Len(w) + 1} /\ Len(w) + 1 \notin DOMAIN w
    /\ \A i \in DOMAIN w : v[i] = w[i] /\ i < Len(w) + 1
    /\ v[Len(w) + 1] = e

LEMMA OneMore ==
    ASSUME NEW w, NEW e, IsSeq(w)
    PROVE  Extended(w, w \o <<e>>, e)
<1> DEFINE S == {w[i] : i \in DOMAIN w} \cup {e}
           v == w \o <<e>>
<1>1. w \in Seq(S) /\ e \in S /\ <<e>> \in Seq(S)
  <2>1. w \in Seq({w[i] : i \in DOMAIN w}) /\ {w[i] : i \in DOMAIN w} \subseteq S
    BY DEF IsSeq
  <2> HIDE DEF S
  <2>2. w \in Seq(S)
    BY <2>1, SMTT(30)
  <2>3. e \in S
    BY DEF S
  <2>4. QED
    BY <2>2, <2>3, SMTT(30)
<1> HIDE DEF S
<1>2. /\ Len(w) \in Nat /\ DOMAIN w = 1..Len(w)
      /\ v \in Seq(S) /\ Len(v) = Len(w) + 1 /\ DOMAIN v = 1..(Len(w) + 1)
      /\ \A i \in 1..Len(w) : v[i] = w[i]
      /\ v[Len(w) + 1] = e
  BY <1>1, SMTT(30)
<1>3. 1..(Len(w) + 1) = 1..Len(w) \cup {Len(w) + 1} /\ Len(w) + 1 \notin 1..Len(w)
      /\ \A i \in 1..Len(w) : i < Len(w) + 1
  BY <1>2, SMTT(30)
<1> HIDE DEF v
<1>4. IsSeq(v)
  BY <1>2, SMTT(30) DEF IsSeq
<1>5. Extended(w, v, e)
  BY <1>2, <1>3, <1>4 DEF Extended
<1>6. QED
  BY <1>5 DEF v

LEMMA NothingMore ==
    ASSUME NEW w, IsSeq(w)
    PROVE  w \o <<>> = w
BY SMTT(30) DEF IsSeq

-----------------------------------------------------------------------------
(* Frames and entries. *)
ReplyTags == {"Pong", "Error", "AuthError", "Result", "Rejection"}

LEMMA EntryFields ==
    ASSUME NEW f, NEW k, NEW n
    PROVE  /\ Reply(f, k).frame = f /\ Reply(f, k).re = k /\ Reply(f, k).sub = 0
           /\ Pushed(k, n).frame.tag = "ChangeRecord" /\ Pushed(k, n).sub = k
           /\ Pushed(k, n).record = n
<1>1. /\ Reply(f, k).frame = f /\ Reply(f, k).re = k /\ Reply(f, k).sub = 0
      /\ Pushed(k, n).frame = ServerFrame("ChangeRecord", 0) /\ Pushed(k, n).sub = k
      /\ Pushed(k, n).record = n
  BY DEF Reply, Pushed
<1>2. ServerFrame("ChangeRecord", 0).tag = "ChangeRecord"
  BY DEF ServerFrame
<1>3. QED
  BY <1>1, <1>2

LEMMA FrameTags ==
    ASSUME NEW tag, NEW id
    PROVE  ServerFrame(tag, id).tag = tag /\ make_error_frame.tag = "Error"
           /\ ResultFrame(tag, id).tag = "Result"
BY SMTT(30) DEF ServerFrame, make_error_frame, ResultFrame

(* handle_frame answers with one frame, except for an Ack. *)
LEMMA HandledFrame ==
    ASSUME NEW frame, NEW id, NEW outcome
    PROVE  LET a == handle_frame(frame, id, outcome) IN
           \/ a = <<>> /\ frame.tag = "Ack"
           \/ \E f : a = <<f>> /\ f.tag \in ReplyTags
<1> DEFINE a == handle_frame(frame, id, outcome)
<1>0. /\ \A t, n : ServerFrame(t, n).tag = t /\ ResultFrame(t, n).tag = "Result"
      /\ make_error_frame.tag = "Error" /\ make_rejection_frame(id, outcome).tag = "Rejection"
  BY SMTT(30) DEF ServerFrame, make_error_frame, ResultFrame, make_rejection_frame
<1>1. \/ a = <<ServerFrame("Pong", 0)>> \/ a = <<make_error_frame>>
      \/ (a = <<>> /\ frame.tag = "Ack") \/ a = <<ResultFrame(frame.tag, id)>>
      \/ a = <<make_rejection_frame(id, outcome)>>
  BY SMTT(30) DEF handle_frame
<1> HIDE DEF a
<1>2. QED
  BY <1>0, <1>1, SMTT(30) DEF ReplyTags, a

-----------------------------------------------------------------------------
(* A connection: s is its script, o whether its client is there, p its     *)
(* phase, n the frames taken, a the answers held and w what was written.   *)
IsReply(e) == e.frame.tag \notin {"AuthOk", "Ready", "ChangeRecord"}
Working == {"loop", "work", "reply"}

Opened(s, k, tag) == s[k].tag = tag /\ s[k].body = "ok"

Greeted(s, n, w) ==
    /\ n >= 2 /\ Opened(s, 1, "Startup") /\ Opened(s, 2, "Auth")
    /\ {1, 2} \subseteq DOMAIN w /\ w[1].frame.tag = "AuthOk" /\ w[2].frame.tag = "Ready"

(* AuthOk is written, and Ready is not. *)
Admitted(s, n, w) ==
    /\ n = 2 /\ Opened(s, 1, "Startup") /\ Opened(s, 2, "Auth")
    /\ DOMAIN w = {1} /\ w[1].frame.tag = "AuthOk"

(* Commands that were answered, or need no answer. *)
Done(p, n) == IF p \in {"work", "reply"} THEN n - 1 ELSE n

InOrder(w) == \A i, j \in DOMAIN w : i < j /\ IsReply(w[i]) /\ IsReply(w[j]) => w[i].re < w[j].re
UpTo(w, n) == \A i \in DOMAIN w : IsReply(w[i]) => w[i].re \in 1..n
Answered(w, k) == \E i \in DOMAIN w : IsReply(w[i]) /\ w[i].re = k

AnswerFor(s, n, a) ==
    \/ a = <<>> /\ ~Owes(s[n])
    \/ \E f : a = <<Reply(f, n)>> /\ f.tag \in ReplyTags

Greets(s, p, n, w) ==
    /\ p \in {"free", "startup"} => n = 0 /\ w = <<>>
    /\ p = "auth" => n = 1 /\ w = <<>> /\ Opened(s, 1, "Startup")
    /\ p = "ready" => Admitted(s, n, w)
    /\ p \in Working => Greeted(s, n, w)
    /\ p = "closed" => \/ Greeted(s, n, w) \/ Admitted(s, n, w)
                       \/ \A i \in DOMAIN w : w[i].frame.tag \in {"Error", "AuthError"}

Answers(s, o, p, n, a, w) ==
    /\ InOrder(w) /\ UpTo(w, Done(p, n))
    /\ p \in Working /\ o => \A k \in 1..Done(p, n) : Owes(s[k]) => Answered(w, k)
    /\ p = "reply" => AnswerFor(s, n, a)

ConnectionOK(s, o, p, n, a, w) ==
    /\ n \in Nat /\ IsSeq(w)
    /\ Greets(s, p, n, w) /\ Answers(s, o, p, n, a, w)

-----------------------------------------------------------------------------
(* A record pushed by a forwarder is no reply. *)
LEMMA PushKeeps ==
    ASSUME NEW s, NEW o, NEW p, NEW n, NEW a, NEW w, NEW k, NEW r,
           ConnectionOK(s, o, p, n, a, w), Greeted(s, n, w)
    PROVE  LET v == w \o <<Pushed(k, r)>> IN ConnectionOK(s, o, p, n, a, v) /\ Greeted(s, n, v)
<1> DEFINE v == w \o <<Pushed(k, r)>>
<1>1. Extended(w, v, Pushed(k, r))
  BY OneMore DEF ConnectionOK
<1>2. ~IsReply(Pushed(k, r))
  BY EntryFields, SMTT(30) DEF IsReply
<1> HIDE DEF v
<1>3. Greeted(s, n, v)
  BY <1>1 DEF Greeted, Extended
<1>4. Greets(s, p, n, v)
  BY <1>3, SMTT(30) DEF ConnectionOK, Greets, Greeted, Admitted, Working
<1>5. InOrder(v) /\ UpTo(v, Done(p, n))
  BY <1>1, <1>2 DEF ConnectionOK, Answers, InOrder, UpTo, Extended
<1>6. \A m : Answered(w, m) => Answered(v, m)
  BY <1>1 DEF Answered, Extended
<1>7. Answers(s, o, p, n, a, v)
  BY <1>5, <1>6 DEF ConnectionOK, Answers
<1>8. QED
  BY <1>1, <1>3, <1>4, <1>7 DEF ConnectionOK, Extended, v

(* A reply to the command after the ones done. *)
LEMMA ReplyAdds ==
    ASSUME NEW w, NEW m \in Nat, NEW f, IsSeq(w), InOrder(w), UpTo(w, m), f.tag \in ReplyTags
    PROVE  LET v == w \o <<Reply(f, m + 1)>> IN
           /\ Extended(w, v, Reply(f, m + 1))
           /\ InOrder(v) /\ UpTo(v, m + 1) /\ Answered(v, m + 1)
           /\ \A k : Answered(w, k) => Answered(v, k)
<1> DEFINE e == Reply(f, m + 1)
           v == w \o <<e>>
           last == Len(w) + 1
<1>1. Extended(w, v, e)
  BY OneMore
<1>2. IsReply(e) /\ e.re = m + 1
  <2>1. e.frame.tag \in ReplyTags /\ e.re = m + 1
    BY EntryFields
  <2>2. QED
    BY <2>1, SMTT(30) DEF IsReply, ReplyTags
<1> HIDE DEF e, v
<1>3. /\ DOMAIN v = DOMAIN w \cup {last} /\ v[last] = e /\ last \in Nat
      /\ \A i \in DOMAIN w : v[i] = w[i] /\ i \in Nat /\ i < last
  BY <1>1, SMTT(30) DEF Extended
<1> HIDE DEF last
<1>4. \A i \in DOMAIN w : IsReply(w[i]) => w[i].re \in 1..(m + 1) /\ w[i].re < m + 1
  BY SMTT(30) DEF UpTo
<1>5. UpTo(v, m + 1)
  <2>1. m + 1 \in 1..(m + 1)
    BY SMTT(30)
  <2>2. QED
    BY <1>2, <1>3, <1>4, <2>1 DEF UpTo
<1>6. InOrder(v)
  <2>1. \A i \in DOMAIN w : ~(last < i) /\ ~(last < last)
    BY <1>3, SMTT(30)
  <2>2. QED
    BY <1>2, <1>3, <1>4, <2>1, SMTT(30) DEF InOrder
<1>7. Answered(v, m + 1) /\ \A k : Answered(w, k) => Answered(v, k)
  BY <1>2, <1>3 DEF Answered
<1>8. QED
  BY <1>1, <1>5, <1>6, <1>7 DEF e, v

-----------------------------------------------------------------------------
(* What serve_framed does to its connection. *)
LEMMA AcceptedOK ==
    ASSUME NEW s, NEW o, NEW n, NEW a, NEW w, ConnectionOK(s, o, "free", n, a, w),
           NEW q \in {"startup", "closed"}
    PROVE  ConnectionOK(s, o, q, n, a, w)
<1>1. n = 0 /\ w = <<>> /\ q \notin Working /\ q # "auth" /\ q # "ready" /\ q # "reply"
  BY SMTT(30) DEF ConnectionOK, Greets, Working
<1>2. DOMAIN w = {}
  BY <1>1, SMTT(30)
<1>3. Greets(s, q, n, w)
  BY <1>1, <1>2 DEF Greets
<1>4. Answers(s, o, q, n, a, w)
  BY <1>1, <1>2 DEF Answers, InOrder, UpTo
<1>5. QED
  BY <1>3, <1>4 DEF ConnectionOK

LEMMA ClosedOK ==
    ASSUME NEW s, NEW o, NEW p, NEW n, NEW a, NEW w, ConnectionOK(s, o, p, n, a, w),
           p \in {"startup", "auth", "ready"} \cup Working, NEW m \in {n, n + 1}, p = "ready" => m = n
    PROVE  ConnectionOK(s, o, "closed", m, <<>>, w)
<1>1. n \in Nat /\ m \in Nat /\ n <= m /\ "closed" \notin Working
  BY SMTT(30) DEF ConnectionOK, Working
<1>2. Greets(s, "closed", m, w)
  <2>1. CASE p \in {"startup", "auth"}
    <3>1. DOMAIN w = {}
      BY <2>1, SMTT(30) DEF ConnectionOK, Greets
    <3>2. QED
      BY <1>1, <3>1, SMTT(30) DEF Greets
  <2>2. CASE p \in Working
    <3>1. Greeted(s, n, w)
      BY <2>2 DEF ConnectionOK, Greets
    <3>2. Greeted(s, m, w)
      BY <1>1, <3>1, SMTT(30) DEF Greeted
    <3>3. QED
      BY <1>1, <3>2, SMTT(30) DEF Greets
  <2>3. CASE p = "ready"
    <3>1. Admitted(s, m, w)
      BY <2>3, SMTT(30) DEF ConnectionOK, Greets
    <3>2. QED
      BY <1>1, <3>1, SMTT(30) DEF Greets
  <2>4. QED
    BY <2>1, <2>2, <2>3
<1>3. InOrder(w) /\ UpTo(w, m)
  <2>1. InOrder(w) /\ UpTo(w, Done(p, n))
    BY DEF ConnectionOK, Answers
  <2>2. 1..Done(p, n) \subseteq 1..m
    BY <1>1, SMTT(30) DEF Done
  <2>3. QED
    BY <2>1, <2>2 DEF UpTo
<1>4. Done("closed", m) = m
  BY SMTT(30) DEF Done
<1>5. Answers(s, o, "closed", m, <<>>, w)
  BY <1>1, <1>3, <1>4, SMTT(30) DEF Answers
<1>6. QED
  BY <1>1, <1>2, <1>5 DEF ConnectionOK

LEMMA GoneOK ==
    ASSUME NEW s, NEW o, NEW p, NEW n, NEW a, NEW w, ConnectionOK(s, o, p, n, a, w)
    PROVE  ConnectionOK(s, FALSE, p, n, a, w)
BY DEF ConnectionOK, Answers

(* An error frame in the handshake. *)
LEMMA RefusedOK ==
    ASSUME NEW s, NEW o, NEW p \in {"startup", "auth"}, NEW n, NEW a, NEW w,
           ConnectionOK(s, o, p, n, a, w), NEW tag \in {"Error", "AuthError"}
    PROVE  ConnectionOK(s, o, "closed", n + 1, <<>>, w \o <<Reply(ServerFrame(tag, 0), n + 1)>>)
<1> DEFINE f == ServerFrame(tag, 0)
           v == w \o <<Reply(f, n + 1)>>
<1>1. /\ n \in Nat /\ IsSeq(w) /\ InOrder(w) /\ UpTo(w, n) /\ DOMAIN w = {}
  <2>1. Done(p, n) = n
    BY SMTT(30) DEF Done
  <2>2. DOMAIN w = {}
    BY SMTT(30) DEF ConnectionOK, Greets
  <2>3. QED
    BY <2>1, <2>2 DEF ConnectionOK, Answers
<1>2. f.tag = tag /\ f.tag \in ReplyTags
  BY FrameTags, SMTT(30) DEF ReplyTags
<1> HIDE DEF f
<1>3. Extended(w, v, Reply(f, n + 1)) /\ InOrder(v) /\ UpTo(v, n + 1)
  BY <1>1, <1>2, ReplyAdds
<1> HIDE DEF v
<1>4. \A i \in DOMAIN v : v[i].frame.tag \in {"Error", "AuthError"}
  BY <1>1, <1>2, <1>3, EntryFields, SMTT(30) DEF Extended
<1>5. Greets(s, "closed", n + 1, v)
  BY <1>4, SMTT(30) DEF Greets, Working
<1>6. Done("closed", n + 1) = n + 1 /\ n + 1 \in Nat
  BY <1>1, SMTT(30) DEF Done
<1>7. Answers(s, o, "closed", n + 1, <<>>, v)
  BY <1>3, <1>6, SMTT(30) DEF Answers, Working
<1>8. QED
  BY <1>3, <1>5, <1>6, <1>7 DEF ConnectionOK, Extended, v, f

LEMMA StartedOK ==
    ASSUME NEW s, NEW o, NEW n, NEW a, NEW w, ConnectionOK(s, o, "startup", n, a, w),
           Opened(s, 1, "Startup")
    PROVE  ConnectionOK(s, o, "auth", n + 1, a, w)
<1>1. n = 0 /\ w = <<>> /\ IsSeq(w) /\ DOMAIN w = {}
  BY SMTT(30) DEF ConnectionOK, Greets
<1>2. n + 1 = 1 /\ 1 \in Nat
  BY <1>1, SMTT(30)
<1>3. Greets(s, "auth", 1, w)
  BY <1>1, SMTT(30) DEF Greets, Working
<1>4. Answers(s, o, "auth", 1, a, w)
  BY <1>1, SMTT(30) DEF Answers, InOrder, UpTo, Working
<1>5. QED
  BY <1>1, <1>2, <1>3, <1>4 DEF ConnectionOK

(* AuthOk goes out, and then Ready. *)
LEMMA AuthenticatedOK ==
    ASSUME NEW s, NEW o, NEW n, NEW a, NEW w, ConnectionOK(s, o, "auth", n, a, w),
           Opened(s, 2, "Auth"), NEW k
    PROVE  ConnectionOK(s, o, "ready", n + 1, a, w \o <<Reply(ServerFrame("AuthOk", 0), k)>>)
<1> DEFINE e == Reply(ServerFrame("AuthOk", 0), k)
           v == w \o <<e>>
<1>1. n = 1 /\ w = <<>> /\ IsSeq(w) /\ Opened(s, 1, "Startup") /\ n + 1 = 2 /\ 2 \in Nat
  BY SMTT(30) DEF ConnectionOK, Greets
<1>2. e.frame.tag = "AuthOk" /\ ~IsReply(e)
  BY EntryFields, FrameTags, SMTT(30) DEF IsReply
<1> HIDE DEF e
<1>3. IsSeq(v) /\ DOMAIN v = {1} /\ v[1] = e
  <2>1. Extended(w, v, e)
    BY <1>1, OneMore
  <2>2. DOMAIN w = {} /\ Len(w) + 1 = 1
    BY <1>1, SMTT(30)
  <2>3. QED
    BY <2>1, <2>2 DEF Extended
<1> HIDE DEF v
<1>4. Greets(s, "ready", 2, v)
  BY <1>1, <1>2, <1>3, SMTT(30) DEF Greets, Admitted, Working
<1>5. Answers(s, o, "ready", 2, a, v)
  <2>1. InOrder(v) /\ UpTo(v, Done("ready", 2))
    BY <1>2, <1>3 DEF InOrder, UpTo
  <2>2. "ready" \notin Working /\ "ready" # "reply"
    BY SMTT(30) DEF Working
  <2>3. QED
    BY <2>1, <2>2 DEF Answers
<1>6. QED
  BY <1>1, <1>3, <1>4, <1>5 DEF ConnectionOK, v, e

LEMMA ReadyOK ==
    ASSUME NEW s, NEW o, NEW n, NEW a, NEW w, ConnectionOK(s, o, "ready", n, a, w), NEW k
    PROVE  ConnectionOK(s, o, "loop", n, a, w \o <<Reply(ServerFrame("Ready", 0), k)>>)
<1> DEFINE e == Reply(ServerFrame("Ready", 0), k)
           v == w \o <<e>>
<1>1. IsSeq(w) /\ Admitted(s, n, w) /\ InOrder(w) /\ UpTo(w, Done("ready", n))
  BY DEF ConnectionOK, Greets, Answers
<1>2. e.frame.tag = "Ready" /\ ~IsReply(e)
  BY EntryFields, FrameTags, SMTT(30) DEF IsReply
<1> HIDE DEF e
<1>3. Extended(w, v, e)
  BY <1>1, OneMore
<1>4. n = 2 /\ 2 \in Nat /\ Done("ready", n) = 2 /\ Done("loop", 2) = 2
  BY <1>1, SMTT(30) DEF Admitted, Done
<1>5. DOMAIN v = {1, 2} /\ v[1] = w[1] /\ v[2] = e /\ IsSeq(v)
  <2>1. Len(w) = 1
    BY <1>1, <1>3, SMTT(30) DEF Admitted, Extended
  <2>2. Len(w) + 1 = 2
    BY <2>1, SMTT(30)
  <2>3. QED
    BY <1>1, <1>3, <2>2 DEF Admitted, Extended
<1> HIDE DEF v
<1>6. Greets(s, "loop", 2, v)
  BY <1>1, <1>2, <1>4, <1>5, SMTT(30) DEF Greets, Greeted, Admitted, Working
<1>7. Answers(s, o, "loop", 2, a, v)
  <2>1. ~IsReply(w[1])
    BY <1>1, SMTT(30) DEF Admitted, IsReply
  <2>2. InOrder(v) /\ UpTo(v, 2)
    BY <1>2, <1>5, <2>1 DEF InOrder, UpTo
  <2>3. \A j \in 1..2 : ~Owes(s[j])
    <3>1. ~Owes(s[1]) /\ ~Owes(s[2])
      BY <1>1, SMTT(30) DEF Admitted, Opened, Owes
    <3>2. QED
      BY <3>1, SMTT(30)
  <2>4. QED
    BY <1>4, <2>2, <2>3, SMTT(30) DEF Answers
<1>8. QED
  BY <1>4, <1>5, <1>6, <1>7 DEF ConnectionOK, v, e

(* The request loop takes command n + 1: it is handed to a worker, a       *)
(* subscription is confirmed later, or nothing is owed.                    *)
LEMMA TakenOK ==
    ASSUME NEW s, NEW o, NEW n, NEW a, NEW w, ConnectionOK(s, o, "loop", n, a, w), NEW b,
           NEW q \in Working, q = "loop" => ~o \/ ~Owes(s[n + 1]), q = "reply" => AnswerFor(s, n + 1, b)
    PROVE  ConnectionOK(s, o, q, n + 1, b, w)
<1>1. /\ n \in Nat /\ n + 1 \in Nat /\ Greeted(s, n, w) /\ InOrder(w) /\ UpTo(w, n)
      /\ o => \A k \in 1..n : Owes(s[k]) => Answered(w, k)
  BY SMTT(30) DEF ConnectionOK, Greets, Answers, Working, Done
<1>2. Greeted(s, n + 1, w)
  BY <1>1, SMTT(30) DEF Greeted
<1>3. Greets(s, q, n + 1, w)
  BY <1>2, SMTT(30) DEF Greets, Working
<1>4. Done(q, n + 1) \in {n, n + 1} /\ (q # "loop" => Done(q, n + 1) = n)
  BY <1>1, SMTT(30) DEF Done, Working
<1>5. UpTo(w, Done(q, n + 1))
  <2>1. 1..n \subseteq 1..Done(q, n + 1)
    BY <1>1, <1>4, SMTT(30)
  <2>2. QED
    BY <1>1, <2>1 DEF UpTo
<1>6. o => \A k \in 1..Done(q, n + 1) : Owes(s[k]) => Answered(w, k)
  <2>1. \A k \in 1..Done(q, n + 1) : k \in 1..n \/ (k = n + 1 /\ q = "loop")
    BY <1>1, <1>4, SMTT(30)
  <2>2. QED
    BY <1>1, <2>1
<1>7. Answers(s, o, q, n + 1, b, w)
  BY <1>1, <1>5, <1>6 DEF Answers
<1>8. QED
  BY <1>1, <1>3, <1>7 DEF ConnectionOK

(* A reply to command m + 1, where m commands are done, leads back to the  *)
(* top of the loop.                                                        *)
LEMMA RepliedOK ==
    ASSUME NEW s, NEW o, NEW p \in Working, NEW n, NEW a, NEW w, ConnectionOK(s, o, p, n, a, w),
           NEW f, f.tag \in ReplyTags, NEW b
    PROVE  LET m == Done(p, n) + 1 IN ConnectionOK(s, o, "loop", m, b, w \o <<Reply(f, m)>>)
<1> DEFINE d == Done(p, n)
           v == w \o <<Reply(f, d + 1)>>
<1>1. /\ IsSeq(w) /\ Greeted(s, n, w) /\ InOrder(w) /\ UpTo(w, d)
      /\ o => \A k \in 1..d : Owes(s[k]) => Answered(w, k)
  BY DEF ConnectionOK, Greets, Answers
<1>2. n \in Nat /\ n >= 2 /\ d \in Nat /\ d + 1 \in Nat /\ d + 1 >= n
  BY <1>1, SMTT(30) DEF ConnectionOK, Greeted, Done
<1> HIDE DEF d
<1>3. /\ Extended(w, v, Reply(f, d + 1)) /\ InOrder(v) /\ UpTo(v, d + 1)
      /\ Answered(v, d + 1) /\ \A k : Answered(w, k) => Answered(v, k)
  BY <1>1, <1>2, ReplyAdds
<1> HIDE DEF v
<1>4. Greeted(s, d + 1, v)
  <2>1. d + 1 >= 2
    BY <1>2, SMTT(30)
  <2>2. QED
    BY <1>1, <1>3, <2>1 DEF Greeted, Extended
<1>5. Greets(s, "loop", d + 1, v)
  BY <1>4, SMTT(30) DEF Greets
<1>6. Done("loop", d + 1) = d + 1
  BY SMTT(30) DEF Done
<1>7. o => \A k \in 1..(d + 1) : Owes(s[k]) => Answered(v, k)
  <2>1. \A k \in 1..(d + 1) : k \in 1..d \/ k = d + 1
    BY <1>2, SMTT(30)
  <2>2. QED
    BY <1>1, <1>3, <2>1
<1>8. Answers(s, o, "loop", d + 1, b, v)
  BY <1>3, <1>6, <1>7 DEF Answers
<1>9. QED
  BY <1>2, <1>3, <1>5, <1>8 DEF ConnectionOK, Extended, v, d

(* A worker's answer is held until it is written. *)
LEMMA WorkedOK ==
    ASSUME NEW s, NEW o, NEW n, NEW a, NEW w, ConnectionOK(s, o, "work", n, a, w), NEW b,
           AnswerFor(s, n, b)
    PROVE  ConnectionOK(s, o, "reply", n, b, w)
<1>1. Done("work", n) = Done("reply", n)
  BY SMTT(30) DEF Done
<1>2. Greets(s, "reply", n, w)
  BY SMTT(30) DEF ConnectionOK, Greets, Working
<1>3. "work" \in Working /\ "reply" \in Working
  BY SMTT(30) DEF Working
<1>4. Answers(s, o, "reply", n, b, w)
  BY <1>1, <1>3 DEF ConnectionOK, Answers
<1>5. QED
  BY <1>2, <1>4 DEF ConnectionOK

LEMMA WrittenOK ==
    ASSUME NEW s, NEW o, NEW n, NEW a, NEW w, ConnectionOK(s, o, "reply", n, a, w), NEW b
    PROVE  ConnectionOK(s, o, "loop", n, b, w \o a)
<1>1. n \in Nat /\ IsSeq(w) /\ AnswerFor(s, n, a) /\ "reply" \in Working
  BY SMTT(30) DEF ConnectionOK, Answers, Working
<1>2. n >= 2 /\ Done("reply", n) + 1 = n
  <2>1. Greeted(s, n, w)
    BY <1>1 DEF ConnectionOK, Greets
  <2>2. QED
    BY <1>1, <2>1, SMTT(30) DEF Greeted, Done
<1>3. CASE \E f : a = <<Reply(f, n)>> /\ f.tag \in ReplyTags
  <2>1. PICK f : a = <<Reply(f, n)>> /\ f.tag \in ReplyTags
    BY <1>3
  <2>2. ConnectionOK(s, o, "loop", Done("reply", n) + 1, b, w \o <<Reply(f, Done("reply", n) + 1)>>)
    BY <1>1, <2>1, RepliedOK
  <2>3. QED
    BY <1>2, <2>1, <2>2
<1>4. CASE a = <<>> /\ ~Owes(s[n])
  <2>1. w \o a = w
    BY <1>1, <1>4, NothingMore
  <2>2. /\ InOrder(w) /\ UpTo(w, n - 1) /\ Greeted(s, n, w)
        /\ o => \A k \in 1..(n - 1) : Owes(s[k]) => Answered(w, k)
    BY <1>1, SMTT(30) DEF ConnectionOK, Answers, Done, Greets
  <2>3. 1..(n - 1) \subseteq 1..n /\ \A k \in 1..n : k \in 1..(n - 1) \/ k = n
    BY <1>1, SMTT(30)
  <2>4. Done("loop", n) = n
    BY SMTT(30) DEF Done
  <2>5. Answers(s, o, "loop", n, b, w)
    <3>1. UpTo(w, n)
      BY <2>2, <2>3 DEF UpTo
    <3>2. o => \A k \in 1..n : Owes(s[k]) => Answered(w, k)
      BY <1>4, <2>2, <2>3
    <3>3. QED
      BY <2>2, <2>4, <3>1, <3>2 DEF Answers
  <2>6. Greets(s, "loop", n, w)
    BY <2>2, SMTT(30) DEF Greets
  <2>7. QED
    BY <1>1, <2>1, <2>5, <2>6 DEF ConnectionOK
<1>5. QED
  BY <1>1, <1>3, <1>4 DEF AnswerFor

-----------------------------------------------------------------------------
(* A subscription: k is the position of its Subscribe frame, ch its        *)
(* channel, w what was written to its connection and m the length of the   *)
(* log.                                                                    *)
Mine(w, k) == {i \in DOMAIN w : w[i].sub = k}

ChannelFields == {"id", "registered", "forwarding", "queue", "through"}

IsChannel(ch) ==
    /\ DOMAIN ch = ChannelFields
    /\ ch.queue \in Seq(Nat) /\ ch.through \in Nat

(* Of the records the dispatcher has sent, those that left the channel. *)
Taken(ch) == ch.through - Len(ch.queue)

PushedInOrder(w, k, m) ==
    /\ \A i, j \in Mine(w, k) : i < j => w[i].record < w[j].record
    /\ \A i \in Mine(w, k) :
          /\ w[i].record \in 1..m
          /\ \A n \in 1..w[i].record : \E j \in Mine(w, k) : w[j].record = n

(* While the forwarder runs, what it has taken is what it has written, and *)
(* the rest waits in the channel.                                          *)
Forwarded(w, k, ch) ==
    /\ Taken(ch) \in Nat
    /\ \A i \in Mine(w, k) : w[i].record \in 1..Taken(ch)
    /\ \A n \in 1..Taken(ch) : \E j \in Mine(w, k) : w[j].record = n
    /\ \A i \in DOMAIN ch.queue : ch.queue[i] = Taken(ch) + i

ChannelOK(w, k, ch, m) ==
    /\ IsChannel(ch) /\ m \in Nat /\ ch.through <= m
    /\ PushedInOrder(w, k, m) /\ (ch.forwarding => Forwarded(w, k, ch))

(* What other tasks write to the connection. *)
LEMMA OthersWrite ==
    ASSUME NEW w, NEW v, NEW e, NEW k, NEW ch, NEW m, ChannelOK(w, k, ch, m),
           Extended(w, v, e), e.sub # k
    PROVE  ChannelOK(v, k, ch, m)
<1>1. Mine(v, k) = Mine(w, k) /\ \A i \in Mine(w, k) : v[i] = w[i]
  BY DEF Mine, Extended
<1>2. PushedInOrder(v, k, m)
  BY <1>1 DEF ChannelOK, PushedInOrder
<1>3. Forwarded(w, k, ch) => Forwarded(v, k, ch)
  BY <1>1 DEF Forwarded
<1>4. QED
  BY <1>2, <1>3 DEF ChannelOK

LEMMA LogGrowsOK ==
    ASSUME NEW w, NEW k, NEW ch, NEW m, ChannelOK(w, k, ch, m)
    PROVE  ChannelOK(w, k, ch, m + 1)
<1>1. m \in Nat /\ m + 1 \in Nat /\ 1..m \subseteq 1..(m + 1) /\ ch.through <= m + 1
  BY SMTT(30) DEF ChannelOK, IsChannel, ChannelFields
<1>2. PushedInOrder(w, k, m + 1)
  BY <1>1 DEF ChannelOK, PushedInOrder
<1>3. QED
  BY <1>1, <1>2 DEF ChannelOK

(* Engine::unsubscribe and the pruning touch neither end of the channel. *)
LEMMA UnregisteredOK ==
    ASSUME NEW w, NEW k, NEW ch, NEW m, ChannelOK(w, k, ch, m)
    PROVE  ChannelOK(w, k, [ch EXCEPT !.registered = FALSE], m)
<1> DEFINE d == [ch EXCEPT !.registered = FALSE]
<1>1. IsChannel(d) /\ d.forwarding = ch.forwarding /\ d.queue = ch.queue /\ d.through = ch.through
  BY SMTT(30) DEF ChannelOK, IsChannel, ChannelFields
<1> HIDE DEF d
<1>2. Forwarded(w, k, ch) => Forwarded(w, k, d)
  BY <1>1 DEF Forwarded, Taken
<1>3. ChannelOK(w, k, d, m)
  BY <1>1, <1>2 DEF ChannelOK
<1>4. QED
  BY <1>3 DEF d

LEMMA NewChannelOK ==
    ASSUME NEW w, NEW k, NEW id, NEW m \in Nat, Mine(w, k) = {}
    PROVE  ChannelOK(w, k, [id |-> id, registered |-> TRUE, forwarding |-> TRUE,
                            queue |-> <<>>, through |-> 0], m)
<1> DEFINE d == [id |-> id, registered |-> TRUE, forwarding |-> TRUE, queue |-> <<>>, through |-> 0]
<1>1. d.queue = <<>> /\ d.through = 0 /\ IsChannel(d)
  BY SMTT(30) DEF IsChannel, ChannelFields
<1> HIDE DEF d
<1>2. Taken(d) = 0 /\ 0 <= m /\ 1..0 = {} /\ 0 \in Nat
  <2>1. Len(<<>>) = 0 /\ 0 - 0 = 0 /\ 0 <= m /\ 1..0 = {} /\ 0 \in Nat
    BY SMTT(30)
  <2>2. QED
    BY <1>1, <2>1, Zenon DEF Taken
<1>3. PushedInOrder(w, k, m)
  BY DEF PushedInOrder
<1>4. Forwarded(w, k, d)
  <2>1. DOMAIN d.queue = {}
    BY <1>1, SMTT(30)
  <2>2. QED
    BY <1>2, <2>1 DEF Forwarded
<1>5. ChannelOK(w, k, d, m)
  BY <1>1, <1>2, <1>3, <1>4 DEF ChannelOK
<1>6. QED
  BY <1>5 DEF d

(* The dispatcher sends the next record. *)
LEMMA DeliveredOK ==
    ASSUME NEW w, NEW k, NEW ch, NEW m, ChannelOK(w, k, ch, m), ch.through < m, NEW d,
           d = [ch EXCEPT !.queue = Append(@, ch.through + 1), !.through = @ + 1], ch.forwarding
    PROVE  ChannelOK(w, k, d, m)
<1>1. ch.through \in Nat /\ ch.queue \in Seq(Nat) /\ m \in Nat /\ Forwarded(w, k, ch)
  BY SMTT(30) DEF ChannelOK, IsChannel, ChannelFields
<1>2. /\ IsChannel(d) /\ d.queue = Append(ch.queue, ch.through + 1) /\ d.through = ch.through + 1
      /\ d.forwarding = ch.forwarding
  <2>1. DOMAIN ch = ChannelFields
    BY DEF ChannelOK, IsChannel, ChannelFields
  <2>2. /\ DOMAIN d = ChannelFields /\ d.queue = Append(ch.queue, ch.through + 1)
        /\ d.through = ch.through + 1 /\ d.forwarding = ch.forwarding
    BY <2>1, Zenon DEF ChannelFields
  <2>3. Append(ch.queue, ch.through + 1) \in Seq(Nat) /\ ch.through + 1 \in Nat
    BY <1>1, SMTT(30)
  <2>4. QED
    BY <2>2, <2>3 DEF IsChannel
<1>3. d.through <= m /\ Taken(d) = Taken(ch)
  BY <1>1, <1>2, SMTT(30) DEF Taken
<1>4. ASSUME NEW i \in DOMAIN d.queue PROVE d.queue[i] = Taken(d) + i
  <2>1. CASE i \in DOMAIN ch.queue
    BY <1>1, <1>2, <1>3, <2>1, SMTT(30) DEF Forwarded
  <2>2. CASE i = Len(ch.queue) + 1
    BY <1>1, <1>2, <1>3, <2>2, SMTT(30) DEF Taken
  <2>3. QED
    BY <1>1, <1>2, <1>4, <2>1, <2>2, SMTT(30)
<1>5. Forwarded(w, k, d)
  BY <1>1, <1>3, <1>4 DEF Forwarded
<1>6. QED
  BY <1>1, <1>2, <1>3, <1>5 DEF ChannelOK

(* The forwarder writes the record at the head of the channel. *)
LEMMA ForwardedOK ==
    ASSUME NEW w, NEW v, NEW k, NEW ch, NEW m, ChannelOK(w, k, ch, m), ch.forwarding,
           ch.queue # <<>>, Extended(w, v, Pushed(k, NextRecord(ch.queue))),
           NEW d, d = [ch EXCEPT !.queue = Tail(@)]
    PROVE  ChannelOK(v, k, d, m)
<1> DEFINE P == Taken(ch)
           e == Pushed(k, NextRecord(ch.queue))
           last == Len(w) + 1
<1>1. /\ ch.through \in Nat /\ ch.queue \in Seq(Nat) /\ m \in Nat /\ P \in Nat
      /\ ch.through <= m /\ Forwarded(w, k, ch)
  BY SMTT(30) DEF ChannelOK, IsChannel, Forwarded
<1>2. /\ IsChannel(d) /\ d.queue = Tail(ch.queue) /\ d.through = ch.through
      /\ d.forwarding = ch.forwarding
  <2>1. DOMAIN ch = ChannelFields
    BY DEF ChannelOK, IsChannel, ChannelFields
  <2>2. /\ DOMAIN d = ChannelFields /\ d.queue = Tail(ch.queue)
        /\ d.through = ch.through /\ d.forwarding = ch.forwarding
    BY <2>1, Zenon DEF ChannelFields
  <2>3. Tail(ch.queue) \in Seq(Nat)
    BY <1>1, SMTT(30)
  <2>4. QED
    BY <1>1, <2>2, <2>3 DEF IsChannel
<1>3. ch.queue[1] = P + 1 /\ P + 1 \in 1..m
  BY <1>1, SMTT(30) DEF Forwarded, Taken
<1>4. Taken(d) = P + 1
  BY <1>1, <1>2, SMTT(30) DEF Taken
<1>5. e.sub = k /\ e.record = P + 1
  BY <1>3, EntryFields, SMTT(30) DEF NextRecord
<1>6. \A i \in DOMAIN d.queue : d.queue[i] = P + 1 + i
  <2>1. \A i \in DOMAIN Tail(ch.queue) :
            i \in Nat /\ i + 1 \in DOMAIN ch.queue /\ Tail(ch.queue)[i] = ch.queue[i + 1]
    BY <1>1, SMTT(30)
  <2>2. \A i \in DOMAIN ch.queue : ch.queue[i] = P + i
    BY <1>1 DEF Forwarded
  <2> HIDE DEF P
  <2>3. \A i \in Nat : P + (i + 1) = P + 1 + i
    BY <1>1, SMTT(30)
  <2>4. QED
    BY <1>2, <2>1, <2>2, <2>3
<1> HIDE DEF P, e
<1>7. /\ Mine(v, k) = Mine(w, k) \cup {last} /\ v[last] = e /\ last \in Nat
      /\ \A i \in Mine(w, k) : v[i] = w[i] /\ i \in Nat /\ i < last
  BY <1>5, SMTT(30) DEF Mine, Extended, e
<1> HIDE DEF last
<1>8. \A i \in Mine(w, k) : w[i].record \in 1..P /\ w[i].record \in 1..(P + 1) /\ w[i].record < P + 1
  BY <1>1, SMTT(30) DEF Forwarded, P
<1>9. /\ \A i \in Mine(v, k) : v[i].record \in 1..(P + 1)
      /\ \A n \in 1..(P + 1) : \E j \in Mine(v, k) : v[j].record = n
  <2>1. P + 1 \in 1..(P + 1) /\ \A n \in 1..(P + 1) : n \in 1..P \/ n = P + 1
    BY <1>1, SMTT(30)
  <2>2. \A n \in 1..P : \E j \in Mine(w, k) : w[j].record = n
    BY <1>1 DEF Forwarded, P
  <2>3. QED
    BY <1>5, <1>7, <1>8, <2>1, <2>2
<1>10. Forwarded(v, k, d)
  <2>1. P + 1 \in Nat
    BY <1>1, SMTT(30)
  <2>2. QED
    BY <1>4, <1>6, <1>9, <2>1 DEF Forwarded
<1>11. PushedInOrder(v, k, m)
  <2>1. \A i, j \in Mine(v, k) : i < j => v[i].record < v[j].record
    <3>1. \A i \in Mine(w, k) : ~(last < i) /\ ~(last < last)
      BY <1>7, SMTT(30)
    <3>2. QED
      BY <1>5, <1>7, <1>8, <3>1, SMTT(30) DEF ChannelOK, PushedInOrder
  <2>2. \A i \in Mine(v, k) : v[i].record \in 1..m /\ 1..v[i].record \subseteq 1..(P + 1)
    BY <1>1, <1>3, <1>9, SMTT(30)
  <2>3. QED
    BY <1>9, <2>1, <2>2 DEF PushedInOrder
<1>12. QED
  BY <1>1, <1>2, <1>10, <1>11 DEF ChannelOK

(* The forwarder ends. *)
LEMMA StoppedOK ==
    ASSUME NEW w, NEW k, NEW ch, NEW m, ChannelOK(w, k, ch, m), NEW d,
           \/ d = [ch EXCEPT !.forwarding = FALSE, !.queue = <<>>]
           \/ d = [ch EXCEPT !.forwarding = FALSE]
    PROVE  ChannelOK(w, k, d, m)
<1>1. IsChannel(d) /\ ~d.forwarding /\ d.through = ch.through
  <2>1. IsChannel(ch) /\ <<>> \in Seq(Nat)
    BY SMTT(30) DEF ChannelOK
  <2>2. DOMAIN d = ChannelFields /\ d.forwarding = FALSE /\ d.queue \in {ch.queue, <<>>}
        /\ d.through = ch.through
    BY <2>1, Zenon DEF IsChannel, ChannelFields
  <2>3. QED
    BY <2>1, <2>2 DEF IsChannel
<1>2. QED
  BY <1>1 DEF ChannelOK

-----------------------------------------------------------------------------
Phases == {"free", "startup", "auth", "ready", "loop", "work", "reply", "closed"}

Shape ==
    /\ script \in [Conns -> Seq(SentFrame)]
    /\ sent \in [Conns -> Nat] /\ consumed \in [Conns -> Nat] /\ phase \in [Conns -> Phases]
    /\ DOMAIN open = Conns /\ DOMAIN answer = Conns /\ DOMAIN wire = Conns
    /\ \A c \in Conns : consumed[c] <= sent[c] /\ sent[c] <= Len(script[c])
    /\ committed \in Nat

ConnectionsOK ==
    \A c \in Conns :
        ConnectionOK(script[c], open[c], phase[c], consumed[c], answer[c], wire[c])

(* A subscription was made by a command of a connection that greeted. *)
ChannelsOK ==
    \A h \in DOMAIN channel :
        /\ h \in Conns \X Nat /\ h[2] \in 1..consumed[h[1]]
        /\ Greeted(script[h[1]], consumed[h[1]], wire[h[1]])
        /\ ChannelOK(wire[h[1]], h[2], channel[h], committed)

(* Records are written for subscriptions there are. *)
PushesOwned ==
    \A c \in Conns : \A i \in DOMAIN wire[c] :
        wire[c][i].sub # 0 => <<c, wire[c][i].sub>> \in DOMAIN channel

(* The inductive invariant. *)
IInv ==
    /\ Shape /\ ConnectionsOK /\ ChannelsOK /\ PushesOwned
    /\ permits \in Nat /\ PermitsBalance

-----------------------------------------------------------------------------
(* What a step of serve_framed leaves on connection c: phase p, n frames   *)
(* taken, answers a and v written; the others are left alone.              *)
Moves(c, p, n, a, v) ==
    /\ UNCHANGED <<script, sent, open, committed>>
    /\ phase' \in [Conns -> Phases] /\ consumed' \in [Conns -> Nat]
    /\ DOMAIN answer' = Conns /\ DOMAIN wire' = Conns
    /\ phase'[c] = p /\ consumed'[c] = n /\ answer'[c] = a /\ wire'[c] = v
    /\ \A d \in Conns \ {c} : /\ phase'[d] = phase[d] /\ consumed'[d] = consumed[d]
                              /\ answer'[d] = answer[d] /\ wire'[d] = wire[d]

(* What serve_framed may write: nothing, or a frame that is no record. *)
Adds(w, v) == v = w \/ \E e : e.sub = 0 /\ Extended(w, v, e)

(* The permit is returned when the connection ends. *)
Returns(p) ==
    \/ p = "closed" /\ permits' = permits + 1 /\ active' = active - 1
    \/ p \in Phases \ {"free", "closed"} /\ UNCHANGED <<permits, active>>

MovesWell(c, p, n, a, v) ==
    /\ Moves(c, p, n, a, v)
    /\ n \in {consumed[c], consumed[c] + 1} /\ n <= sent[c]
    /\ ConnectionOK(script[c], open[c], p, n, a, v)
    /\ Adds(wire[c], v) /\ Returns(p)

StepOK(c) == \E p, n, a, v : MovesWell(c, p, n, a, v)

LEMMA ReplyIsAdded ==
    ASSUME NEW w, NEW f, NEW k, IsSeq(w)
    PROVE  Adds(w, w \o <<Reply(f, k)>>)
BY OneMore, EntryFields, SMTT(30) DEF Adds

LEMMA NextFrameIs ==
    ASSUME NEW c \in Conns, Shape
    PROVE  /\ consumed[c] \in Nat /\ sent[c] \in Nat /\ phase[c] \in Phases
           /\ HasFrame(c) => consumed[c] + 1 <= sent[c] /\ NextFrame(c) \in SentFrame
           /\ consumed[c] <= sent[c]
<1>1. /\ consumed[c] \in Nat /\ sent[c] \in Nat /\ phase[c] \in Phases
      /\ consumed[c] <= sent[c] /\ sent[c] <= Len(script[c]) /\ script[c] \in Seq(SentFrame)
  BY DEF Shape
<1>2. ASSUME HasFrame(c) PROVE consumed[c] + 1 <= sent[c] /\ NextFrame(c) \in SentFrame
  <2>1. consumed[c] < sent[c]
    BY <1>2 DEF HasFrame
  <2> HIDE DEF SentFrame
  <2>2. QED
    BY <1>1, <2>1, SMTT(30) DEF NextFrame
<1>3. QED
  BY <1>1, <1>2

LEMMA VerdictIs ==
    ASSUME NEW c \in Conns, Shape, HasFrame(c)
    PROVE  LET expected == IF phase[c] = "startup" THEN "Startup" ELSE "Auth" IN
           /\ Verdict(c) \in {"drop", "Error", "AuthError", "accept"}
           /\ Verdict(c) = "accept" => Opened(script[c], consumed[c] + 1, expected)
<1> DEFINE expected == IF phase[c] = "startup" THEN "Startup" ELSE "Auth"
<1>1. NextFrame(c) \in SentFrame
  BY NextFrameIs
<1>2. NextFrame(c).body \in {"ok", "garbled", "refused"}
  BY <1>1, SMTT(30) DEF SentFrame
<1>3. Verdict(c) \in {"drop", "Error", "AuthError", "accept"}
  BY SMTT(30) DEF Verdict
<1>4. Verdict(c) = "accept" => NextFrame(c).tag = expected /\ NextFrame(c).body = "ok"
  BY <1>2, SMTT(30) DEF Verdict
<1>5. QED
  BY <1>3, <1>4 DEF Opened, NextFrame

LEMMA HandshakeMoves ==
    ASSUME IInv, NEW c \in Conns, Handshake(c)
    PROVE  StepOK(c)
<1> DEFINE n == consumed[c]
           w == wire[c]
           Conn(p, m, a, v) == ConnectionOK(script[c], open[c], p, m, a, v)
<1>1. /\ Shape /\ Conn(phase[c], n, answer[c], w) /\ phase[c] \in {"startup", "auth"} /\ HasFrame(c)
      /\ Take(c)
  BY DEF IInv, ConnectionsOK, Handshake
<1>2. n \in Nat /\ n + 1 <= sent[c] /\ n + 1 \in {n, n + 1} /\ n + 1 \in Nat /\ IsSeq(w)
  BY <1>1, NextFrameIs, SMTT(30) DEF ConnectionOK
<1>3. /\ UNCHANGED <<script, sent, open, committed>> /\ consumed' \in [Conns -> Nat]
      /\ consumed'[c] = n + 1 /\ \A d \in Conns \ {c} : consumed'[d] = consumed[d]
  BY <1>1, <1>2 DEF Handshake, client, Take, Shape
<1>4. ASSUME End(c)
      PROVE  /\ phase' \in [Conns -> Phases] /\ phase'[c] = "closed" /\ Returns("closed")
             /\ DOMAIN answer' = Conns /\ answer'[c] = <<>>
             /\ \A d \in Conns \ {c} : phase'[d] = phase[d] /\ answer'[d] = answer[d]
  <2>1. "closed" \in Phases
    BY DEF Phases
  <2>2. QED
    BY <1>1, <1>4, <2>1 DEF End, Shape, Returns
<1>5. ASSUME NEW v, wire' = [wire EXCEPT ![c] = v]
      PROVE  DOMAIN wire' = Conns /\ wire'[c] = v /\ \A d \in Conns \ {c} : wire'[d] = wire[d]
  BY <1>1, <1>5 DEF Shape
<1>6. ASSUME UNCHANGED wire, End(c) PROVE StepOK(c)
  <2>1. Moves(c, "closed", n + 1, <<>>, w)
    BY <1>1, <1>3, <1>4, <1>6 DEF Moves, Shape
  <2>2. Conn("closed", n + 1, <<>>, w)
    BY <1>1, <1>2, ClosedOK
  <2>3. MovesWell(c, "closed", n + 1, <<>>, w)
    BY <1>2, <1>4, <1>6, <2>1, <2>2 DEF MovesWell, Adds
  <2>4. QED
    BY <2>3 DEF StepOK
<1>7. CASE Verdict(c) = "drop" /\ UNCHANGED wire /\ End(c)
  BY <1>6, <1>7
<1>8. CASE /\ Verdict(c) \in {"Error", "AuthError"}
           /\ BestEffort(c, <<Reply(ServerFrame(Verdict(c), 0), Position(c))>>)
           /\ End(c)
  <2> DEFINE v == w \o <<Reply(ServerFrame(Verdict(c), 0), n + 1)>>
  <2>1. CASE wire' = [wire EXCEPT ![c] = v]
    <3>1. Moves(c, "closed", n + 1, <<>>, v)
      BY <1>3, <1>4, <1>5, <1>8, <2>1 DEF Moves
    <3>2. Conn("closed", n + 1, <<>>, v)
      BY <1>1, <1>8, RefusedOK
    <3>3. Adds(w, v)
      BY <1>2, ReplyIsAdded
    <3>4. MovesWell(c, "closed", n + 1, <<>>, v)
      BY <1>2, <1>4, <1>8, <3>1, <3>2, <3>3 DEF MovesWell
    <3>5. QED
      BY <3>4 DEF StepOK
  <2>2. QED
    BY <1>6, <1>8, <2>1 DEF BestEffort, Written, Position
<1>9. CASE /\ Verdict(c) = "accept" /\ phase[c] = "startup"
           /\ phase' = [phase EXCEPT ![c] = "auth"]
           /\ UNCHANGED <<wire, answer, server>>
  <2>1. "auth" \in Phases \ {"free", "closed"}
    BY SMTT(30) DEF Phases
  <2>2. Moves(c, "auth", n + 1, answer[c], w)
    BY <1>1, <1>3, <1>9, <2>1 DEF Moves, Shape
  <2>3. n = 0 /\ n + 1 = 1
    BY <1>1, <1>9, SMTT(30) DEF ConnectionOK, Greets
  <2>4. Opened(script[c], 1, "Startup")
    BY <1>1, <1>9, <2>3, VerdictIs
  <2>5. Conn("auth", n + 1, answer[c], w)
    BY <1>1, <1>9, <2>4, StartedOK
  <2>6. MovesWell(c, "auth", n + 1, answer[c], w)
    BY <1>2, <1>9, <2>1, <2>2, <2>5 DEF MovesWell, Adds, Returns, server
  <2>7. QED
    BY <2>6 DEF StepOK
<1>10. CASE /\ Verdict(c) = "accept" /\ phase[c] = "auth"
            /\ Written(c, <<Reply(ServerFrame("AuthOk", 0), Position(c))>>)
            /\ phase' = [phase EXCEPT ![c] = "ready"]
            /\ UNCHANGED <<answer, server>>
  <2> DEFINE v == w \o <<Reply(ServerFrame("AuthOk", 0), n + 1)>>
  <2>1. "ready" \in Phases \ {"free", "closed"} /\ wire' = [wire EXCEPT ![c] = v]
    BY <1>10, SMTT(30) DEF Phases, Written, Position
  <2>2. Moves(c, "ready", n + 1, answer[c], v)
    BY <1>1, <1>3, <1>5, <1>10, <2>1 DEF Moves, Shape
  <2>3. n = 1 /\ n + 1 = 2
    BY <1>1, <1>10, SMTT(30) DEF ConnectionOK, Greets
  <2>4. Opened(script[c], 2, "Auth")
    BY <1>1, <1>10, <2>3, VerdictIs, SMTT(30)
  <2>5. Conn("ready", n + 1, answer[c], v)
    BY <1>1, <1>10, <2>4, AuthenticatedOK
  <2>6. Adds(w, v)
    BY <1>2, ReplyIsAdded
  <2>7. MovesWell(c, "ready", n + 1, answer[c], v)
    BY <1>2, <1>10, <2>1, <2>2, <2>5, <2>6 DEF MovesWell, Returns, server
  <2>8. QED
    BY <2>7 DEF StepOK
<1>11. CASE /\ Verdict(c) = "accept" /\ phase[c] = "auth"
            /\ MayFail(c) /\ UNCHANGED wire /\ End(c)
  BY <1>6, <1>11
<1>12. QED
  BY <1>7, <1>8, <1>9, <1>10, <1>11 DEF Handshake

(* A frame of the request loop. *)
LEMMA TakeFrameMoves ==
    ASSUME IInv, NEW c \in Conns, TakeFrame(c)
    PROVE  StepOK(c)
<1> DEFINE n == consumed[c]
           w == wire[c]
           frame == NextFrame(c)
           Conn(p, m, a, v) == ConnectionOK(script[c], open[c], p, m, a, v)
<1>1. /\ Shape /\ Conn("loop", n, answer[c], w) /\ phase[c] = "loop" /\ HasFrame(c) /\ Take(c)
      /\ permits' = permits /\ active' = active /\ frame = script[c][n + 1]
      /\ frame.tag \notin {"Terminate", "Malformed"}
  BY DEF IInv, ConnectionsOK, TakeFrame, AtLoopTop, server, NextFrame
<1>2. n \in Nat /\ n + 1 <= sent[c] /\ n + 1 \in {n, n + 1} /\ n + 1 \in Nat /\ IsSeq(w)
  BY <1>1, NextFrameIs, SMTT(30) DEF ConnectionOK
<1>3. /\ UNCHANGED <<script, sent, open, committed>> /\ consumed' \in [Conns -> Nat]
      /\ consumed'[c] = n + 1 /\ \A d \in Conns \ {c} : consumed'[d] = consumed[d]
  BY <1>1, <1>2, SMTT(30) DEF TakeFrame, client, Take, Shape
<1>4. /\ Working \subseteq Phases \ {"free", "closed"} /\ "loop" \in Working
      /\ "work" \in Working /\ "reply" \in Working
  BY SMTT(30) DEF Working, Phases
<1>5. CASE frame.tag = "Subscribe" /\ frame.body = "ok" /\ handle_subscribe(c, frame)
  <2> DEFINE a == <<Reply(ResultFrame("Subscribe", n + 1), n + 1)>>
  <2>1. /\ answer' = [answer EXCEPT ![c] = a] /\ phase' = [phase EXCEPT ![c] = "reply"]
        /\ wire' = wire
    BY <1>5 DEF handle_subscribe, Position
  <2>2. Moves(c, "reply", n + 1, a, w)
    BY <1>1, <1>3, <1>4, <2>1 DEF Moves, Shape
  <2>3. ResultFrame("Subscribe", n + 1).tag \in ReplyTags
    BY FrameTags DEF ReplyTags
  <2>4. AnswerFor(script[c], n + 1, a)
    BY <2>3 DEF AnswerFor
  <2> HIDE DEF a
  <2>5. Conn("reply", n + 1, a, w)
    BY <1>1, <1>4, <2>4, TakenOK
  <2>6. MovesWell(c, "reply", n + 1, a, w)
    BY <1>1, <1>2, <1>4, <2>2, <2>5 DEF MovesWell, Adds, Returns
  <2>7. QED
    BY <2>6 DEF StepOK
<1>6. CASE frame.tag = "Unsubscribe" /\ frame.body = "ok" /\ handle_unsubscribe(c, frame)
  <2>1. UNCHANGED <<wire, phase, answer>> /\ ~Owes(script[c][n + 1])
    BY <1>1, <1>6, SMTT(30) DEF handle_unsubscribe, Owes
  <2>2. Moves(c, "loop", n + 1, answer[c], w)
    BY <1>1, <1>3, <2>1 DEF Moves, Shape
  <2>3. Conn("loop", n + 1, answer[c], w)
    BY <1>1, <1>4, <2>1, TakenOK
  <2>4. MovesWell(c, "loop", n + 1, answer[c], w)
    BY <1>1, <1>2, <1>4, <2>2, <2>3 DEF MovesWell, Adds, Returns
  <2>5. QED
    BY <2>4 DEF StepOK
<1>7. CASE RefuseSubscription(c)
  <2> DEFINE v == w \o <<Reply(make_error_frame, n + 1)>>
  <2>1. UNCHANGED <<phase, answer>>
    BY <1>7 DEF RefuseSubscription
  <2>2. CASE wire' = [wire EXCEPT ![c] = v]
    <3>1. Moves(c, "loop", n + 1, answer[c], v)
      BY <1>1, <1>3, <2>1, <2>2 DEF Moves, Shape
    <3>2. make_error_frame.tag \in ReplyTags /\ Done("loop", n) = n
      BY FrameTags, SMTT(30) DEF ReplyTags, Done
    <3>3. Conn("loop", n + 1, answer[c], v)
      BY <1>1, <1>4, <3>2, RepliedOK
    <3>4. Adds(w, v)
      BY <1>2, ReplyIsAdded
    <3>5. MovesWell(c, "loop", n + 1, answer[c], v)
      BY <1>1, <1>2, <1>4, <3>1, <3>3, <3>4 DEF MovesWell, Returns
    <3>6. QED
      BY <3>5 DEF StepOK
  <2>3. CASE MayFail(c) /\ UNCHANGED wire
    <3>1. Moves(c, "loop", n + 1, answer[c], w)
      BY <1>1, <1>3, <2>1, <2>3 DEF Moves, Shape
    <3>2. Conn("loop", n + 1, answer[c], w)
      BY <1>1, <1>4, <2>3, TakenOK DEF MayFail
    <3>3. MovesWell(c, "loop", n + 1, answer[c], w)
      BY <1>1, <1>2, <1>4, <3>1, <3>2 DEF MovesWell, Adds, Returns
    <3>4. QED
      BY <3>3 DEF StepOK
  <2>4. QED
    BY <1>7, <2>2, <2>3 DEF RefuseSubscription, BestEffort, Written, Position
<1>8. CASE phase' = [phase EXCEPT ![c] = "work"] /\ UNCHANGED <<wire, answer>>
  <2>1. Moves(c, "work", n + 1, answer[c], w)
    BY <1>1, <1>3, <1>4, <1>8 DEF Moves, Shape
  <2>2. Conn("work", n + 1, answer[c], w)
    BY <1>1, <1>4, TakenOK
  <2>3. MovesWell(c, "work", n + 1, answer[c], w)
    BY <1>1, <1>2, <1>4, <2>1, <2>2 DEF MovesWell, Adds, Returns
  <2>4. QED
    BY <2>3 DEF StepOK
<1>9. QED
  BY <1>5, <1>6, <1>7, <1>8 DEF TakeFrame

LEMMA WorkMoves ==
    ASSUME IInv, NEW c \in Conns, Work(c)
    PROVE  StepOK(c)
<1> DEFINE n == consumed[c]
           w == wire[c]
           s == script[c]
<1>1. /\ Shape /\ ConnectionOK(s, open[c], "work", n, answer[c], w)
      /\ permits' = permits /\ active' = active
  BY DEF IInv, ConnectionsOK, Work, server
<1>2. n \in Nat /\ n <= sent[c]
  BY <1>1, NextFrameIs
<1>3. PICK frames \in {<<make_error_frame>>} \cup {handle_frame(s[n], n, outcome) : outcome \in Outcomes} :
          answer' = [answer EXCEPT ![c] = [i \in DOMAIN frames |-> Reply(frames[i], n)]]
  BY DEF Work
<1> DEFINE a == [i \in DOMAIN frames |-> Reply(frames[i], n)]
<1>4. AnswerFor(s, n, a)
  <2>1. \/ frames = <<>> /\ s[n].tag = "Ack"
        \/ \E f : frames = <<f>> /\ f.tag \in ReplyTags
    <3>1. make_error_frame.tag \in ReplyTags
      BY FrameTags DEF ReplyTags
    <3>2. CASE frames = <<make_error_frame>>
      BY <3>1, <3>2
    <3>3. ASSUME NEW outcome \in Outcomes, frames = handle_frame(s[n], n, outcome)
          PROVE  \/ frames = <<>> /\ s[n].tag = "Ack"
                 \/ \E f : frames = <<f>> /\ f.tag \in ReplyTags
      BY <3>3, HandledFrame
    <3>4. QED
      BY <3>2, <3>3
  <2>2. CASE frames = <<>> /\ s[n].tag = "Ack"
    <3>1. a = <<>>
      BY <2>2, SMTT(30)
    <3>2. ~Owes(s[n])
      BY <2>2 DEF Owes
    <3>3. QED
      BY <3>1, <3>2 DEF AnswerFor
  <2>3. ASSUME NEW f, frames = <<f>>, f.tag \in ReplyTags PROVE AnswerFor(s, n, a)
    <3>1. a = <<Reply(f, n)>>
      BY <2>3, SMTT(30)
    <3>2. QED
      BY <2>3, <3>1 DEF AnswerFor
  <2>4. QED
    BY <2>1, <2>2, <2>3
<1>5. "reply" \in Phases \ {"free", "closed"}
  BY SMTT(30) DEF Phases
<1>6. Moves(c, "reply", n, a, w)
  BY <1>1, <1>3, <1>5 DEF Moves, Shape, Work, client
<1> HIDE DEF a
<1>7. ConnectionOK(s, open[c], "reply", n, a, w)
  BY <1>1, <1>4, WorkedOK
<1>8. MovesWell(c, "reply", n, a, w)
  BY <1>1, <1>2, <1>5, <1>6, <1>7 DEF MovesWell, Adds, Returns
<1>9. QED
  BY <1>8 DEF StepOK

(* serve_framed returns without writing. *)
LEMMA EndMoves ==
    ASSUME IInv, NEW c \in Conns, phase[c] \in {"startup", "auth", "ready"} \cup Working, End(c),
           UNCHANGED <<script, sent, open, wire, committed>>,
           UNCHANGED consumed \/ (HasFrame(c) /\ Take(c)), phase[c] = "ready" => UNCHANGED consumed
    PROVE  StepOK(c)
<1> DEFINE n == consumed[c]
           m == consumed'[c]
<1>1. Shape /\ ConnectionOK(script[c], open[c], phase[c], n, answer[c], wire[c])
  BY DEF IInv, ConnectionsOK
<1>2. /\ n \in Nat /\ n <= sent[c] /\ (HasFrame(c) => n + 1 <= sent[c])
      /\ consumed \in [Conns -> Nat] /\ n + 1 \in Nat
  <2>1. /\ n \in Nat /\ n <= sent[c] /\ (HasFrame(c) => n + 1 <= sent[c])
        /\ consumed \in [Conns -> Nat]
    BY <1>1, NextFrameIs DEF Shape
  <2> HIDE DEF n
  <2>2. n + 1 \in Nat
    BY <2>1, SMTT(30)
  <2>3. QED
    BY <2>1, <2>2
<1>3. /\ consumed' \in [Conns -> Nat] /\ m \in {n, n + 1} /\ m <= sent[c]
      /\ \A d \in Conns \ {c} : consumed'[d] = consumed[d]
      /\ phase[c] = "ready" => m = n
  BY <1>2 DEF Take
<1>4. "closed" \in Phases
  BY DEF Phases
<1>5. Moves(c, "closed", m, <<>>, wire[c])
  BY <1>1, <1>3, <1>4 DEF Moves, Shape, End
<1>6. ConnectionOK(script[c], open[c], "closed", m, <<>>, wire[c])
  BY <1>1, <1>3, ClosedOK
<1>7. MovesWell(c, "closed", m, <<>>, wire[c])
  BY <1>3, <1>5, <1>6 DEF MovesWell, Adds, Returns, End
<1>8. QED
  BY <1>7 DEF StepOK

LEMMA WriteReadyMoves ==
    ASSUME IInv, NEW c \in Conns, WriteReady(c)
    PROVE  StepOK(c)
<1> DEFINE n == consumed[c]
           w == wire[c]
           a == answer[c]
           v == w \o <<Reply(ServerFrame("Ready", 0), n)>>
<1>1. /\ Shape /\ ConnectionOK(script[c], open[c], "ready", n, a, w) /\ phase[c] = "ready"
      /\ UNCHANGED <<script, sent, open, consumed, committed>>
  BY DEF IInv, ConnectionsOK, WriteReady, client
<1>2. n \in Nat /\ n <= sent[c] /\ IsSeq(w)
  BY <1>1, NextFrameIs DEF ConnectionOK
<1>3. "loop" \in Phases \ {"free", "closed"}
  BY SMTT(30) DEF Phases
<1>4. CASE /\ Written(c, <<Reply(ServerFrame("Ready", 0), consumed[c])>>)
           /\ phase' = [phase EXCEPT ![c] = "loop"] /\ UNCHANGED <<answer, server>>
  <2>1. Moves(c, "loop", n, a, v)
    BY <1>1, <1>3, <1>4 DEF Moves, Shape, Written
  <2>2. ConnectionOK(script[c], open[c], "loop", n, a, v)
    BY <1>1, ReadyOK
  <2>3. Adds(w, v)
    BY <1>2, ReplyIsAdded
  <2>4. permits' = permits /\ active' = active
    BY <1>4 DEF server
  <2> HIDE DEF v
  <2>5. MovesWell(c, "loop", n, a, v)
    BY <1>2, <1>3, <2>1, <2>2, <2>3, <2>4 DEF MovesWell, Returns
  <2>6. QED
    BY <2>5 DEF StepOK
<1>5. CASE End(c) /\ UNCHANGED wire
  BY <1>1, <1>5, EndMoves
<1>6. QED
  BY <1>4, <1>5 DEF WriteReady

LEMMA WriteAnswersMoves ==
    ASSUME IInv, NEW c \in Conns, WriteAnswers(c)
    PROVE  StepOK(c)
<1> DEFINE n == consumed[c]
           w == wire[c]
           a == answer[c]
           v == w \o a
<1>1. /\ Shape /\ ConnectionOK(script[c], open[c], "reply", n, a, w) /\ phase[c] = "reply"
      /\ UNCHANGED <<script, sent, open, consumed, committed>>
  BY DEF IInv, ConnectionsOK, WriteAnswers, client
<1>2. n \in Nat /\ n <= sent[c] /\ IsSeq(w)
  BY <1>1, NextFrameIs DEF ConnectionOK
<1>3. "loop" \in Phases \ {"free", "closed"} /\ "reply" \in Working
  BY SMTT(30) DEF Phases, Working
<1>4. CASE /\ Written(c, a) /\ phase' = [phase EXCEPT ![c] = "loop"]
           /\ answer' = [answer EXCEPT ![c] = <<>>] /\ UNCHANGED server
  <2>1. Moves(c, "loop", n, <<>>, v)
    BY <1>1, <1>3, <1>4 DEF Moves, Shape, Written
  <2>2. ConnectionOK(script[c], open[c], "loop", n, <<>>, v)
    BY <1>1, WrittenOK
  <2>3. Adds(w, v)
    <3>1. AnswerFor(script[c], n, a)
      BY <1>1 DEF ConnectionOK, Answers
    <3>2. CASE a = <<>>
      BY <1>2, <3>2, NothingMore DEF Adds
    <3>3. ASSUME NEW f, a = <<Reply(f, n)>> PROVE Adds(w, v)
      BY <1>2, <3>3, ReplyIsAdded
    <3>4. QED
      BY <3>1, <3>2, <3>3 DEF AnswerFor
  <2>4. permits' = permits /\ active' = active
    BY <1>4 DEF server
  <2> HIDE DEF v
  <2>5. MovesWell(c, "loop", n, <<>>, v)
    BY <1>2, <1>3, <2>1, <2>2, <2>3, <2>4 DEF MovesWell, Returns
  <2>6. QED
    BY <2>5 DEF StepOK
<1>5. CASE End(c) /\ UNCHANGED wire
  BY <1>1, <1>3, <1>5, EndMoves
<1>6. QED
  BY <1>4, <1>5 DEF WriteAnswers

LEMMA AbandonMoves ==
    ASSUME IInv, NEW c \in Conns, Abandon(c)
    PROVE  StepOK(c)
BY EndMoves DEF Abandon, client

LEMMA CleanUpMoves ==
    ASSUME IInv, NEW c \in Conns, CleanUp(c)
    PROVE  StepOK(c)
<1>1. phase[c] \in Working /\ phase[c] # "ready" /\ End(c) /\ UNCHANGED <<script, sent, open, wire, committed>>
  BY DEF CleanUp, client, Working
<1>2. UNCHANGED consumed \/ (HasFrame(c) /\ Take(c))
  BY DEF CleanUp
<1>3. QED
  BY <1>1, <1>2, EndMoves

(* Every step of serve_framed does well by its connection. *)
LEMMA ServerMoves ==
    ASSUME IInv, NEW c \in Conns, ServerStep(c)
    PROVE  StepOK(c) /\ phase[c] \in {"startup", "auth", "ready"} \cup Working
<1>1. StepOK(c)
  BY HandshakeMoves, WriteReadyMoves, TakeFrameMoves, WorkMoves, WriteAnswersMoves, AbandonMoves, CleanUpMoves
     DEF ServerStep
<1>2. phase[c] \in {"startup", "auth", "ready"} \cup Working
  BY SMTT(30) DEF ServerStep, Handshake, WriteReady, TakeFrame, AtLoopTop, Work, WriteAnswers, Abandon, CleanUp, Working
<1>3. QED
  BY <1>1, <1>2

-----------------------------------------------------------------------------
LEMMA MovesKeepShape ==
    ASSUME IInv, NEW c \in Conns, NEW p, NEW n, NEW a, NEW v, MovesWell(c, p, n, a, v)
    PROVE  /\ Shape' /\ ConnectionsOK'
           /\ \A d \in Conns : consumed[d] <= consumed'[d]
           /\ \A d \in Conns : Greeted(script[d], consumed[d], wire[d])
                                 => Greeted(script'[d], consumed'[d], wire'[d])
<1>1. Shape /\ ConnectionsOK /\ Moves(c, p, n, a, v)
  BY DEF IInv, MovesWell
<1>2. \A d \in Conns : consumed'[d] <= sent[d] /\ consumed[d] \in Nat /\ sent[d] <= Len(script[d])
  BY <1>1 DEF MovesWell, Moves, Shape
<1>3. Shape'
  BY <1>1, <1>2 DEF Moves, Shape
<1>4. ConnectionsOK'
  BY <1>1 DEF MovesWell, Moves, ConnectionsOK
<1>5. \A d \in Conns : consumed[d] <= consumed'[d]
  <2>1. consumed[c] <= consumed'[c]
    BY <1>2, SMTT(30) DEF MovesWell, Moves
  <2>2. \A d \in Conns \ {c} : consumed[d] <= consumed'[d]
    BY <1>2, SMTT(30) DEF MovesWell, Moves
  <2>3. QED
    BY <2>1, <2>2
<1>6. ASSUME NEW d \in Conns, Greeted(script[d], consumed[d], wire[d])
      PROVE  Greeted(script'[d], consumed'[d], wire'[d])
  <2>1. {1, 2} \subseteq DOMAIN wire[d]
    BY <1>6 DEF Greeted
  <2>2. \A i \in DOMAIN wire[d] : i \in DOMAIN wire'[d] /\ wire'[d][i] = wire[d][i]
    <3>1. CASE d # c
      BY <3>1 DEF MovesWell, Moves
    <3>2. CASE d = c
      BY <2>1, <3>2 DEF MovesWell, Moves, Adds, Extended
    <3>3. QED
      BY <3>1, <3>2
  <2>3. consumed'[d] >= 2
    BY <1>2, <1>3, <1>5, <1>6, SMTT(30) DEF Greeted, Shape
  <2>4. QED
    BY <1>1, <1>6, <2>1, <2>2, <2>3 DEF Greeted, Moves
<1>7. QED
  BY <1>3, <1>4, <1>5, <1>6

(* What serve_framed writes belongs to no subscription. *)
LEMMA MovesKeepChannels ==
    ASSUME IInv, NEW c \in Conns, NEW p, NEW n, NEW a, NEW v, MovesWell(c, p, n, a, v)
    PROVE  /\ \A h \in DOMAIN channel : ChannelOK(wire'[h[1]], h[2], channel[h], committed')
           /\ \A d \in Conns : \A i \in DOMAIN wire'[d] :
                 wire'[d][i].sub # 0 => <<d, wire'[d][i].sub>> \in DOMAIN channel
<1>1. Moves(c, p, n, a, v) /\ Adds(wire[c], v) /\ committed' = committed
  BY DEF MovesWell, Moves
<1>2. ASSUME NEW h \in DOMAIN channel
      PROVE  ChannelOK(wire'[h[1]], h[2], channel[h], committed)
  <2>1. /\ h[1] \in Conns /\ h[2] \in 1..consumed[h[1]]
        /\ Greeted(script[h[1]], consumed[h[1]], wire[h[1]])
        /\ ChannelOK(wire[h[1]], h[2], channel[h], committed)
    BY DEF IInv, ChannelsOK
  <2>2. CASE wire'[h[1]] = wire[h[1]]
    BY <2>1, <2>2
  <2>3. ASSUME h[1] = c, NEW e, e.sub = 0, Extended(wire[c], v, e)
        PROVE  ChannelOK(v, h[2], channel[h], committed)
    <3>1. h[2] # 0
      <4>1. \A m : 0 \notin 1..m
        BY SMTT(30)
      <4>2. QED
        BY <2>1, <4>1
    <3>2. QED
      BY <2>1, <2>3, <3>1, OthersWrite
  <2>4. QED
    BY <1>1, <2>1, <2>2, <2>3 DEF Moves, Adds
<1>3. ASSUME NEW d \in Conns, NEW i \in DOMAIN wire'[d], wire'[d][i].sub # 0
      PROVE  <<d, wire'[d][i].sub>> \in DOMAIN channel
  <2>1. i \in DOMAIN wire[d] /\ wire[d][i].sub = wire'[d][i].sub
    <3>1. CASE wire'[d] = wire[d]
      BY <1>3, <3>1
    <3>2. ASSUME d = c, NEW e, e.sub = 0, Extended(wire[c], v, e)
          PROVE  i \in DOMAIN wire[d] /\ wire[d][i].sub = wire'[d][i].sub
      BY <1>1, <1>3, <3>2 DEF Moves, Extended
    <3>3. QED
      BY <1>1, <3>1, <3>2 DEF Moves, Adds
  <2>2. QED
    BY <1>3, <2>1 DEF IInv, PushesOwned
<1>4. QED
  BY <1>1, <1>2, <1>3

(* What a step of serve_framed does to the subscriptions: nothing, an      *)
(* unsubscription, or a new one.                                           *)
LEMMA ServerChannels ==
    ASSUME NEW c \in Conns, ServerStep(c)
    PROVE  \/ UNCHANGED channel
           \/ \E ids : channel' = Unregistered(ids)
           \/ \E frame : /\ handle_subscribe(c, frame) /\ Take(c)
BY DEF ServerStep, Handshake, WriteReady, TakeFrame, handle_unsubscribe, RefuseSubscription,
       Work, WriteAnswers, Abandon, CleanUp

LEMMA UnregisteredChannels ==
    ASSUME NEW ids, NEW h \in DOMAIN channel, NEW w, NEW m, ChannelOK(w, h[2], channel[h], m)
    PROVE  /\ DOMAIN Unregistered(ids) = DOMAIN channel
           /\ ChannelOK(w, h[2], Unregistered(ids)[h], m)
<1>1. \/ Unregistered(ids)[h] = channel[h]
      \/ Unregistered(ids)[h] = [channel[h] EXCEPT !.registered = FALSE]
  BY DEF Unregistered
<1>2. QED
  BY <1>1, UnregisteredOK DEF Unregistered

LEMMA ServerKeepsChannels ==
    ASSUME IInv, NEW c \in Conns, ServerStep(c)
    PROVE  ChannelsOK' /\ PushesOwned'
<1>1. PICK p, n, a, v : MovesWell(c, p, n, a, v)
  BY ServerMoves DEF StepOK
<1>2. /\ \A h \in DOMAIN channel : ChannelOK(wire'[h[1]], h[2], channel[h], committed')
      /\ \A d \in Conns : \A i \in DOMAIN wire'[d] :
            wire'[d][i].sub # 0 => <<d, wire'[d][i].sub>> \in DOMAIN channel
  BY <1>1, MovesKeepChannels
<1>3. /\ Shape /\ Shape' /\ ConnectionsOK'
      /\ \A d \in Conns : consumed[d] <= consumed'[d]
      /\ \A d \in Conns : Greeted(script[d], consumed[d], wire[d])
                            => Greeted(script'[d], consumed'[d], wire'[d])
  BY <1>1, MovesKeepShape DEF IInv
<1>4. ASSUME NEW h \in DOMAIN channel
      PROVE  /\ h \in Conns \X Nat /\ h[2] \in 1..consumed'[h[1]]
             /\ Greeted(script'[h[1]], consumed'[h[1]], wire'[h[1]])
  <2>1. h \in Conns \X Nat /\ h[1] \in Conns /\ h[2] \in 1..consumed[h[1]]
        /\ Greeted(script[h[1]], consumed[h[1]], wire[h[1]])
    BY DEF IInv, ChannelsOK
  <2>2. consumed[h[1]] \in Nat /\ consumed'[h[1]] \in Nat /\ consumed[h[1]] <= consumed'[h[1]]
    BY <1>3, <2>1 DEF Shape
  <2>3. \A i, j \in Nat : i <= j => 1..i \subseteq 1..j
    BY SMTT(30)
  <2>4. QED
    BY <1>3, <2>1, <2>2, <2>3, SMTT(30)
<1>5. CASE UNCHANGED channel
  BY <1>2, <1>4, <1>5 DEF ChannelsOK, PushesOwned
<1>6. ASSUME NEW ids, channel' = Unregistered(ids)
      PROVE  ChannelsOK' /\ PushesOwned'
  <2>1. DOMAIN channel' = DOMAIN channel
    BY <1>6 DEF Unregistered
  <2>2. \A h \in DOMAIN channel : ChannelOK(wire'[h[1]], h[2], channel'[h], committed')
    BY <1>2, <1>6, UnregisteredChannels
  <2>3. QED
    BY <1>2, <1>4, <2>1, <2>2 DEF ChannelsOK, PushesOwned
<1>7. ASSUME NEW frame, handle_subscribe(c, frame), Take(c)
      PROVE  ChannelsOK' /\ PushesOwned'
  <2> DEFINE k == consumed[c] + 1
             g == <<c, k>>
             ch == [id |-> frame.id, registered |-> TRUE, forwarding |-> TRUE,
                    queue |-> <<>>, through |-> 0]
  <2>1. /\ DOMAIN channel' = DOMAIN channel \cup {g} /\ channel'[g] = ch
        /\ \A h \in DOMAIN channel \ {g} : channel'[h] = channel[h]
        /\ wire' = wire /\ phase' = [phase EXCEPT ![c] = "reply"]
        /\ consumed' = [consumed EXCEPT ![c] = k]
    BY <1>7 DEF handle_subscribe, Position, Take
  <2>2. /\ consumed[c] \in Nat /\ consumed'[c] = k /\ phase'[c] = "reply" /\ "reply" \in Working
    BY <1>3, <2>1 DEF Shape, Working
  <2>3. g \in Conns \X Nat /\ g[1] = c /\ g[2] = k /\ k \in 1..k /\ k \notin 1..consumed[c] /\ k # 0
    BY <2>2, SMTT(30)
  <2>4. g \notin DOMAIN channel
    BY <2>3 DEF IInv, ChannelsOK
  <2>5. Mine(wire'[c], k) = {}
    BY <1>2, <2>3, <2>4 DEF Mine
  <2>6. ChannelOK(wire'[c], k, ch, committed')
    BY <1>3, <2>5, NewChannelOK DEF Shape
  <2>7. Greeted(script'[c], consumed'[c], wire'[c])
    BY <1>3, <2>2 DEF ConnectionsOK, ConnectionOK, Greets
  <2> HIDE DEF g, ch, k
  <2>8. ASSUME NEW h \in DOMAIN channel'
        PROVE  /\ h \in Conns \X Nat /\ h[2] \in 1..consumed'[h[1]]
               /\ Greeted(script'[h[1]], consumed'[h[1]], wire'[h[1]])
               /\ ChannelOK(wire'[h[1]], h[2], channel'[h], committed')
    <3>1. CASE h = g
      BY <2>1, <2>2, <2>3, <2>6, <2>7, <3>1
    <3>2. CASE h \in DOMAIN channel \ {g}
      BY <1>2, <1>4, <2>1, <3>2
    <3>3. QED
      BY <2>1, <3>1, <3>2
  <2>9. QED
    BY <1>2, <2>1, <2>8 DEF ChannelsOK, PushesOwned
<1>8. QED
  BY <1>5, <1>6, <1>7, ServerChannels

-----------------------------------------------------------------------------
(* The permits. *)
Balanced == permits \in Nat /\ PermitsBalance

LEMMA LiveIsFinite == IsFiniteSet(Live) /\ Cardinality(Live) \in Nat
<1>1. IsFiniteSet(Conns) /\ Live \in SUBSET Conns
  BY SessionAssumption DEF Live
<1>2. IsFiniteSet(Live)
  BY <1>1, FS_Subset
<1>3. QED
  BY <1>2, FS_CardinalityType

LEMMA KeepsBalance ==
    ASSUME Balanced, Live' = Live, UNCHANGED <<permits, active>>
    PROVE  Balanced'
BY DEF Balanced, PermitsBalance

LEMMA EndBalances ==
    ASSUME Balanced, NEW c \in Live, Live' = Live \ {c}, permits' = permits + 1, active' = active - 1
    PROVE  Balanced'
<1>1. IsFiniteSet(Live) /\ Cardinality(Live) \in Nat
  BY LiveIsFinite
<1>2. Cardinality(Live \ {c}) = Cardinality(Live) - 1
  BY <1>1, FS_RemoveElement
<1> DEFINE k == Cardinality(Live)
<1>3. permits \in Nat /\ permits + k = MaxConnections /\ active = k /\ Cardinality(Live') = k - 1
  BY <1>2 DEF Balanced, PermitsBalance
<1> HIDE DEF k
<1>4. permits' \in Nat /\ permits' + (k - 1) = MaxConnections /\ active' = k - 1
  BY <1>1, <1>3, SMTT(30) DEF k
<1>5. QED
  BY <1>3, <1>4 DEF Balanced, PermitsBalance

LEMMA StartBalances ==
    ASSUME Balanced, NEW c, c \notin Live, Live' = Live \cup {c},
           permits > 0, permits' = permits - 1, active' = active + 1
    PROVE  Balanced'
<1>1. IsFiniteSet(Live) /\ Cardinality(Live) \in Nat
  BY LiveIsFinite
<1>2. Cardinality(Live \cup {c}) = Cardinality(Live) + 1
  BY <1>1, FS_AddElement
<1> DEFINE k == Cardinality(Live)
<1>3. permits \in Nat /\ permits + k = MaxConnections /\ active = k /\ Cardinality(Live') = k + 1
  BY <1>2 DEF Balanced, PermitsBalance
<1> HIDE DEF k
<1>4. permits' \in Nat /\ permits' + (k + 1) = MaxConnections /\ active' = k + 1
  BY <1>1, <1>3, SMTT(30) DEF k
<1>5. QED
  BY <1>3, <1>4 DEF Balanced, PermitsBalance

LEMMA ServerBalances ==
    ASSUME IInv, NEW c \in Conns, ServerStep(c)
    PROVE  Balanced'
<1>1. PICK p, n, a, v : MovesWell(c, p, n, a, v)
  BY ServerMoves DEF StepOK
<1>2. Balanced /\ c \in Live
  <2>1. {"startup", "auth", "ready"} \cup Working \subseteq Phases \ {"free", "closed"}
    BY SMTT(30) DEF Working, Phases
  <2>2. QED
    BY <2>1, ServerMoves DEF IInv, Balanced, Live
<1>3. phase'[c] = p /\ \A d \in Conns \ {c} : phase'[d] = phase[d]
  BY <1>1 DEF MovesWell, Moves
<1>4. CASE p = "closed" /\ permits' = permits + 1 /\ active' = active - 1
  <2>1. Live' = Live \ {c}
    BY <1>3, <1>4 DEF Live
  <2>2. QED
    BY <1>2, <1>4, <2>1, EndBalances
<1>5. CASE p \in Phases \ {"free", "closed"} /\ UNCHANGED <<permits, active>>
  <2>1. Live' = Live
    BY <1>2, <1>3, <1>5 DEF Live
  <2>2. QED
    BY <1>2, <1>5, <2>1, KeepsBalance
<1>6. QED
  BY <1>1, <1>4, <1>5 DEF MovesWell, Returns

LEMMA ServerStepOK ==
    ASSUME IInv, NEW c \in Conns, ServerStep(c)
    PROVE  IInv'
<1>1. Shape' /\ ConnectionsOK'
  BY ServerMoves, MovesKeepShape DEF StepOK
<1>2. ChannelsOK' /\ PushesOwned'
  BY ServerKeepsChannels
<1>3. QED
  BY <1>1, <1>2, ServerBalances DEF IInv, Balanced

-----------------------------------------------------------------------------
(* The client, the daemon and the accept loop. *)
LEMMA CommitOK ==
    ASSUME IInv, Commit
    PROVE  IInv'
<1>1. /\ UNCHANGED <<script, sent, open, phase, consumed, answer, wire, channel, permits, active>>
      /\ committed' = committed + 1 /\ committed \in Nat
  BY DEF Commit, client, server, IInv, Shape
<1>2. committed' \in Nat
  BY <1>1, SMTT(30)
<1>3. Shape' /\ ConnectionsOK' /\ PushesOwned' /\ permits' \in Nat /\ PermitsBalance'
  BY <1>1, <1>2 DEF IInv, Shape, ConnectionsOK, PushesOwned, PermitsBalance, Live
<1>4. ChannelsOK'
  BY <1>1, LogGrowsOK DEF IInv, ChannelsOK
<1>5. QED
  BY <1>3, <1>4 DEF IInv

LEMMA ClientSendOK ==
    ASSUME IInv, NEW c \in Conns, ClientSend(c)
    PROVE  IInv'
<1>1. /\ UNCHANGED <<script, open, phase, consumed, answer, wire, channel, permits, active, committed>>
      /\ sent' = [sent EXCEPT ![c] = @ + 1] /\ sent[c] < Len(script[c]) /\ Shape
  BY DEF ClientSend, server, IInv
<1>2. \A d \in Conns : consumed[d] \in Nat /\ sent[d] \in Nat /\ script[d] \in Seq(SentFrame)
                       /\ consumed[d] <= sent[d] /\ sent[d] <= Len(script[d])
  BY <1>1 DEF Shape
<1>3. sent[c] + 1 \in Nat /\ consumed[c] <= sent[c] + 1 /\ sent[c] + 1 <= Len(script[c])
  <2> HIDE DEF SentFrame
  <2>1. QED
    BY <1>1, <1>2, SMTT(30)
<1>4. sent' \in [Conns -> Nat] /\ \A d \in Conns : consumed[d] <= sent'[d] /\ sent'[d] <= Len(script[d])
  BY <1>1, <1>2, <1>3 DEF Shape
<1>5. Shape'
  BY <1>1, <1>4 DEF Shape
<1>6. QED
  BY <1>1, <1>5 DEF IInv, ConnectionsOK, ChannelsOK, PushesOwned, PermitsBalance, Live

LEMMA ClientCloseOK ==
    ASSUME IInv, NEW c \in Conns, ClientClose(c)
    PROVE  IInv'
<1>1. /\ UNCHANGED <<script, sent, phase, consumed, answer, wire, channel, permits, active, committed>>
      /\ open' = [open EXCEPT ![c] = FALSE] /\ DOMAIN open = Conns
  BY DEF ClientClose, server, IInv, Shape
<1>2. DOMAIN open' = Conns /\ open'[c] = FALSE /\ \A d \in Conns \ {c} : open'[d] = open[d]
  BY <1>1
<1>3. ConnectionsOK'
  BY <1>1, <1>2, GoneOK DEF IInv, ConnectionsOK
<1>4. QED
  BY <1>1, <1>2, <1>3 DEF IInv, Shape, ChannelsOK, PushesOwned, PermitsBalance, Live

LEMMA AcceptOK ==
    ASSUME IInv, NEW c \in Conns, Accept(c)
    PROVE  IInv'
<1>1. /\ UNCHANGED <<script, sent, open, consumed, answer, wire, channel, committed>>
      /\ phase[c] = "free" /\ Shape /\ Balanced /\ ConnectionsOK
  BY DEF Accept, client, IInv, Balanced
<1>2. PICK q \in {"startup", "closed"} : phase' = [phase EXCEPT ![c] = q]
  BY DEF Accept, TakePermit, Refuse
<1>3. /\ phase' \in [Conns -> Phases] /\ phase'[c] = q
      /\ \A d \in Conns \ {c} : phase'[d] = phase[d]
  <2>1. q \in Phases
    BY DEF Phases
  <2>2. QED
    BY <1>1, <1>2, <2>1 DEF Shape
<1>4. Shape' /\ ConnectionsOK'
  BY <1>1, <1>3, AcceptedOK DEF Shape, ConnectionsOK
<1>5. ChannelsOK' /\ PushesOwned'
  BY <1>1 DEF IInv, ChannelsOK, PushesOwned
<1>6. c \notin Live
  BY <1>1 DEF Live
<1>7. Balanced'
  <2>1. CASE TakePermit(c)
    <3>1. phase'[c] = "startup"
      BY <1>1, <2>1 DEF TakePermit, Shape
    <3>2. Live' = Live \cup {c}
      BY <1>3, <3>1, SMTT(30) DEF Live
    <3>3. QED
      BY <1>1, <1>6, <2>1, <3>2, StartBalances DEF TakePermit
  <2>2. CASE Refuse(c)
    <3>1. phase'[c] = "closed"
      BY <1>1, <2>2 DEF Refuse, Shape
    <3>2. Live' = Live
      BY <1>3, <1>6, <3>1 DEF Live
    <3>3. QED
      BY <1>1, <2>2, <3>2, KeepsBalance DEF Refuse
  <2>3. QED
    BY <2>1, <2>2 DEF Accept
<1>8. QED
  BY <1>4, <1>5, <1>7 DEF IInv, Balanced

-----------------------------------------------------------------------------
(* The dispatcher and the forwarders. *)
LEMMA DeliverOK ==
    ASSUME IInv, NEW g \in DOMAIN channel, Deliver(g)
    PROVE  IInv'
<1>1. UNCHANGED <<script, sent, open, phase, consumed, answer, wire, permits, active, committed>>
  BY DEF Deliver, client, server
<1>2. \A h \in DOMAIN channel : ChannelOK(wire[h[1]], h[2], channel[h], committed)
  BY DEF IInv, ChannelsOK
<1>3. /\ DOMAIN channel' = DOMAIN channel
      /\ \A h \in DOMAIN channel : ChannelOK(wire[h[1]], h[2], channel'[h], committed)
  <2>1. CASE ~channel[g].forwarding
    <3>1. channel' = Unregistered({channel[g].id})
      BY <2>1 DEF Deliver
    <3>2. DOMAIN channel' = DOMAIN channel
      BY <3>1 DEF Unregistered
    <3>3. QED
      BY <1>2, <3>1, <3>2, UnregisteredChannels
  <2>2. CASE channel[g].forwarding
    <3> DEFINE d == [channel[g] EXCEPT !.queue = Append(@, channel[g].through + 1), !.through = @ + 1]
    <3>1. /\ channel' = [channel EXCEPT ![g].queue = Append(@, channel[g].through + 1),
                                        ![g].through = @ + 1]
          /\ channel[g].through < committed
      BY <2>2 DEF Deliver
    <3>2. /\ DOMAIN channel' = DOMAIN channel /\ channel'[g] = d
          /\ \A h \in DOMAIN channel \ {g} : channel'[h] = channel[h]
      BY <3>1
    <3> HIDE DEF d
    <3>3. ChannelOK(wire[g[1]], g[2], d, committed)
      BY <1>2, <2>2, <3>1, DeliveredOK DEF d
    <3>4. QED
      BY <1>2, <3>2, <3>3
  <2>3. QED
    BY <2>1, <2>2
<1>4. QED
  BY <1>1, <1>3
     DEF IInv, Shape, ConnectionsOK, ChannelsOK, PushesOwned, PermitsBalance, Live

LEMMA ForwardOK ==
    ASSUME IInv, NEW g \in DOMAIN channel, Forward(g)
    PROVE  IInv'
<1> DEFINE c == g[1]
           k == g[2]
           w == wire[c]
           r == NextRecord(channel[g].queue)
           v == w \o <<Pushed(k, r)>>
<1>1. /\ UNCHANGED <<script, sent, open, phase, consumed, answer, permits, active, committed>>
      /\ channel[g].forwarding
  BY DEF Forward, client, server
<1>2. /\ g \in Conns \X Nat /\ c \in Conns /\ k \in 1..consumed[c] /\ g = <<c, k>>
      /\ Greeted(script[c], consumed[c], w)
      /\ ConnectionOK(script[c], open[c], phase[c], consumed[c], answer[c], w) /\ IsSeq(w)
      /\ \A h \in DOMAIN channel :
            /\ h \in Conns \X Nat /\ h = <<h[1], h[2]>>
            /\ ChannelOK(wire[h[1]], h[2], channel[h], committed)
  BY SMTT(30) DEF IInv, ChannelsOK, ConnectionsOK, ConnectionOK
<1>3. CASE /\ channel[g].queue # <<>> /\ Written(c, <<Pushed(k, r)>>)
           /\ channel' = [channel EXCEPT ![g].queue = Tail(@)]
  <2> DEFINE d == [channel[g] EXCEPT !.queue = Tail(@)]
  <2>1. /\ DOMAIN channel' = DOMAIN channel /\ channel'[g] = d
        /\ \A h \in DOMAIN channel \ {g} : channel'[h] = channel[h]
    BY <1>3
  <2>2. /\ DOMAIN wire' = Conns /\ wire'[c] = v
        /\ \A e \in Conns \ {c} : wire'[e] = wire[e]
    BY <1>2, <1>3 DEF IInv, Shape, Written
  <2>3. Extended(w, v, Pushed(k, r))
    BY <1>2, OneMore
  <2>4. Pushed(k, r).sub = k
    BY EntryFields, SMTT(30)
  <2>5. ConnectionOK(script[c], open[c], phase[c], consumed[c], answer[c], v)
        /\ Greeted(script[c], consumed[c], v)
    BY <1>2, PushKeeps
  <2>6. ChannelOK(v, k, d, committed)
    BY <1>1, <1>2, <1>3, <2>3, ForwardedOK, SMTT(30)
  <2> HIDE DEF d, v
  <2>7. ASSUME NEW h \in DOMAIN channel, h # g
        PROVE  ChannelOK(wire'[h[1]], h[2], channel[h], committed)
    <3>1. CASE h[1] # c
      BY <1>2, <2>2, <3>1
    <3>2. CASE h[1] = c
      <4>1. h[2] # k
        BY <1>2, <2>7, <3>2
      <4>2. QED
        BY <1>2, <2>2, <2>3, <2>4, <3>2, <4>1, OthersWrite, SMTT(30)
    <3>3. QED
      BY <3>1, <3>2
  <2>8. Shape' /\ ConnectionsOK'
    BY <1>1, <2>2, <2>5 DEF IInv, Shape, ConnectionsOK
  <2>9. ChannelsOK'
    <3>1. ASSUME NEW h \in DOMAIN channel
          PROVE  /\ h \in Conns \X Nat /\ h[2] \in 1..consumed[h[1]]
                 /\ Greeted(script[h[1]], consumed[h[1]], wire'[h[1]])
      BY <2>2, <2>5 DEF IInv, ChannelsOK
    <3>2. \A h \in DOMAIN channel : ChannelOK(wire'[h[1]], h[2], channel'[h], committed)
      BY <2>1, <2>2, <2>6, <2>7
    <3>3. QED
      BY <1>1, <2>1, <3>1, <3>2 DEF ChannelsOK
  <2>10. PushesOwned'
    <3>1. ASSUME NEW e \in Conns, NEW i \in DOMAIN wire'[e], wire'[e][i].sub # 0
          PROVE  <<e, wire'[e][i].sub>> \in DOMAIN channel
      <4>1. CASE e # c
        BY <2>2, <3>1, <4>1 DEF IInv, PushesOwned
      <4>2. CASE e = c
        <5>1. CASE i \in DOMAIN w
          BY <1>2, <2>2, <2>3, <3>1, <4>2, <5>1 DEF IInv, PushesOwned, Extended
        <5>2. CASE i = Len(w) + 1
          BY <1>2, <2>2, <2>3, <2>4, <4>2, <5>2 DEF Extended
        <5>3. QED
          BY <2>2, <2>3, <3>1, <4>2, <5>1, <5>2 DEF Extended
      <4>3. QED
        BY <4>1, <4>2
    <3>2. QED
      BY <2>1, <3>1 DEF PushesOwned
  <2>11. QED
    BY <1>1, <2>8, <2>9, <2>10 DEF IInv, PermitsBalance, Live
<1>4. ASSUME UNCHANGED wire,
             \/ channel' = [channel EXCEPT ![g].forwarding = FALSE, ![g].queue = <<>>]
             \/ channel' = [channel EXCEPT ![g].forwarding = FALSE]
      PROVE  IInv'
  <2>1. /\ DOMAIN channel' = DOMAIN channel
        /\ \A h \in DOMAIN channel \ {g} : channel'[h] = channel[h]
        /\ \/ channel'[g] = [channel[g] EXCEPT !.forwarding = FALSE, !.queue = <<>>]
           \/ channel'[g] = [channel[g] EXCEPT !.forwarding = FALSE]
    BY <1>4
  <2>2. ChannelOK(w, k, channel'[g], committed)
    BY <1>2, <2>1, StoppedOK
  <2>3. \A h \in DOMAIN channel : ChannelOK(wire[h[1]], h[2], channel'[h], committed)
    BY <1>2, <2>1, <2>2
  <2>4. QED
    BY <1>1, <1>4, <2>1, <2>3
       DEF IInv, Shape, ConnectionsOK, ChannelsOK, PushesOwned, PermitsBalance, Live
<1>5. QED
  BY <1>3, <1>4 DEF Forward

-----------------------------------------------------------------------------
LEMMA InitOK == Init => IInv
<1> SUFFICES ASSUME Init PROVE IInv
  OBVIOUS
<1>1. /\ script \in [Conns -> Seq(SentFrame)] /\ MaxConnections \in Nat /\ IsFiniteSet(Conns)
  BY SessionAssumption DEF Init
<1>2. /\ 0 \in Nat /\ \A s \in Seq(SentFrame) : 0 <= 0 /\ 0 <= Len(s)
  <2> HIDE DEF SentFrame
  <2>1. QED
    BY SMTT(30)
<1>3. Shape
  BY <1>1, <1>2 DEF Init, Shape, Phases
<1>4. ASSUME NEW c \in Conns
      PROVE  ConnectionOK(script[c], open[c], phase[c], consumed[c], answer[c], wire[c])
  <2>1. phase[c] = "free" /\ consumed[c] = 0 /\ wire[c] = <<>>
    BY DEF Init
  <2>2. <<>> \in Seq({}) /\ DOMAIN <<>> = {} /\ "free" \notin Working
    BY SMTT(30) DEF Working
  <2>3. IsSeq(wire[c])
    BY <2>1, <2>2, SMTT(30) DEF IsSeq
  <2>4. Greets(script[c], "free", 0, <<>>)
    BY <2>2 DEF Greets
  <2>5. Answers(script[c], open[c], "free", 0, answer[c], <<>>)
    BY <2>2 DEF Answers, InOrder, UpTo
  <2>6. QED
    BY <1>2, <2>1, <2>3, <2>4, <2>5 DEF ConnectionOK
<1>5. ChannelsOK
  BY DEF Init, ChannelsOK
<1>6. PushesOwned
  <2>1. DOMAIN <<>> = {}
    BY SMTT(30)
  <2>2. QED
    BY <2>1 DEF Init, PushesOwned
<1>7. permits \in Nat /\ PermitsBalance
  <2>1. Live = {}
    BY DEF Init, Live
  <2>2. Cardinality(Live) = 0
    BY <2>1, FS_EmptySet
  <2>3. QED
    BY <1>1, <2>2, SMTT(30) DEF Init, PermitsBalance
<1>8. QED
  BY <1>3, <1>4, <1>5, <1>6, <1>7 DEF IInv, ConnectionsOK

LEMMA NextOK == IInv /\ [Next]_vars => IInv'
<1> SUFFICES ASSUME IInv, [Next]_vars PROVE IInv'
  OBVIOUS
<1>1. CASE UNCHANGED vars
  BY <1>1 DEF vars, client, server, IInv, Shape, ConnectionsOK, ChannelsOK, PushesOwned,
              PermitsBalance, Live
<1>2. CASE Shutdown
  BY <1>2 DEF Shutdown, client, IInv, Shape, ConnectionsOK, ChannelsOK, PushesOwned,
              PermitsBalance, Live
<1>3. CASE Commit
  BY <1>3, CommitOK
<1>4. ASSUME NEW c \in Conns, ClientSend(c) \/ ClientClose(c) \/ Accept(c) \/ ServerStep(c)
      PROVE  IInv'
  BY <1>4, ClientSendOK, ClientCloseOK, AcceptOK, ServerStepOK
<1>5. ASSUME NEW h \in DOMAIN channel, Deliver(h) \/ Forward(h)
      PROVE  IInv'
  BY <1>5, DeliverOK, ForwardOK
<1>6. QED
  BY <1>1, <1>2, <1>3, <1>4, <1>5 DEF Next

(* The inductive invariant of the sessions, for any scripts and any number *)
(* of connections.                                                         *)
THEOREM AlwaysSound == Spec => []IInv
<1>1. Init => IInv
  BY InitOK
<1>2. IInv /\ [Next]_vars => IInv'
  BY NextOK
<1>3. QED
  BY <1>1, <1>2, PTL DEF Spec

(* Whatever a connection sends, AuthOk is written to it only after its     *)
(* Startup and its Auth were accepted; and nothing beyond AuthOk and       *)
(* errors is written to it, and no subscription made for it, before Ready. *)
THEOREM HandshakeAlwaysFirst == Spec => []HandshakeFirst
<1>1. ASSUME IInv, NEW c \in Conns, \E h \in DOMAIN channel : h[1] = c
      PROVE  Greeted(script[c], consumed[c], wire[c])
  BY <1>1 DEF IInv, ChannelsOK
<1>2. ASSUME IInv, NEW c \in Conns, Tags(c) \ {"Error", "AuthError"} # {}
      PROVE  Greeted(script[c], consumed[c], wire[c]) \/ Admitted(script[c], consumed[c], wire[c])
  <2>1. PICK i \in DOMAIN wire[c] : wire[c][i].frame.tag \notin {"Error", "AuthError"}
    BY <1>2 DEF Tags
  <2>2. DOMAIN <<>> = {}
    BY SMTT(30)
  <2>3. phase[c] \in Phases /\ Greets(script[c], phase[c], consumed[c], wire[c])
    BY <1>2 DEF IInv, Shape, ConnectionsOK, ConnectionOK
  <2>4. \/ phase[c] \in {"free", "startup", "auth"} \/ phase[c] = "ready" \/ phase[c] \in Working
        \/ phase[c] = "closed"
    BY <2>3 DEF Phases, Working
  <2>5. QED
    BY <2>1, <2>2, <2>3, <2>4 DEF Greets
<1>3. ASSUME NEW c \in Conns, Admitted(script[c], consumed[c], wire[c])
      PROVE  Tags(c) = {"AuthOk"}
  BY <1>3 DEF Admitted, Tags
<1>4. ASSUME NEW c \in Conns, Greeted(script[c], consumed[c], wire[c])
      PROVE  /\ 1 \in DOMAIN wire[c] /\ wire[c][1].frame.tag = "AuthOk"
             /\ 2 \in DOMAIN wire[c] /\ wire[c][2].frame.tag = "Ready"
             /\ Opened(script[c], 1, "Startup") /\ Opened(script[c], 2, "Auth")
  BY <1>4 DEF Greeted
<1>5. IInv => HandshakeFirst
  <2> SUFFICES ASSUME IInv, NEW c \in Conns
               PROVE  LET subscribed == \E h \in DOMAIN channel : h[1] = c
                      IN /\ subscribed \/ Tags(c) \ {"Error", "AuthError"} # {} =>
                               /\ Opened(script[c], 1, "Startup") /\ Opened(script[c], 2, "Auth")
                               /\ 1 \in DOMAIN wire[c] /\ wire[c][1].frame.tag = "AuthOk"
                         /\ subscribed \/ Tags(c) \ {"Error", "AuthError", "AuthOk"} # {} =>
                               2 \in DOMAIN wire[c] /\ wire[c][2].frame.tag = "Ready"
    BY DEF HandshakeFirst, Opened
  <2>1. CASE Greeted(script[c], consumed[c], wire[c])
    BY <1>4, <2>1
  <2>2. CASE Admitted(script[c], consumed[c], wire[c])
    <3>1. Tags(c) = {"AuthOk"}
      BY <1>3, <2>2
    <3>2. ~\E h \in DOMAIN channel : h[1] = c
      BY <1>1, <2>2, SMTT(30) DEF Greeted, Admitted
    <3>3. QED
      BY <2>2, <3>1, <3>2 DEF Admitted
  <2>3. CASE /\ ~Greeted(script[c], consumed[c], wire[c])
             /\ ~Admitted(script[c], consumed[c], wire[c])
    <3>1. ~(\E h \in DOMAIN channel : h[1] = c) /\ Tags(c) \ {"Error", "AuthError"} = {}
      BY <1>1, <1>2, <2>3
    <3>2. QED
      BY <3>1
  <2>4. QED
    BY <2>1, <2>2, <2>3
<1>6. QED
  BY <1>5, AlwaysSound, PTL

(* Replies are written in the order of the commands, one each, whatever    *)
(* the forwarders write between them; and while the client is there, a     *)
(* session at the top of its loop owes no reply.                           *)
THEOREM RepliesAlwaysInOrder == Spec => []RepliesInOrder
<1>1. IInv => RepliesInOrder
  <2> SUFFICES ASSUME IInv, NEW c \in Conns
               PROVE  /\ \A i, j \in Replies(c) : i < j => wire[c][i].re < wire[c][j].re
                      /\ phase[c] = "loop" /\ open[c] =>
                            \A k \in 1..consumed[c] : Owes(script[c][k]) =>
                                \E i \in Replies(c) : wire[c][i].re = k
    BY DEF RepliesInOrder
  <2>1. Answers(script[c], open[c], phase[c], consumed[c], answer[c], wire[c])
    BY DEF IInv, ConnectionsOK, ConnectionOK
  <2>2. Replies(c) = {i \in DOMAIN wire[c] : IsReply(wire[c][i])}
    BY DEF Replies, IsReply
  <2>3. \A i, j \in Replies(c) : i < j => wire[c][i].re < wire[c][j].re
    BY <2>1, <2>2 DEF Answers, InOrder
  <2>4. phase[c] = "loop" => phase[c] \in Working /\ Done(phase[c], consumed[c]) = consumed[c]
    BY SMTT(30) DEF Working, Done
  <2>5. QED
    BY <2>1, <2>2, <2>3, <2>4 DEF Answers, Answered
<1>2. QED
  BY <1>1, AlwaysSound, PTL

(* No path out of a connection keeps its permit or returns it twice: the   *)
(* semaphore and the gauge count the connections there are.                *)
THEOREM PermitsAlwaysBalance == Spec => []PermitsBalance
<1>1. IInv => PermitsBalance
  BY DEF IInv
<1>2. QED
  BY <1>1, AlwaysSound, PTL

(* What is pushed for a subscription is a prefix of the log, in order and  *)
(* without a gap, whichever tasks share the sink.                          *)
THEOREM PushesAlwaysInOrder == Spec => []PushesInOrder
<1>1. IInv => PushesInOrder
  BY DEF IInv, ChannelsOK, ChannelOK, PushedInOrder, Mine, PushesInOrder
<1>2. QED
  BY <1>1, AlwaysSound, PTL
=============================================================================
