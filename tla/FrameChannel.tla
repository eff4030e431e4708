---------------------------- MODULE FrameChannel ----------------------------
(***************************************************************************)
(* What a framed connection promises the tasks at its ends, in one         *)
(* direction: the frames that were sent, in order, each once and unchanged,*)
(* until a frame the receiver does not accept or the end of the stream.    *)
(* There are no bytes here.  Session and Connection are built on this.     *)
(***************************************************************************)
EXTENDS Naturals, Sequences

CONSTANTS Frames,         \* what may be sent
          Acceptable(_)   \* frames the receiver accepts

VARIABLES sent,      \* frames handed to the sender
          received,  \* frames handed out by the receiver
          status,    \* the receiver: "reading", "failed" or "ended"
          link       \* the sender: "open", "closed" or "broken"

vars == <<sent, received, status, link>>

Init == sent = <<>> /\ received = <<>> /\ status = "reading" /\ link = "open"

Upcoming == sent[Len(received) + 1]
Owing == Len(received) < Len(sent)

Send(f) == link = "open" /\ sent' = Append(sent, f) /\ UNCHANGED <<received, status, link>>

Deliver ==
    /\ status = "reading" /\ Owing /\ Acceptable(Upcoming)
    /\ received' = Append(received, Upcoming)
    /\ UNCHANGED <<sent, status, link>>

(* An error: the next frame is not accepted, or the link broke. *)
Fail ==
    /\ status = "reading" /\ (link = "broken" \/ (Owing /\ ~Acceptable(Upcoming)))
    /\ status' = "failed"
    /\ UNCHANGED <<sent, received, link>>

(* The end of the stream: nothing is owed, unless the link broke. *)
End ==
    /\ status = "reading" /\ link # "open" /\ (link = "broken" \/ ~Owing)
    /\ status' = "ended"
    /\ UNCHANGED <<sent, received, link>>

Close == link = "open" /\ link' \in {"closed", "broken"} /\ UNCHANGED <<sent, received, status>>

Next == Deliver \/ Fail \/ End \/ Close \/ \E f \in Frames : Send(f)

Spec == Init /\ [][Next]_vars
=============================================================================
