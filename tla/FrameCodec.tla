----------------------------- MODULE FrameCodec -----------------------------
(***************************************************************************)
(* smdb-proto: FrameCodec at both ends of a stream of bytes.  The sender   *)
(* encodes whole frames; the bytes arrive in pieces of any size; the       *)
(* receiver, tokio-util's FramedRead, decodes until decode wants more, and *)
(* then reads.  The stream may be closed, or break and lose what had not   *)
(* arrived.                                                                *)
(*                                                                         *)
(* The buffer src of the decoder is the part of the stream between         *)
(* consumed and arrived.  A byte is a number below ByteBase.               *)
(***************************************************************************)
EXTENDS Naturals, Sequences

CONSTANTS ByteBase,      \* 256
          Tags,          \* the bytes of FrameTag
          MaxFrameSize,  \* MAX_FRAME_SIZE
          Frames,        \* what is sent: by this codec, or by one that has other tags
          MaxSent        \* bound: frames sent

Byte == 0..ByteBase - 1
Frame == [tag: Byte, body: Seq(Byte)]
U32 == ByteBase * ByteBase * ByteBase * ByteBase   \* 2^32

(* No body has 2^32 bytes.  encode does not see to that. *)
ASSUME CodecAssumption ==
    /\ ByteBase \in Nat \ {0, 1} /\ Tags \subseteq Byte
    /\ MaxFrameSize \in Nat /\ MaxFrameSize < U32
    /\ Frames \subseteq Frame /\ \A f \in Frames : Len(f.body) < U32
    /\ MaxSent \in Nat

VARIABLES bytes,     \* every byte written to the stream
          arrived,   \* bytes that have reached the decoder's buffer
          consumed,  \* bytes that have left it
          sent,      \* frames given to the sink
          bounds,    \* history: where in the stream they begin, and the last one ends
          received,  \* frames the decoder has handed out
          status,    \* FramedRead: "reading", "failed" or "ended"
          link       \* the stream: "open", "closed" or "broken"

vars == <<bytes, arrived, consumed, sent, bounds, received, status, link>>

TypeOK ==
    /\ bytes \in Seq(Byte)
    /\ arrived \in 0..Len(bytes) /\ consumed \in 0..arrived
    /\ sent \in Seq(Frames) /\ bounds \in Seq(Nat) /\ Len(bounds) = Len(sent) + 1
    /\ received \in Seq(Frame)
    /\ status \in {"reading", "failed", "ended"} /\ link \in {"open", "closed", "broken"}

Init ==
    /\ bytes = <<>> /\ arrived = 0 /\ consumed = 0
    /\ sent = <<>> /\ bounds = <<0>> /\ received = <<>>
    /\ status = "reading" /\ link = "open"

-----------------------------------------------------------------------------
HEADER_LEN == 5

(* put_u32 and u32::from_be_bytes: most significant byte first. *)
LittleEndian(n) ==
    <<n % ByteBase, (n \div ByteBase) % ByteBase, ((n \div ByteBase) \div ByteBase) % ByteBase,
      (((n \div ByteBase) \div ByteBase) \div ByteBase) % ByteBase>>

BigEndian(n) ==
    <<(((n \div ByteBase) \div ByteBase) \div ByteBase) % ByteBase,
      ((n \div ByteBase) \div ByteBase) % ByteBase, (n \div ByteBase) % ByteBase, n % ByteBase>>

from_be_bytes(a, b, c, d) == ((a * ByteBase + b) * ByteBase + c) * ByteBase + d

encode(f) == <<f.tag>> \o BigEndian(Len(f.body) % U32) \o f.body

src == [i \in 1..(arrived - consumed) |-> bytes[consumed + i]]
body_len == from_be_bytes(src[2], src[3], src[4], src[5])

HasHeader == Len(src) >= HEADER_LEN
TooLarge == body_len > MaxFrameSize

HasAndMore == Len(src) > HEADER_LEN + body_len
HasBody == Len(src) >= HEADER_LEN + body_len

(* What decode answers: more bytes, an error, or a frame. *)
decode ==
    IF ~HasHeader THEN "None"
    ELSE IF TooLarge THEN "FrameTooLarge"
    ELSE IF ~HasBody THEN "None"
    ELSE IF src[1] \notin Tags THEN "InvalidFrameType"
    ELSE "Frame"

DecodedFrame == [tag |-> src[1], body |-> [i \in 1..body_len |-> src[HEADER_LEN + i]]]

-----------------------------------------------------------------------------
(* SinkExt::send: the frame is encoded and all of it is written. *)
Send(f) ==
    /\ link = "open" /\ Len(sent) < MaxSent
    /\ bytes' = bytes \o encode(f)
    /\ sent' = Append(sent, f) /\ bounds' = Append(bounds, Len(bytes'))
    /\ UNCHANGED <<arrived, consumed, received, status, link>>

Close ==
    /\ link = "open" /\ link' = "closed"
    /\ UNCHANGED <<bytes, arrived, consumed, sent, bounds, received, status>>

(* The connection is lost, with the bytes that had not arrived. *)
Break ==
    /\ link = "open" /\ link' = "broken"
    /\ \E n \in arrived..Len(bytes) : bytes' = SubSeq(bytes, 1, n)
    /\ UNCHANGED <<arrived, consumed, sent, bounds, received, status>>

(* FramedRead: decode first; read when it wants more. *)
DecodeFrame ==
    /\ status = "reading" /\ decode = "Frame"
    /\ received' = Append(received, DecodedFrame)
    /\ consumed' = consumed + HEADER_LEN + body_len
    /\ UNCHANGED <<bytes, arrived, sent, bounds, status, link>>

DecodeError ==
    /\ status = "reading" /\ decode \in {"FrameTooLarge", "InvalidFrameType"}
    /\ status' = "failed"
    /\ UNCHANGED <<bytes, arrived, consumed, sent, bounds, received, link>>

Read(n) ==
    /\ status = "reading" /\ decode = "None"
    /\ arrived' = arrived + n
    /\ UNCHANGED <<bytes, consumed, sent, bounds, received, status, link>>

(* The end of the stream; bytes left in the buffer are an error. *)
Eof ==
    /\ status = "reading" /\ decode = "None"
    /\ link # "open" /\ arrived = Len(bytes)
    /\ status' = IF src = <<>> THEN "ended" ELSE "failed"
    /\ UNCHANGED <<bytes, arrived, consumed, sent, bounds, received, link>>

(* A connection that was lost may also make the read fail. *)
ReadError ==
    /\ status = "reading" /\ decode = "None"
    /\ link = "broken"
    /\ status' = "failed"
    /\ UNCHANGED <<bytes, arrived, consumed, sent, bounds, received, link>>

Receive ==
    \/ DecodeFrame \/ DecodeError \/ Eof \/ ReadError
    \/ \E n \in 1..(Len(bytes) - arrived) : Read(n)

Next == Close \/ Break \/ Receive \/ \E f \in Frames : Send(f)

Spec == Init /\ [][Next]_vars

(* The receiving task is polled when there is something to read. *)
FairSpec == Spec /\ WF_vars(Receive)

-----------------------------------------------------------------------------
Acceptable(f) == f.tag \in Tags /\ Len(f.body) <= MaxFrameSize

Channel == INSTANCE FrameChannel

(* However the bytes are cut into pieces, the frames that come out of      *)
(* decode are the frames that went into encode, in order, each once; the   *)
(* first one with an unknown tag or too long a body ends the stream, never *)
(* one of the frames before it; and a stream that was closed ends only     *)
(* after its last frame.                                                   *)
ImplementsChannel == Channel!Spec

(* A frame that was sent comes out, unless the stream ended before it: the *)
(* decoder never waits for more bytes than a frame has.                    *)
EverythingArrives ==
    \A n \in 1..MaxSent : Len(sent) >= n ~> (Len(received) >= n \/ status # "reading")
=============================================================================
