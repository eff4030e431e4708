-------------------------- MODULE FrameCodecProofs --------------------------
(***************************************************************************)
(* Proof that the codec implements FrameChannel for any bodies, any limit  *)
(* and any way of cutting the stream into pieces.                          *)
(***************************************************************************)
EXTENDS FrameCodec, TLAPS

USE SMTT(30), ZenonT(30)

Size(f) == HEADER_LEN + Len(f.body)

(* The stream is the frames that were sent, one after the other, as far as *)
(* it goes, and the decoder stands between two of them.                    *)
InPlace ==
    /\ TypeOK
    /\ Len(received) <= Len(sent) /\ \A i \in 1..Len(received) : received[i] = sent[i]
    /\ consumed = bounds[Len(received) + 1]
    /\ \A i \in 1..Len(sent) : bounds[i + 1] = bounds[i] + Size(sent[i])
    /\ \A i, j \in 1..Len(sent) + 1 : i < j => bounds[i] + HEADER_LEN <= bounds[j]
    /\ Len(bytes) <= bounds[Len(sent) + 1]
    /\ link # "broken" => Len(bytes) = bounds[Len(sent) + 1]
    /\ \A i \in 1..Len(sent) : \A p \in 1..Size(sent[i]) :
          bounds[i] + p <= Len(bytes) => bytes[bounds[i] + p] = encode(sent[i])[p]

-----------------------------------------------------------------------------
(* A quotient and a remainder make up the number again. *)
LEMMA DivMod ==
    ASSUME NEW x \in Nat, NEW B \in Nat \ {0}
    PROVE  /\ x \div B \in Nat /\ x % B \in 0..B - 1
           /\ (x \div B) * B + (x % B) = x
OBVIOUS

LEMMA Remainder ==
    ASSUME NEW x \in Nat, NEW B \in Nat, x < B
    PROVE  x % B = x
OBVIOUS

LEMMA Element ==
    ASSUME NEW S, NEW s \in Seq(S), NEW i \in 1..Len(s)
    PROVE  s[i] \in S
OBVIOUS

LEMMA Concatenation ==
    ASSUME NEW S, NEW s \in Seq(S), NEW t \in Seq(S)
    PROVE  /\ s \o t \in Seq(S) /\ Len(s \o t) = Len(s) + Len(t)
           /\ Len(s) \in Nat /\ Len(t) \in Nat
           /\ \A i \in 1..Len(s) : (s \o t)[i] = s[i]
           /\ \A i \in 1..Len(t) : (s \o t)[Len(s) + i] = t[i]
OBVIOUS

(* Reading the four bytes of a length gives the length. *)
LEMMA LengthRoundTrip ==
    ASSUME NEW n \in Nat, n < U32
    PROVE  /\ \A i \in 1..4 : BigEndian(n)[i] \in Byte
           /\ from_be_bytes(BigEndian(n)[1], BigEndian(n)[2], BigEndian(n)[3], BigEndian(n)[4]) = n
<1> DEFINE B == ByteBase
           q == n \div B
           r == q \div B
           s == r \div B
<1>0. B \in Nat \ {0, 1}
  BY CodecAssumption
<1>1. q \in Nat /\ n % B \in 0..B - 1 /\ q * B + (n % B) = n
  BY <1>0, DivMod, ZenonT(60)
<1>2. r \in Nat /\ q % B \in 0..B - 1 /\ r * B + (q % B) = q
  BY <1>0, <1>1, DivMod, ZenonT(60)
<1>3. s \in Nat /\ r % B \in 0..B - 1 /\ s * B + (r % B) = r
  BY <1>0, <1>2, DivMod, ZenonT(60)
<1>4. s % B \in 0..B - 1
  BY <1>0, <1>3, DivMod
<1>5. s < B
  <2> SUFFICES ASSUME s >= B PROVE FALSE
    BY <1>0, <1>3
  <2> HIDE DEF B, q, r, s
  <2>1. r >= B * B
    BY <1>0, <1>3
  <2>2. q >= B * B * B
    BY <1>0, <1>2, <2>1
  <2>3. n >= B * B * B * B
    BY <1>0, <1>1, <2>2
  <2>4. U32 = B * B * B * B
    BY DEF U32, B
  <2>5. QED
    BY <1>0, <2>3, <2>4
<1>6. s % B = s
  BY <1>0, <1>3, <1>5
<1>7. BigEndian(n) = <<s % B, r % B, q % B, n % B>>
  BY DEF BigEndian
<1> HIDE DEF B, q, r, s
<1>8. ((s * B + (r % B)) * B + (q % B)) * B + (n % B) = n
  BY <1>1, <1>2, <1>3
<1>9. QED
  BY <1>1, <1>2, <1>3, <1>4, <1>6, <1>7, <1>8 DEF from_be_bytes, Byte, B

(* The bytes of a frame: its tag, the length of its body, its body. *)
LEMMA EncodedBytes ==
    ASSUME NEW f \in Frames
    PROVE  LET e == encode(f) IN
           /\ f \in Frame /\ Len(f.body) \in Nat
           /\ e \in Seq(Byte) /\ Len(e) = Size(f)
           /\ e[1] = f.tag
           /\ from_be_bytes(e[2], e[3], e[4], e[5]) = Len(f.body)
           /\ \A i \in 1..Len(f.body) : e[HEADER_LEN + i] = f.body[i]
<1> DEFINE n == Len(f.body)
           b == BigEndian(n)
           h == <<f.tag>> \o b
<1>1. f \in Frame /\ n \in Nat /\ n < U32 /\ f.tag \in Byte /\ f.body \in Seq(Byte)
  BY CodecAssumption DEF Frame
<1>2. n % U32 = n
  <2>1. U32 \in Nat
    BY CodecAssumption DEF U32
  <2>2. QED
    BY <1>1, <2>1, Remainder, ZenonT(60)
<1>3. encode(f) = h \o f.body
  BY <1>2, ZenonT(60) DEF encode
<1>4. /\ \A i \in 1..4 : b[i] \in Byte
      /\ from_be_bytes(b[1], b[2], b[3], b[4]) = n
  BY <1>1, LengthRoundTrip
<1>5. b \in Seq(Byte) /\ Len(b) = 4
  <2>1. b = <<b[1], b[2], b[3], b[4]>>
    BY DEF BigEndian
  <2>2. b[1] \in Byte /\ b[2] \in Byte /\ b[3] \in Byte /\ b[4] \in Byte
    BY <1>4
  <2> HIDE DEF b
  <2>3. QED
    BY <2>1, <2>2
<1> HIDE DEF b
<1>6. /\ h \in Seq(Byte) /\ Len(h) = 5
      /\ h[1] = f.tag /\ h[2] = b[1] /\ h[3] = b[2] /\ h[4] = b[3] /\ h[5] = b[4]
  <2> DEFINE t == <<f.tag>>
  <2>1. t \in Seq(Byte) /\ Len(t) = 1 /\ t[1] = f.tag
    BY <1>1
  <2>2. h = t \o b
    OBVIOUS
  <2> HIDE DEF t, h
  <2>3. /\ t \o b \in Seq(Byte) /\ Len(t \o b) = Len(t) + Len(b)
        /\ \A i \in 1..Len(t) : (t \o b)[i] = t[i]
        /\ \A i \in 1..Len(b) : (t \o b)[Len(t) + i] = b[i]
    <3>1. t \in Seq(Byte) /\ b \in Seq(Byte)
      BY <1>5, <2>1
    <3>2. QED
      BY <3>1, Concatenation
  <2>4. h \in Seq(Byte) /\ Len(h) = 1 + 4 /\ h[1] = f.tag
    BY <1>5, <2>1, <2>2, <2>3
  <2>5. \A i \in 1..4 : h[1 + i] = b[i]
    BY <1>5, <2>1, <2>2, <2>3
  <2>6. h[1 + 1] = b[1] /\ h[1 + 2] = b[2] /\ h[1 + 3] = b[3] /\ h[1 + 4] = b[4]
    BY <2>5
  <2>7. QED
    BY <2>4, <2>6
<1> HIDE DEF h
<1>7. /\ h \o f.body \in Seq(Byte) /\ Len(h \o f.body) = 5 + n
      /\ \A i \in 1..5 : (h \o f.body)[i] = h[i]
      /\ \A i \in 1..n : (h \o f.body)[5 + i] = f.body[i]
  <2>1. /\ h \o f.body \in Seq(Byte) /\ Len(h \o f.body) = Len(h) + n
        /\ \A i \in 1..Len(h) : (h \o f.body)[i] = h[i]
        /\ \A i \in 1..n : (h \o f.body)[Len(h) + i] = f.body[i]
    <3>1. h \in Seq(Byte) /\ f.body \in Seq(Byte)
      BY <1>1, <1>6
    <3>2. QED
      BY <3>1, Concatenation
  <2>2. QED
    BY <1>6, <2>1
<1>8. QED
  BY <1>1, <1>3, <1>4, <1>6, <1>7 DEF Size, HEADER_LEN

(* The buffer of the decoder. *)
LEMMA Buffer ==
    ASSUME InPlace
    PROVE  /\ arrived \in Nat /\ consumed \in Nat /\ consumed <= arrived
           /\ arrived <= Len(bytes) /\ Len(bytes) \in Nat
           /\ Len(src) = arrived - consumed
           /\ \A i \in 1..(arrived - consumed) : src[i] = bytes[consumed + i]
<1>1. /\ bytes \in Seq(Byte) /\ arrived \in 0..Len(bytes) /\ consumed \in 0..arrived
  BY DEF InPlace, TypeOK
<1>2. Len(bytes) \in Nat
  BY <1>1
<1>3. arrived - consumed \in Nat
  BY <1>1, <1>2
<1>4. QED
  BY <1>1, <1>2, <1>3 DEF src

(* What is in the buffer is the beginning of the next frame. *)
LEMMA NextInBuffer ==
    ASSUME InPlace, Len(src) > 0
    PROVE  LET k == Len(received) + 1 IN
           /\ k \in 1..Len(sent) /\ sent[k] \in Frames
           /\ bounds[k] = consumed /\ bounds[k + 1] = consumed + Size(sent[k])
           /\ bounds[k + 1] <= bounds[Len(sent) + 1]
           /\ \A p \in 1..Size(sent[k]) : p <= Len(src) => src[p] = encode(sent[k])[p]
<1> DEFINE k == Len(received) + 1
           n == Len(sent)
<1>1. /\ sent \in Seq(Frames) /\ received \in Seq(Frame) /\ bounds \in Seq(Nat)
      /\ Len(bounds) = n + 1 /\ Len(received) <= n /\ consumed = bounds[k]
      /\ Len(bytes) <= bounds[n + 1]
  BY DEF InPlace, TypeOK
<1>2. n \in Nat /\ k \in Nat /\ k >= 1 /\ k <= n + 1
  BY <1>1
<1>3. consumed < bounds[n + 1]
  <2>1. bounds[n + 1] \in Nat
    BY <1>1, <1>2
  <2>2. QED
    BY <1>1, <2>1, Buffer
<1>4. k \in 1..n
  <2>1. k # n + 1
    BY <1>1, <1>3, Buffer
  <2>2. QED
    BY <1>2, <2>1
<1>5. sent[k] \in Frames
  BY <1>1, <1>4
<1>6. bounds[k + 1] = bounds[k] + Size(sent[k])
  BY <1>4 DEF InPlace
<1>7. bounds[k + 1] <= bounds[n + 1]
  <2>1. bounds[k + 1] \in Nat /\ bounds[n + 1] \in Nat
    BY <1>1, <1>2, <1>4
  <2>2. CASE k = n
    BY <2>1, <2>2
  <2>3. CASE k < n
    <3>1. k + 1 \in 1..n + 1 /\ n + 1 \in 1..n + 1 /\ k + 1 < n + 1
      BY <1>2, <2>3
    <3>2. bounds[k + 1] + HEADER_LEN <= bounds[n + 1]
      BY <3>1 DEF InPlace
    <3>3. QED
      BY <2>1, <3>2 DEF HEADER_LEN
  <2>4. QED
    BY <1>2, <1>4, <2>2, <2>3
<1>8. ASSUME NEW p \in 1..Size(sent[k]), p <= Len(src)
      PROVE  src[p] = encode(sent[k])[p]
  <2>1. /\ Len(src) = arrived - consumed /\ arrived \in Nat /\ consumed \in Nat
        /\ Len(bytes) \in Nat /\ arrived <= Len(bytes)
        /\ \A i \in 1..(arrived - consumed) : src[i] = bytes[consumed + i]
    BY Buffer
  <2>2. Size(sent[k]) \in Nat
    BY <1>5, EncodedBytes DEF Size, HEADER_LEN
  <2>3. p \in 1..(arrived - consumed) /\ consumed + p <= Len(bytes)
    BY <1>8, <2>1, <2>2
  <2>4. src[p] = bytes[bounds[k] + p] /\ bounds[k] + p <= Len(bytes)
    BY <1>1, <2>1, <2>3
  <2>5. bytes[bounds[k] + p] = encode(sent[k])[p]
    BY <1>4, <2>4 DEF InPlace
  <2>6. QED
    BY <2>4, <2>5
<1>9. QED
  BY <1>1, <1>4, <1>5, <1>6, <1>7, <1>8

(* With its header there, the next frame's length is known; with its body  *)
(* there, what decode hands out is that frame.                             *)
LEMMA Decoding ==
    ASSUME InPlace, HasHeader
    PROVE  LET k == Len(received) + 1 IN
           /\ k \in 1..Len(sent) /\ sent[k] \in Frames
           /\ body_len = Len(sent[k].body) /\ body_len \in Nat /\ src[1] = sent[k].tag
           /\ HasBody => DecodedFrame = sent[k]
<1> DEFINE k == Len(received) + 1
           f == sent[k]
           e == encode(f)
<1>1. Len(src) \in Nat /\ Len(src) >= 5
  BY Buffer DEF HasHeader, HEADER_LEN
<1>2. k \in 1..Len(sent) /\ f \in Frames
  BY <1>1, NextInBuffer
<1>3. \A p \in 1..Size(f) : p <= Len(src) => src[p] = e[p]
  BY <1>1, NextInBuffer
<1>4. /\ f \in Frame /\ Len(f.body) \in Nat
      /\ e[1] = f.tag /\ from_be_bytes(e[2], e[3], e[4], e[5]) = Len(f.body)
      /\ \A i \in 1..Len(f.body) : e[HEADER_LEN + i] = f.body[i]
  BY <1>2, EncodedBytes
<1> HIDE DEF k, f, e
<1>5. src[1] = e[1] /\ src[2] = e[2] /\ src[3] = e[3] /\ src[4] = e[4] /\ src[5] = e[5]
  <2>1. Size(f) \in Nat /\ Size(f) >= 5
    BY <1>4 DEF Size, HEADER_LEN
  <2>2. QED
    BY <1>1, <1>3, <2>1
<1>6. body_len = Len(f.body)
  BY <1>4, <1>5 DEF body_len
<1>7. ASSUME HasBody PROVE DecodedFrame = f
  <2>1. \A i \in 1..Len(f.body) : src[HEADER_LEN + i] = f.body[i]
    <3> SUFFICES ASSUME NEW i \in 1..Len(f.body) PROVE src[HEADER_LEN + i] = f.body[i]
      OBVIOUS
    <3>1. HEADER_LEN + i \in 1..Size(f) /\ HEADER_LEN + i <= Len(src)
      BY <1>1, <1>4, <1>6, <1>7 DEF HasBody, Size, HEADER_LEN
    <3>2. QED
      BY <1>3, <1>4, <3>1
  <2>2. f.body = [i \in 1..Len(f.body) |-> f.body[i]]
    BY <1>4 DEF Frame
  <2>3. [i \in 1..body_len |-> src[HEADER_LEN + i]] = f.body
    BY <1>6, <2>1, <2>2
  <2>4. f = [tag |-> f.tag, body |-> f.body]
    BY <1>4 DEF Frame
  <2>5. QED
    BY <1>4, <1>5, <2>3, <2>4 DEF DecodedFrame
<1>8. QED
  BY <1>2, <1>4, <1>5, <1>6, <1>7 DEF k, f

-----------------------------------------------------------------------------
(* Encoding puts a frame at the end of the stream. *)
LEMMA SendKeeps ==
    ASSUME InPlace, NEW f \in Frames, Send(f)
    PROVE  InPlace'
<1> DEFINE n == Len(sent)
           e == encode(f)
<1>1. /\ bytes \in Seq(Byte) /\ sent \in Seq(Frames) /\ bounds \in Seq(Nat)
      /\ received \in Seq(Frame) /\ Len(bounds) = n + 1 /\ n \in Nat
      /\ Len(bytes) \in Nat /\ Len(received) \in Nat /\ Len(received) <= n
      /\ arrived \in 0..Len(bytes) /\ consumed \in 0..arrived
      /\ link # "broken" /\ Len(bytes) = bounds[n + 1]
  BY DEF InPlace, TypeOK, Send
<1>2. e \in Seq(Byte) /\ Len(e) = Size(f) /\ Size(f) \in Nat /\ Size(f) >= HEADER_LEN
  BY EncodedBytes DEF Size, HEADER_LEN
<1>3. /\ bytes' = bytes \o e /\ sent' = Append(sent, f) /\ bounds' = Append(bounds, Len(bytes'))
      /\ UNCHANGED <<arrived, consumed, received, status, link>>
  BY DEF Send
<1> HIDE DEF n, e
<1>4. /\ bytes' \in Seq(Byte) /\ Len(bytes') = Len(bytes) + Size(f)
      /\ \A i \in 1..Len(bytes) : bytes'[i] = bytes[i]
      /\ \A i \in 1..Size(f) : bytes'[Len(bytes) + i] = e[i]
  <2>1. bytes \in Seq(Byte) /\ e \in Seq(Byte)
    BY <1>1, <1>2
  <2>2. /\ bytes \o e \in Seq(Byte) /\ Len(bytes \o e) = Len(bytes) + Len(e)
        /\ \A i \in 1..Len(bytes) : (bytes \o e)[i] = bytes[i]
        /\ \A i \in 1..Len(e) : (bytes \o e)[Len(bytes) + i] = e[i]
    BY <2>1, Concatenation
  <2>3. QED
    BY <1>2, <1>3, <2>2
<1>5. /\ sent' \in Seq(Frames) /\ Len(sent') = n + 1
      /\ \A i \in 1..n : sent'[i] = sent[i]
      /\ sent'[n + 1] = f
  BY <1>1, <1>3 DEF n
<1>6. /\ bounds' \in Seq(Nat) /\ Len(bounds') = n + 2
      /\ \A i \in 1..n + 1 : bounds'[i] = bounds[i]
      /\ bounds'[n + 2] = bounds[n + 1] + Size(f)
  <2>1. Len(bytes') \in Nat /\ Len(bytes') = bounds[n + 1] + Size(f)
    BY <1>1, <1>2, <1>4
  <2>2. QED
    BY <1>1, <1>3, <2>1
<1>0. n \in Nat /\ n + 1 \in 1..n + 1 /\ (n + 1) + 1 = n + 2
  BY <1>1
<1>7. TypeOK'
  BY <1>1, <1>2, <1>3, <1>4, <1>5, <1>6 DEF InPlace, TypeOK
<1>8. /\ Len(received') <= Len(sent') /\ \A i \in 1..Len(received') : received'[i] = sent'[i]
      /\ consumed' = bounds'[Len(received') + 1]
  BY <1>1, <1>3, <1>5, <1>6 DEF InPlace, n
<1>9. \A i \in 1..Len(sent') : bounds'[i + 1] = bounds'[i] + Size(sent'[i])
  <2> SUFFICES ASSUME NEW i \in 1..n + 1 PROVE bounds'[i + 1] = bounds'[i] + Size(sent'[i])
    BY <1>5
  <2>1. CASE i = n + 1
    BY <1>0, <1>5, <1>6, <2>1, ZenonT(60)
  <2>2. CASE i # n + 1
    <3>1. i \in 1..n /\ i \in 1..n + 1 /\ i + 1 \in 1..n + 1
      BY <1>1, <2>2
    <3>2. bounds[i + 1] = bounds[i] + Size(sent[i])
      BY <3>1 DEF InPlace, n
    <3>3. QED
      BY <1>5, <1>6, <3>1, <3>2
  <2>3. QED
    BY <2>1, <2>2
<1>10. \A i, j \in 1..Len(sent') + 1 : i < j => bounds'[i] + HEADER_LEN <= bounds'[j]
  <2> SUFFICES ASSUME NEW i \in 1..n + 2, NEW j \in 1..n + 2, i < j
               PROVE  bounds'[i] + HEADER_LEN <= bounds'[j]
    BY <1>1, <1>5
  <2>1. i \in 1..n + 1 /\ bounds'[i] = bounds[i] /\ bounds[i] \in Nat
    BY <1>1, <1>6
  <2>2. bounds[n + 1] \in Nat
    BY <1>1
  <2>3. CASE j = n + 2
    <3>1. bounds[i] <= bounds[n + 1]
      <4>1. CASE i = n + 1
        BY <2>2, <4>1
      <4>2. CASE i # n + 1
        <5>1. n + 1 \in 1..n + 1 /\ i < n + 1
          BY <1>1, <2>1, <4>2
        <5>2. bounds[i] + HEADER_LEN <= bounds[n + 1]
          BY <2>1, <5>1 DEF InPlace, n
        <5>3. QED
          BY <2>1, <2>2, <5>2 DEF HEADER_LEN
      <4>3. QED
        BY <4>1, <4>2
    <3>2. QED
      BY <1>2, <1>6, <2>1, <2>2, <2>3, <3>1 DEF HEADER_LEN
  <2>4. CASE j # n + 2
    <3>1. j \in 1..n + 1
      BY <1>1, <2>4
    <3>2. bounds[i] + HEADER_LEN <= bounds[j]
      BY <2>1, <3>1 DEF InPlace, n
    <3>3. QED
      BY <1>6, <2>1, <3>1, <3>2
  <2>5. QED
    BY <2>3, <2>4
<1>11. Len(bytes') = bounds'[Len(sent') + 1]
  <2>1. Len(sent') + 1 = n + 2
    BY <1>0, <1>5
  <2>2. bounds'[n + 2] = Len(bytes) + Size(f)
    BY <1>1, <1>6
  <2>3. QED
    BY <1>4, <2>1, <2>2, ZenonT(60)
<1>12. ASSUME NEW i \in 1..Len(sent'), NEW p \in 1..Size(sent'[i]),
              bounds'[i] + p <= Len(bytes')
       PROVE  bytes'[bounds'[i] + p] = encode(sent'[i])[p]
  <2>1. CASE i = n + 1
    BY <1>1, <1>4, <1>5, <1>6, <2>1 DEF e
  <2>2. CASE i # n + 1
    <3>1. i \in 1..n /\ i \in 1..n + 1 /\ sent'[i] = sent[i] /\ bounds'[i] = bounds[i]
      <4>1. i \in 1..n /\ i \in 1..n + 1
        <5>1. i \in 1..n + 1
          BY <1>5, <1>12
        <5>2. QED
          BY <1>0, <2>2, <5>1
      <4>2. QED
        BY <1>5, <1>6, <4>1
    <3>2. sent[i] \in Frames /\ bounds[i] \in Nat /\ bounds[i + 1] \in Nat /\ bounds[n + 1] \in Nat
      <4>1. bounds \in Seq(Nat) /\ Len(bounds) = n + 1 /\ sent \in Seq(Frames) /\ Len(sent) = n
        BY <1>1 DEF n
      <4>2. i \in 1..n + 1 /\ i + 1 \in 1..n + 1
        BY <1>0, <3>1
      <4>3. QED
        BY <1>0, <3>1, <4>1, <4>2, Element, ZenonT(60)
    <3>3. Size(sent[i]) \in Nat
      BY <3>2, EncodedBytes DEF Size, HEADER_LEN
    <3>4. bounds[i + 1] = bounds[i] + Size(sent[i])
      BY <3>1 DEF InPlace, n
    <3>5. bounds[i + 1] <= bounds[n + 1]
      <4>1. CASE i = n
        BY <3>2, <4>1
      <4>2. CASE i # n
        <5>1. i + 1 \in 1..n + 1 /\ n + 1 \in 1..n + 1 /\ i + 1 < n + 1
          BY <1>1, <3>1, <4>2
        <5>2. bounds[i + 1] + HEADER_LEN <= bounds[n + 1]
          BY <5>1 DEF InPlace, n
        <5>3. QED
          BY <3>2, <5>2 DEF HEADER_LEN
      <4>3. QED
        BY <4>1, <4>2
    <3>6. bounds[i] + p \in 1..Len(bytes) /\ p \in 1..Size(sent[i])
      <4>1. p \in 1..Size(sent[i]) /\ p \in Nat
        BY <1>12, <3>1, <3>3
      <4>2. bounds[i] + p <= bounds[n + 1] /\ bounds[i] + p \in Nat /\ bounds[i] + p >= 1
        BY <3>2, <3>3, <3>4, <3>5, <4>1
      <4>3. QED
        BY <1>1, <4>1, <4>2
    <3>7. bytes[bounds[i] + p] = encode(sent[i])[p]
      BY <3>1, <3>6 DEF InPlace, n
    <3>8. QED
      BY <1>4, <3>1, <3>6, <3>7
  <2>3. QED
    BY <2>1, <2>2
<1>13. QED
  BY <1>1, <1>4, <1>7, <1>8, <1>9, <1>10, <1>11, <1>12 DEF InPlace

(* The other steps leave the frames in the stream where they are. *)
LEMMA OtherStepsKeep ==
    ASSUME InPlace,
           \/ Close \/ Break \/ DecodeFrame \/ DecodeError \/ Eof \/ ReadError \/ UNCHANGED vars
           \/ \E n \in 1..(Len(bytes) - arrived) : Read(n)
    PROVE  InPlace'
<1>1. CASE UNCHANGED vars
  BY <1>1 DEF vars, InPlace, TypeOK
<1>2. CASE Close
  BY <1>2 DEF Close, InPlace, TypeOK
<1>3. CASE Break
  <2>1. PICK n \in arrived..Len(bytes) : bytes' = SubSeq(bytes, 1, n)
    BY <1>3 DEF Break
  <2>2. /\ bytes \in Seq(Byte) /\ Len(bytes) \in Nat /\ arrived \in 0..Len(bytes)
        /\ bounds[Len(sent) + 1] \in Nat /\ Len(bytes) <= bounds[Len(sent) + 1]
    BY DEF InPlace, TypeOK
  <2>3. n \in Nat /\ n <= Len(bytes) /\ arrived <= n
    BY <2>1, <2>2
  <2>4. /\ bytes' \in Seq(Byte) /\ Len(bytes') = n
        /\ \A i \in 1..n : bytes'[i] = bytes[i]
    BY <2>1, <2>2, <2>3
  <2>5. /\ UNCHANGED <<arrived, consumed, sent, bounds, received, status>> /\ link' = "broken"
    BY <1>3 DEF Break
  <2>6. TypeOK'
    BY <2>2, <2>3, <2>4, <2>5 DEF InPlace, TypeOK
  <2>7. ASSUME NEW i \in 1..Len(sent), NEW p \in 1..Size(sent[i]), bounds[i] + p <= n
        PROVE  bytes'[bounds[i] + p] = encode(sent[i])[p]
    <3>1. bounds[i] \in Nat /\ sent[i] \in Frames
      <4>1. /\ bounds \in Seq(Nat) /\ Len(bounds) = Len(sent) + 1 /\ sent \in Seq(Frames)
            /\ Len(sent) \in Nat
        BY DEF InPlace, TypeOK
      <4>2. i \in 1..Len(bounds)
        BY <4>1
      <4>3. QED
        BY <4>1, <4>2, Element
    <3>2. Size(sent[i]) \in Nat
      BY <3>1, EncodedBytes DEF Size, HEADER_LEN
    <3>3. bounds[i] + p \in 1..n /\ bounds[i] + p <= Len(bytes)
      <4> DEFINE x == bounds[i]
                 z == Size(sent[i])
      <4>1. x \in Nat /\ z \in Nat /\ p \in 1..z /\ x + p <= n
        BY <2>7, <3>1, <3>2
      <4> HIDE DEF x, z
      <4>2. x + p \in 1..n /\ x + p <= Len(bytes)
        BY <2>2, <2>3, <4>1
      <4>3. QED
        BY <4>2 DEF x
    <3>4. bytes[bounds[i] + p] = encode(sent[i])[p]
      BY <3>3 DEF InPlace
    <3>5. QED
      BY <2>4, <3>3, <3>4
  <2>8. Len(bytes') <= bounds'[Len(sent') + 1]
    BY <2>2, <2>3, <2>4, <2>5
  <2>9. QED
    BY <2>4, <2>5, <2>6, <2>7, <2>8, ZenonT(60) DEF InPlace
<1>4. CASE DecodeFrame
  <2> DEFINE k == Len(received) + 1
  <2>1. HasHeader /\ HasBody
    BY <1>4 DEF DecodeFrame, decode
  <2>2. /\ k \in 1..Len(sent) /\ sent[k] \in Frames /\ DecodedFrame = sent[k]
        /\ body_len = Len(sent[k].body) /\ body_len \in Nat
    BY <2>1, Decoding
  <2>3. received' = Append(received, sent[k]) /\ consumed' = consumed + HEADER_LEN + body_len
    BY <1>4, <2>2 DEF DecodeFrame
  <2>4. UNCHANGED <<bytes, arrived, sent, bounds, status, link>>
    BY <1>4 DEF DecodeFrame
  <2>5. received \in Seq(Frame) /\ Len(received) \in Nat /\ sent[k] \in Frame /\ Len(sent) \in Nat
    <3>1. received \in Seq(Frame) /\ sent \in Seq(Frames)
      BY DEF InPlace, TypeOK
    <3>2. Len(received) \in Nat /\ Len(sent) \in Nat
      BY <3>1
    <3>3. sent[k] \in Frame
      BY <2>2, CodecAssumption
    <3>4. QED
      BY <3>1, <3>2, <3>3
  <2>6. /\ received' \in Seq(Frame) /\ Len(received') = k /\ received'[k] = sent[k]
        /\ \A i \in 1..Len(received) : received'[i] = received[i]
    BY <2>3, <2>5
  <2>7. \A i \in 1..k : received'[i] = sent[i]
    <3>1. \A i \in 1..Len(received) : received[i] = sent[i]
      BY DEF InPlace
    <3>2. QED
      BY <2>5, <2>6, <3>1
  <2>8. Len(src) > 0 /\ consumed \in Nat
    BY <2>1, Buffer DEF HasHeader, HEADER_LEN
  <2>9. bounds[k + 1] = consumed + Size(sent[k])
    BY <2>8, NextInBuffer
  <2>10. consumed' = bounds[k + 1]
    <3> HIDE DEF k
    <3>1. Size(sent[k]) = 5 + body_len
      BY <2>2 DEF Size, HEADER_LEN
    <3>2. consumed' = consumed + 5 + body_len
      BY <2>3 DEF HEADER_LEN
    <3>3. consumed \in Nat /\ body_len \in Nat
      BY <2>2, <2>8
    <3>4. consumed + 5 + body_len = consumed + (5 + body_len)
      BY <3>3
    <3>5. QED
      BY <2>9, <3>1, <3>2, <3>4, ZenonT(60)
  <2>11. consumed' \in 0..arrived
    <3>1. /\ consumed' = consumed + 5 + body_len /\ body_len \in Nat /\ consumed \in Nat
          /\ arrived - consumed >= 5 + body_len /\ arrived \in Nat
      <4>1. Len(src) >= 5 + body_len
        BY <2>1 DEF HasBody, HEADER_LEN
      <4>2. Len(src) = arrived - consumed /\ arrived \in Nat
        BY Buffer
      <4>3. QED
        BY <2>2, <2>3, <2>8, <4>1, <4>2 DEF HEADER_LEN
    <3> HIDE DEF k
    <3>2. QED
      BY <3>1
  <2>12. TypeOK'
    BY <2>4, <2>6, <2>11 DEF InPlace, TypeOK
  <2>13. /\ Len(received') <= Len(sent') /\ \A i \in 1..Len(received') : received'[i] = sent'[i]
         /\ consumed' = bounds'[Len(received') + 1]
    BY <2>2, <2>4, <2>5, <2>6, <2>7, <2>10
  <2> HIDE DEF k
  <2>14. QED
    BY <2>4, <2>12, <2>13 DEF InPlace
<1>5. CASE DecodeError
  BY <1>5 DEF DecodeError, InPlace, TypeOK
<1>6. CASE Eof \/ ReadError
  BY <1>6 DEF Eof, ReadError, InPlace, TypeOK
<1>7. ASSUME NEW n \in 1..(Len(bytes) - arrived), Read(n) PROVE InPlace'
  <2>1. /\ arrived' = arrived + n
        /\ UNCHANGED <<bytes, consumed, sent, bounds, received, status, link>>
    BY <1>7 DEF Read
  <2>2. arrived' \in 0..Len(bytes) /\ consumed \in 0..arrived'
    BY <2>1, Buffer
  <2>3. TypeOK'
    BY <2>1, <2>2 DEF InPlace, TypeOK
  <2>4. QED
    BY <2>1, <2>3 DEF InPlace
<1>8. QED
  BY <1>1, <1>2, <1>3, <1>4, <1>5, <1>6, <1>7

(* The decoder always stands at the beginning of a frame. *)
THEOREM AlwaysInPlace == Spec => []InPlace
<1>1. Init => InPlace
  BY DEF Init, InPlace, TypeOK
<1>2. InPlace /\ [Next]_vars => InPlace'
  BY SendKeeps, OtherStepsKeep DEF Next, Receive
<1>3. QED
  BY <1>1, <1>2, PTL DEF Spec

(* The frames that come out are the frames that went in, however the bytes *)
(* were cut into pieces.                                                   *)
THEOREM CodecImplementsChannel == Spec => ImplementsChannel
<1>1. Init => Channel!Init
  BY DEF Init, Channel!Init
<1>2. InPlace /\ [Next]_vars => [Channel!Next]_(Channel!vars)
  <2> SUFFICES ASSUME InPlace, [Next]_vars PROVE Channel!Next \/ UNCHANGED Channel!vars
    OBVIOUS
  <2> DEFINE k == Len(received) + 1
  <2>0. Len(sent) \in Nat /\ Len(received) \in Nat /\ Len(received) <= Len(sent)
    BY DEF InPlace, TypeOK
  <2>1. ASSUME NEW f \in Frames, Send(f) PROVE Channel!Next
    BY <2>1 DEF Send, Channel!Next, Channel!Send
  <2>2. CASE Close \/ Break
    BY <2>2 DEF Close, Break, Channel!Next, Channel!Close
  <2>3. CASE DecodeFrame
    <3>1. HasHeader /\ HasBody /\ ~TooLarge /\ src[1] \in Tags
      BY <2>3 DEF DecodeFrame, decode
    <3>2. /\ k \in 1..Len(sent) /\ DecodedFrame = sent[k] /\ src[1] = sent[k].tag
          /\ body_len = Len(sent[k].body) /\ body_len \in Nat
      BY <3>1, Decoding
    <3>3. Acceptable(sent[k])
      BY <3>1, <3>2, CodecAssumption DEF Acceptable, TooLarge
    <3>4. Channel!Deliver
      BY <2>0, <2>3, <3>2, <3>3 DEF DecodeFrame, Channel!Deliver, Channel!Owing, Channel!Upcoming
    <3>5. QED
      BY <3>4 DEF Channel!Next
  <2>4. CASE DecodeError
    <3>1. HasHeader /\ (TooLarge \/ src[1] \notin Tags)
      BY <2>4 DEF DecodeError, decode
    <3>2. /\ k \in 1..Len(sent) /\ src[1] = sent[k].tag
          /\ body_len = Len(sent[k].body) /\ body_len \in Nat
      BY <3>1, Decoding
    <3>3. ~Acceptable(sent[k])
      BY <3>1, <3>2, CodecAssumption DEF Acceptable, TooLarge
    <3>4. Channel!Fail
      BY <2>0, <2>4, <3>2, <3>3 DEF DecodeError, Channel!Fail, Channel!Owing, Channel!Upcoming
    <3>5. QED
      BY <3>4 DEF Channel!Next
  <2>5. CASE Eof
    <3>1. /\ status = "reading" /\ link # "open" /\ decode = "None" /\ arrived = Len(bytes)
          /\ status' = IF src = <<>> THEN "ended" ELSE "failed"
          /\ UNCHANGED <<sent, received, link>>
      BY <2>5 DEF Eof
    <3>2. CASE src = <<>>
      <4>1. consumed = Len(bytes)
        BY <3>1, <3>2, Buffer
      <4>2. CASE link # "broken"
        <5>1. bounds[k] = bounds[Len(sent) + 1]
          BY <4>1, <4>2 DEF InPlace
        <5>2. ASSUME Len(received) < Len(sent) PROVE FALSE
          <6>1. k \in 1..Len(sent) + 1 /\ Len(sent) + 1 \in 1..Len(sent) + 1 /\ k < Len(sent) + 1
            BY <2>0, <5>2
          <6>2. bounds[k] + HEADER_LEN <= bounds[Len(sent) + 1]
            BY <6>1 DEF InPlace
          <6>3. bounds[k] \in Nat
            BY <6>1 DEF InPlace, TypeOK
          <6>4. QED
            BY <5>1, <6>2, <6>3 DEF HEADER_LEN
        <5>3. Channel!End
          BY <3>1, <3>2, <5>2 DEF Channel!End, Channel!Owing
        <5>4. QED
          BY <5>3 DEF Channel!Next
      <4>3. CASE link = "broken"
        BY <3>1, <3>2, <4>3 DEF Channel!Next, Channel!End
      <4>4. QED
        BY <4>2, <4>3
    <3>3. CASE src # <<>>
      <4>1. Len(src) > 0 /\ Len(src) = Len(bytes) - consumed /\ Len(bytes) \in Nat /\ consumed \in Nat
        BY <3>1, <3>3, Buffer DEF src
      <4>2. /\ k \in 1..Len(sent) /\ sent[k] \in Frames
            /\ consumed + Size(sent[k]) <= bounds[Len(sent) + 1]
        BY <4>1, NextInBuffer
      <4>3. CASE link # "broken"
        <5>1. Len(src) >= Size(sent[k]) /\ Len(sent[k].body) \in Nat
          <6>1. Len(sent[k].body) \in Nat
            BY <4>2, EncodedBytes
          <6>2. Len(bytes) = bounds[Len(sent) + 1]
            BY <4>3 DEF InPlace
          <6>3. QED
            BY <4>1, <4>2, <6>1, <6>2 DEF Size, HEADER_LEN
        <5>2. HasHeader
          BY <4>1, <5>1 DEF HasHeader, Size, HEADER_LEN
        <5>3. body_len = Len(sent[k].body)
          BY <5>2, Decoding
        <5>4. HasBody
          BY <4>1, <5>1, <5>3 DEF HasBody, Size, HEADER_LEN
        <5>5. QED
          BY <3>1, <5>2, <5>4 DEF decode
      <4>4. CASE link = "broken"
        BY <2>0, <3>1, <3>3, <4>2, <4>4 DEF Channel!Next, Channel!Fail, Channel!Owing
      <4>5. QED
        BY <4>3, <4>4
    <3>4. QED
      BY <3>2, <3>3
  <2>6. ASSUME NEW n \in 1..(Len(bytes) - arrived), Read(n) PROVE UNCHANGED Channel!vars
    BY <2>6 DEF Read, Channel!vars
  <2>7. CASE UNCHANGED vars
    BY <2>7 DEF vars, Channel!vars
  <2>8. CASE ReadError
    BY <2>8 DEF ReadError, Channel!Next, Channel!Fail
  <2>9. QED
    BY <2>1, <2>2, <2>3, <2>4, <2>5, <2>6, <2>7, <2>8 DEF Next, Receive
<1>3. QED
  BY AlwaysInPlace, <1>1, <1>2, PTL DEF Spec, Channel!Spec, ImplementsChannel
=============================================================================
