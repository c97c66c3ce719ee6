----------------------- MODULE ControlTransportProofs -----------------------
(***************************************************************************)
(* Both byte streams of the control transport keep their order and lose    *)
(* nothing in between, for every capacity of the channels and however the  *)
(* chunks, segments and read buffers are cut.                              *)
(***************************************************************************)
EXTENDS ControlTransport, SequenceTheorems, TLAPS

\* s holds the numbers after a, in order.
Stretch(s, a) == \A i \in 1 .. Len(s) : s[i] = a + i

(* What FirstOf and RestOf cut a stretch into are adjacent stretches. *)
LEMMA CutStretch ==
  ASSUME NEW s \in Seq(Nat), NEW a \in Nat, Stretch(s, a), NEW n \in Nat \ {0}
  PROVE  /\ FirstOf(s, n) \in Seq(Nat) /\ RestOf(s, n) \in Seq(Nat)
         /\ Len(FirstOf(s, n)) + Len(RestOf(s, n)) = Len(s)
         /\ Stretch(FirstOf(s, n), a) /\ Stretch(RestOf(s, n), a + Len(FirstOf(s, n)))
<1>1. Len(s) \in Nat /\ \A i \in 1 .. Len(s) : s[i] \in Nat
  BY LenProperties, ElementOfSeq
<1>2. PICK m \in Nat : m = (IF n < Len(s) THEN n ELSE Len(s))
  BY <1>1
<1>a. m <= Len(s) /\ (n < Len(s) => m = n) /\ (~(n < Len(s)) => m = Len(s))
  BY <1>1, <1>2
<1>3. PICK f \in Seq(Nat) : f = SubSeq(s, 1, m) /\ Len(f) = m /\ \A i \in 1 .. m : f[i] = s[i]
  <2>1. 1 \in Int /\ m \in Int /\ \A i \in 1 .. m : s[i] \in Nat
    BY <1>1, <1>2
  <2>2. PICK f \in Seq(Nat) : f = SubSeq(s, 1, m)
    BY <2>1, SubSeqProperties, Zenon
  <2>3. Len(f) = m /\ \A i \in 1 .. m : f[i] = s[i]
    BY <1>2, <2>1, <2>2, SubSeqProperties
  <2>4. QED
    BY <2>2, <2>3, Zenon
<1>4. PICK r \in Seq(Nat) :
        r = SubSeq(s, n + 1, Len(s)) /\ Len(r) = Len(s) - m /\ \A i \in 1 .. Len(r) : r[i] = s[m + i]
  <2>1. n + 1 \in Int /\ Len(s) \in Int /\ \A i \in n + 1 .. Len(s) : s[i] \in Nat
    BY <1>1
  <2>2. PICK r \in Seq(Nat) : r = SubSeq(s, n + 1, Len(s))
    BY <2>1, SubSeqProperties, Zenon
  <2>3. /\ Len(r) = IF n + 1 <= Len(s) THEN Len(s) - n ELSE 0
        /\ \A i \in 1 .. Len(s) - n : r[i] = s[n + i]
    BY <1>1, <2>1, <2>2, SubSeqProperties
  <2>4. Len(r) = Len(s) - m
    <3>1. CASE n < Len(s)
      BY <1>a, <1>1, <2>3, <3>1
    <3>2. CASE ~(n < Len(s))
      BY <1>a, <1>1, <2>3, <3>2
    <3>3. QED
      BY <3>1, <3>2
  <2>5. ASSUME NEW i \in 1 .. Len(r) PROVE r[i] = s[m + i]
    <3>1. m = n /\ i \in 1 .. Len(s) - n
      BY <1>1, <1>2, <2>3
    <3>2. QED
      BY <2>3, <3>1
  <2>6. QED
    BY <2>2, <2>4, <2>5, Zenon
<1>5. f = FirstOf(s, n) /\ r = RestOf(s, n)
  BY <1>2, <1>3, <1>4, Zenon DEF FirstOf, RestOf
<1>6. Len(f) + Len(r) = Len(s)
  <2>1. Len(f) = m /\ Len(r) = Len(s) - m
    BY <1>3, <1>4
  <2>2. QED
    BY <1>1, <2>1
<1>7. Stretch(f, a)
  <2> SUFFICES ASSUME NEW i \in 1 .. Len(f) PROVE f[i] = a + i
    BY DEF Stretch
  <2>1. i \in 1 .. m /\ i \in 1 .. Len(s)
    BY <1>1, <1>2, <1>3
  <2>2. QED
    BY <1>3, <2>1 DEF Stretch
<1>8. Stretch(r, a + Len(f))
  <2> SUFFICES ASSUME NEW i \in 1 .. Len(r) PROVE r[i] = a + Len(f) + i
    BY DEF Stretch
  <2>1. m + i \in 1 .. Len(s)
    <3>1. i \in 1 .. Len(s) - m
      BY <1>4
    <3>2. QED
      BY <1>1, <3>1
  <2>2. r[i] = s[m + i] /\ s[m + i] = a + (m + i)
    BY <1>4, <2>1 DEF Stretch
  <2>3. QED
    BY <1>3, <2>2
<1>9. QED
  BY <1>5, <1>6, <1>7, <1>8

(* A stretch grows by the stretch that follows it. *)
LEMMA JoinStretch ==
  ASSUME NEW s \in Seq(Nat), Stretch(s, 0), NEW f \in Seq(Nat), Stretch(f, Len(s))
  PROVE  s \o f \in Seq(Nat) /\ Len(s \o f) = Len(s) + Len(f) /\ Stretch(s \o f, 0)
<1>1. Len(s) \in Nat /\ Len(f) \in Nat
  BY LenProperties
<1>2. PICK t \in Seq(Nat) :
        /\ t = s \o f /\ Len(t) = Len(s) + Len(f)
        /\ \A i \in 1 .. Len(t) : t[i] = IF i <= Len(s) THEN s[i] ELSE f[i - Len(s)]
  <2>1. PICK t \in Seq(Nat) : t = s \o f
    BY ConcatProperties, Zenon
  <2>2. /\ Len(t) = Len(s) + Len(f)
        /\ \A i \in 1 .. Len(t) : t[i] = IF i <= Len(s) THEN s[i] ELSE f[i - Len(s)]
    BY <2>1, ConcatProperties
  <2>3. QED
    BY <2>1, <2>2, Zenon
<1>3. Stretch(t, 0)
  <2> SUFFICES ASSUME NEW i \in 1 .. Len(t) PROVE t[i] = 0 + i
    BY DEF Stretch
  <2>1. CASE i <= Len(s)
    BY <1>1, <1>2, <2>1 DEF Stretch
  <2>2. CASE ~(i <= Len(s))
    <3>1. i - Len(s) \in 1 .. Len(f)
      BY <1>1, <1>2, <2>2
    <3>2. t[i] = f[i - Len(s)] /\ f[i - Len(s)] = Len(s) + (i - Len(s))
      BY <1>2, <2>2, <3>1 DEF Stretch
    <3>3. QED
      BY <1>1, <3>2
  <2>3. QED
    BY <2>1, <2>2
<1>4. QED
  BY <1>2, <1>3

(* Chunk k + 1 holds the bytes after the first k chunks. *)
LEMMA ChunkStretch ==
  ASSUME NEW k \in Nat
  PROVE  /\ Chunk(k + 1) \in Seq(Nat) /\ Len(Chunk(k + 1)) = ChunkLen
         /\ Stretch(Chunk(k + 1), k * ChunkLen)
         /\ k * ChunkLen \in Nat /\ k * ChunkLen + ChunkLen = (k + 1) * ChunkLen
<1>1. ChunkLen \in Nat /\ k * ChunkLen \in Nat /\ k * ChunkLen + ChunkLen = (k + 1) * ChunkLen
  BY TransportAssumption
<1>2. PICK b \in Nat : b = k * ChunkLen
  BY <1>1
<1>3. Chunk(k + 1) = [i \in 1 .. ChunkLen |-> b + i]
  <2>1. (k + 1) - 1 = k
    OBVIOUS
  <2>2. QED
    BY <1>2, <2>1 DEF Chunk
<1>4. [i \in 1 .. ChunkLen |-> b + i] \in Seq(Nat) /\ Len([i \in 1 .. ChunkLen |-> b + i]) = ChunkLen
  BY <1>1
<1>5. Stretch(Chunk(k + 1), b)
  BY <1>3, <1>4, Zenon DEF Stretch
<1>6. QED
  BY <1>1, <1>2, <1>3, <1>4, <1>5

\* q holds the chunks after the first k.
Chunks(q, k) == \A i \in 1 .. Len(q) : q[i] = Chunk(k + i)

(* Taking a chunk out of a channel. *)
LEMMA ChannelReceive ==
  ASSUME NEW q \in Seq(Seq(Nat)), q # <<>>, NEW k \in Nat, Chunks(q, k)
  PROVE  /\ Head(q) = Chunk(k + 1)
         /\ Tail(q) \in Seq(Seq(Nat)) /\ Len(Tail(q)) = Len(q) - 1 /\ Chunks(Tail(q), k + 1)
<1>1. Len(q) \in Nat \ {0}
  BY EmptySeq
<1>2. PICK t \in Seq(Seq(Nat)) :
        t = Tail(q) /\ Len(t) = Len(q) - 1 /\ \A i \in 1 .. Len(t) : t[i] = q[i + 1]
  BY HeadTailProperties, Zenon
<1>3. Head(q) = Chunk(k + 1)
  BY <1>1 DEF Chunks
<1>4. Chunks(t, k + 1)
  <2> SUFFICES ASSUME NEW i \in 1 .. Len(t) PROVE t[i] = Chunk(k + 1 + i)
    BY DEF Chunks
  <2>1. i + 1 \in 1 .. Len(q) /\ k + (i + 1) = k + 1 + i
    BY <1>1, <1>2
  <2>2. t[i] = q[i + 1] /\ q[i + 1] = Chunk(k + (i + 1))
    BY <1>2, <2>1 DEF Chunks
  <2>3. QED
    BY <2>1, <2>2
<1>5. QED
  BY <1>2, <1>3, <1>4

(* Putting the next chunk into a channel. *)
LEMMA ChannelSend ==
  ASSUME NEW q \in Seq(Seq(Nat)), NEW k \in Nat, Chunks(q, k), NEW n \in Nat, n = k + Len(q) + 1
  PROVE  /\ Append(q, Chunk(n)) \in Seq(Seq(Nat))
         /\ Len(Append(q, Chunk(n))) = Len(q) + 1 /\ Chunks(Append(q, Chunk(n)), k)
<1>1. Len(q) \in Nat
  BY LenProperties
<1>2. PICK c \in Seq(Nat) : c = Chunk(n)
  <2>1. PICK l \in Nat : l = k + Len(q)
    BY <1>1
  <2>2. Chunk(l + 1) \in Seq(Nat)
    BY ChunkStretch, Zenon
  <2>3. n = l + 1
    BY <2>1
  <2>4. QED
    BY <2>2, <2>3
<1>3. PICK a \in Seq(Seq(Nat)) : a = Append(q, c)
  BY AppendProperties, Zenon
<1>4. Len(a) = Len(q) + 1 /\ (\A i \in 1 .. Len(q) : a[i] = q[i]) /\ a[Len(q) + 1] = c
  BY <1>3, AppendProperties
<1>5. Chunks(a, k)
  <2> SUFFICES ASSUME NEW i \in 1 .. Len(a) PROVE a[i] = Chunk(k + i)
    BY DEF Chunks
  <2>1. CASE i \in 1 .. Len(q)
    BY <1>4, <2>1 DEF Chunks
  <2>2. CASE i = Len(q) + 1
    <3>1. k + i = n
      BY <1>1, <2>2
    <3>2. QED
      BY <1>2, <1>4, <2>2, <3>1
  <2>3. QED
    BY <1>1, <1>4, <2>1, <2>2
<1>6. QED
  BY <1>2, <1>3, <1>4, <1>5

\* The first k chunks are read, or in readBuf, and the next ones are in the
\* inbound channel.  The relay has taken no other, except the one it is about
\* to inject and those that came after Close.
ReceivedTo(k) ==
  /\ Stretch(bytesRead, 0) /\ Stretch(readBuf, Len(bytesRead))
  /\ Len(bytesRead) + Len(readBuf) = k * ChunkLen
  /\ Chunks(inbound, k)
  /\ k + Len(inbound) <= taken
  /\ relay = "inject" => k + Len(inbound) + 1 = taken
  /\ (relay # "inject" /\ closing = "no") => k + Len(inbound) = taken

Received == \E k \in Nat : ReceivedTo(k)

\* The first k chunks are sent, or in the sender's hands, and all others that
\* Write accepted are in the outbound channel.
SentTo(k) ==
  /\ Stretch(bytesSent, 0) /\ Stretch(chunk, Len(bytesSent))
  /\ Len(bytesSent) + Len(chunk) = k * ChunkLen
  /\ Chunks(outbound, k)
  /\ k + Len(outbound) = written

Sent == \E k \in Nat : SentTo(k)


RecvTypes ==
  /\ inbound \in Seq(Seq(Nat)) /\ readBuf \in Seq(Nat) /\ bytesRead \in Seq(Nat)
  /\ taken \in Nat
SendTypes ==
  /\ outbound \in Seq(Seq(Nat)) /\ chunk \in Seq(Nat) /\ bytesSent \in Seq(Nat)
  /\ written \in Nat

(* Moving the first n bytes from the head of what is to come to the end of  *)
(* what has been: the stretches stay adjacent.                              *)
LEMMA PassOn ==
  ASSUME NEW s \in Seq(Nat), Stretch(s, 0), NEW b \in Seq(Nat), Stretch(b, Len(s)),
         NEW n \in Nat \ {0}
  PROVE  \E t, r \in Seq(Nat) :
           /\ t = s \o FirstOf(b, n) /\ r = RestOf(b, n)
           /\ Stretch(t, 0) /\ Stretch(r, Len(t))
           /\ Len(t) + Len(r) = Len(s) + Len(b)
<1>1. PICK A \in Nat : A = Len(s)
  BY LenProperties
<1>2. b \in Seq(Nat) /\ A \in Nat /\ Stretch(b, A) /\ n \in Nat \ {0}
  BY <1>1
<1>3. PICK f, r \in Seq(Nat) :
        /\ f = FirstOf(b, n) /\ r = RestOf(b, n)
        /\ Len(f) + Len(r) = Len(b)
        /\ Stretch(f, A) /\ Stretch(r, A + Len(f))
  <2>1. /\ FirstOf(b, n) \in Seq(Nat) /\ RestOf(b, n) \in Seq(Nat)
        /\ Len(FirstOf(b, n)) + Len(RestOf(b, n)) = Len(b)
        /\ Stretch(FirstOf(b, n), A) /\ Stretch(RestOf(b, n), A + Len(FirstOf(b, n)))
    BY <1>2, CutStretch, Zenon
  <2>2. QED
    BY <2>1
<1>4. Stretch(f, Len(s))
  BY <1>1, <1>3
<1>5. PICK t \in Seq(Nat) : t = s \o f /\ Len(t) = Len(s) + Len(f) /\ Stretch(t, 0)
  BY <1>4, JoinStretch, Zenon
<1>6. Len(t) + Len(r) = Len(s) + Len(b)
  <2>1. PICK F, R, B \in Nat : F = Len(f) /\ R = Len(r) /\ B = Len(b)
    BY LenProperties
  <2>2. F + R = B
    BY <1>3, <2>1
  <2>3. Len(t) = A + F
    BY <1>1, <1>5, <2>1
  <2>4. (A + F) + R = A + B
    BY <2>2
  <2>5. QED
    BY <1>1, <2>1, <2>3, <2>4
<1>7. Stretch(r, Len(t))
  <2>1. Len(t) = A + Len(f)
    BY <1>1, <1>5
  <2>2. QED
    BY <1>3, <2>1
<1>8. t = s \o FirstOf(b, n) /\ r = RestOf(b, n) /\ Stretch(t, 0)
  BY <1>3, <1>5
<1>9. QED
  BY <1>6, <1>7, <1>8, Zenon

(* Read passes bytes on in order, from the leftover or from the next chunk. *)
LEMMA ReadStep ==
  ASSUME RecvTypes, Received, NEW n \in 1 .. ChunkLen, Read(n)
  PROVE  (RecvTypes /\ Received)'
<1>1. PICK k \in Nat : ReceivedTo(k)
  BY DEF Received
<1>2. n \in Nat \ {0} /\ Len(bytesRead) \in Nat /\ Len(inbound) \in Nat
  BY TransportAssumption, LenProperties DEF RecvTypes
<1>3. taken' = taken /\ relay' = relay /\ closing' = closing
  BY DEF Read, below
<1>4. bytesRead \in Seq(Nat) /\ Stretch(bytesRead, 0)
  BY <1>1 DEF RecvTypes, ReceivedTo
<1>5. CASE readBuf # <<>>
  <2>1. readBuf \in Seq(Nat) /\ Stretch(readBuf, Len(bytesRead))
    BY <1>1 DEF RecvTypes, ReceivedTo
  <2>2. PICK t, r \in Seq(Nat) :
          /\ t = bytesRead \o FirstOf(readBuf, n) /\ r = RestOf(readBuf, n)
          /\ Stretch(t, 0) /\ Stretch(r, Len(t))
          /\ Len(t) + Len(r) = Len(bytesRead) + Len(readBuf)
    BY <1>2, <1>4, <2>1, PassOn, Zenon
  <2>3. bytesRead' = t /\ readBuf' = r /\ inbound' = inbound
    BY <1>5, <2>2 DEF Read
  <2>4. ReceivedTo(k)'
    BY <1>1, <1>3, <2>2, <2>3 DEF ReceivedTo, Chunks
  <2>5. QED
    BY <1>3, <2>2, <2>3, <2>4 DEF RecvTypes, Received
<1>6. CASE readBuf = <<>>
  <2>1. inbound # <<>> /\ inbound' = Tail(inbound) /\ Len(readBuf) = 0
    BY <1>6 DEF Read
  <2>2. /\ Head(inbound) = Chunk(k + 1) /\ inbound' \in Seq(Seq(Nat))
        /\ Len(inbound') = Len(inbound) - 1 /\ Chunks(inbound', k + 1)
    BY <1>1, <2>1, ChannelReceive DEF RecvTypes, ReceivedTo
  <2>3. k * ChunkLen = Len(bytesRead) /\ k * ChunkLen + ChunkLen = (k + 1) * ChunkLen
    BY <1>1, <1>2, <2>1, ChunkStretch DEF ReceivedTo
  <2>4. PICK b \in Seq(Nat) : b = Head(inbound) /\ Len(b) = ChunkLen /\ Stretch(b, Len(bytesRead))
    BY <2>2, <2>3, ChunkStretch
  <2>5. PICK t, r \in Seq(Nat) :
          /\ t = bytesRead \o FirstOf(b, n) /\ r = RestOf(b, n)
          /\ Stretch(t, 0) /\ Stretch(r, Len(t))
          /\ Len(t) + Len(r) = Len(bytesRead) + Len(b)
    BY <1>2, <1>4, <2>4, PassOn, Zenon
  <2>6. bytesRead' = t /\ readBuf' = r
    BY <1>6, <2>4, <2>5 DEF Read
  <2>7. Len(t) + Len(r) = (k + 1) * ChunkLen
    BY <2>3, <2>4, <2>5, Zenon
  <2>8. k + 1 + Len(inbound') = k + Len(inbound)
    BY <1>2, <2>2
  <2>9. ReceivedTo(k + 1)'
    BY <1>1, <1>3, <2>2, <2>5, <2>6, <2>7, <2>8 DEF ReceivedTo, Chunks
  <2>10. QED
    BY <1>3, <2>2, <2>5, <2>6, <2>9 DEF RecvTypes, Received
<1>7. QED
  BY <1>5, <1>6

(* The relay takes a packet out of its channel and decides what to do. *)
LEMMA DispatchStep ==
  ASSUME RecvTypes, Received, dispatch
  PROVE  (RecvTypes /\ Received)'
<1>1. PICK k \in Nat : ReceivedTo(k)
  BY DEF Received
<1>2. /\ inbound' = inbound /\ readBuf' = readBuf /\ bytesRead' = bytesRead /\ closing' = closing
      /\ relay = "select"
  BY DEF dispatch, channels, above
<1>3. Len(inbound) \in Nat /\ taken \in Nat
  BY LenProperties DEF RecvTypes
<1>4. \/ taken' = taken /\ relay' = "closing"
      \/ taken' = taken + 1 /\ closing = "no" /\ relay' = "inject"
      \/ taken' = taken + 1 /\ closing # "no" /\ relay' = "select"
  BY DEF dispatch
<1>5. /\ k + Len(inbound) <= taken'
      /\ relay' = "inject" => k + Len(inbound) + 1 = taken'
      /\ (relay' # "inject" /\ closing = "no") => k + Len(inbound) = taken'
  BY <1>1, <1>2, <1>3, <1>4 DEF ReceivedTo
<1>6. ReceivedTo(k)'
  BY <1>1, <1>2, <1>5 DEF ReceivedTo, Chunks
<1>7. QED
  BY <1>2, <1>3, <1>4, <1>6 DEF RecvTypes, Received

(* InjectInbound appends the chunk the relay took last. *)
LEMMA InjectStep ==
  ASSUME RecvTypes, Received, InjectInbound
  PROVE  (RecvTypes /\ Received)'
<1>1. PICK k \in Nat : ReceivedTo(k)
  BY DEF Received
<1>2. /\ readBuf' = readBuf /\ bytesRead' = bytesRead /\ closing' = closing /\ taken' = taken
      /\ relay = "inject"
  BY DEF InjectInbound, above
<1>3. Len(inbound) \in Nat /\ taken \in Nat
  BY LenProperties DEF RecvTypes
<1>4. CASE inbound' = inbound /\ relay' = relay
  <2>1. ReceivedTo(k)'
    BY <1>1, <1>2, <1>4 DEF ReceivedTo, Chunks
  <2>2. QED
    BY <1>2, <1>4, <2>1 DEF RecvTypes, Received
<1>5. CASE inbound' = Append(inbound, Chunk(taken)) /\ relay' = "select"
  <2>1. inbound \in Seq(Seq(Nat)) /\ Chunks(inbound, k) /\ taken = k + Len(inbound) + 1
    BY <1>1, <1>2 DEF RecvTypes, ReceivedTo
  <2>2. inbound' \in Seq(Seq(Nat)) /\ Len(inbound') = Len(inbound) + 1 /\ Chunks(inbound', k)
    BY <1>3, <1>5, <2>1, ChannelSend
  <2>3. k + Len(inbound') = taken
    BY <1>3, <2>1, <2>2
  <2>4. ReceivedTo(k)'
    BY <1>1, <1>2, <1>3, <1>5, <2>2, <2>3 DEF ReceivedTo, Chunks
  <2>5. QED
    BY <1>2, <2>2, <2>4 DEF RecvTypes, Received
<1>6. QED
  BY <1>4, <1>5 DEF InjectInbound

(* The steps that only close the transport, or touch nothing of the inbound *)
(* stream.                                                                  *)
LEMMA OtherReceive ==
  ASSUME RecvTypes, Received,
         UNCHANGED <<inbound, readBuf, bytesRead, taken>>,
         \/ relay' = relay
         \/ relay # "inject" /\ relay' # "inject",
         closing' = closing \/ closing' # "no"
  PROVE  (RecvTypes /\ Received)'
<1>1. PICK k \in Nat : ReceivedTo(k)
  BY DEF Received
<1>2. ReceivedTo(k)'
  BY <1>1 DEF ReceivedTo, Chunks
<1>3. QED
  BY <1>2 DEF RecvTypes, Received

(* Write's send appends the next chunk to the outbound channel. *)
LEMMA WriteStep ==
  ASSUME SendTypes, Sent, WriteSend
  PROVE  (SendTypes /\ Sent)'
<1>1. PICK k \in Nat : SentTo(k)
  BY DEF Sent
<1>2. chunk' = chunk /\ bytesSent' = bytesSent
  BY DEF WriteSend, below
<1>3. Len(outbound) \in Nat /\ written \in Nat /\ written + 1 \in Nat
  BY LenProperties DEF SendTypes
<1>4. CASE outbound' = outbound /\ written' = written
  <2>1. SentTo(k)'
    BY <1>1, <1>2, <1>4 DEF SentTo, Chunks
  <2>2. QED
    BY <1>2, <1>4, <2>1 DEF SendTypes, Sent
<1>5. CASE outbound' = Append(outbound, Chunk(written + 1)) /\ written' = written + 1
  <2>1. outbound \in Seq(Seq(Nat)) /\ Chunks(outbound, k) /\ written = k + Len(outbound)
    BY <1>1 DEF SendTypes, SentTo
  <2>2. PICK n \in Nat : n = written + 1 /\ n = k + Len(outbound) + 1
    BY <1>3, <2>1
  <2>3. outbound' \in Seq(Seq(Nat)) /\ Len(outbound') = Len(outbound) + 1 /\ Chunks(outbound', k)
    BY <1>5, <2>1, <2>2, ChannelSend
  <2>4. k + Len(outbound') = written'
    BY <1>3, <1>5, <2>1, <2>3
  <2>5. SentTo(k)'
    BY <1>1, <1>2, <2>3, <2>4 DEF SentTo, Chunks
  <2>6. QED
    BY <1>2, <1>3, <1>5, <2>3, <2>5 DEF SendTypes, Sent
<1>6. QED
  BY <1>4, <1>5 DEF WriteSend

(* The sender takes the chunk that follows what it has sent. *)
LEMMA NextChunkStep ==
  ASSUME SendTypes, Sent, nextChunk
  PROVE  (SendTypes /\ Sent)'
<1>1. PICK k \in Nat : SentTo(k)
  BY DEF Sent
<1>2. /\ bytesSent' = bytesSent /\ written' = written
      /\ outbound # <<>> /\ outbound' = Tail(outbound) /\ chunk' = Head(outbound)
      /\ Len(chunk) = 0
  BY DEF nextChunk, above
<1>3. Len(bytesSent) \in Nat /\ Len(outbound) \in Nat
  BY LenProperties DEF SendTypes
<1>4. /\ Head(outbound) = Chunk(k + 1) /\ outbound' \in Seq(Seq(Nat))
      /\ Len(outbound') = Len(outbound) - 1 /\ Chunks(outbound', k + 1)
  BY <1>1, <1>2, ChannelReceive DEF SendTypes, SentTo
<1>5. k * ChunkLen = Len(bytesSent) /\ k * ChunkLen + ChunkLen = (k + 1) * ChunkLen
  BY <1>1, <1>2, <1>3, ChunkStretch DEF SentTo
<1>6. chunk' \in Seq(Nat) /\ Len(chunk') = ChunkLen /\ Stretch(chunk', Len(bytesSent))
  BY <1>2, <1>4, <1>5, ChunkStretch
<1>7. Len(bytesSent) + Len(chunk') = (k + 1) * ChunkLen
  BY <1>5, <1>6
<1>8. k + 1 + Len(outbound') = k + Len(outbound)
  BY <1>3, <1>4
<1>9. SentTo(k + 1)'
  BY <1>1, <1>2, <1>4, <1>6, <1>7, <1>8 DEF SentTo, Chunks
<1>10. QED
  BY <1>2, <1>4, <1>6, <1>9 DEF SendTypes, Sent

(* The sender queues and writes a segment. *)
LEMMA SegmentStep ==
  ASSUME SendTypes, Sent, sendSegment
  PROVE  (SendTypes /\ Sent)'
<1>1. PICK k \in Nat : SentTo(k)
  BY DEF Sent
<1>2. /\ bytesSent \in Seq(Nat) /\ Stretch(bytesSent, 0)
      /\ chunk \in Seq(Nat) /\ Stretch(chunk, Len(bytesSent)) /\ SegLen \in Nat \ {0}
  BY <1>1, TransportAssumption DEF SendTypes, SentTo
<1>3. PICK t, r \in Seq(Nat) :
        /\ t = bytesSent \o FirstOf(chunk, SegLen) /\ r = RestOf(chunk, SegLen)
        /\ Stretch(t, 0) /\ Stretch(r, Len(t))
        /\ Len(t) + Len(r) = Len(bytesSent) + Len(chunk)
  BY <1>2, PassOn, Zenon
<1>4. bytesSent' = t /\ chunk' = r /\ outbound' = outbound /\ written' = written
  BY <1>3 DEF sendSegment, channels, above
<1>5. SentTo(k)'
  BY <1>1, <1>3, <1>4 DEF SentTo, Chunks
<1>6. QED
  BY <1>3, <1>4, <1>5 DEF SendTypes, Sent

(* The steps that touch nothing of the outbound stream. *)
LEMMA OtherSend ==
  ASSUME SendTypes, Sent, UNCHANGED <<outbound, chunk, bytesSent, written>>
  PROVE  (SendTypes /\ Sent)'
<1>1. PICK k \in Nat : SentTo(k)
  BY DEF Sent
<1>2. SentTo(k)'
  BY <1>1 DEF SentTo, Chunks
<1>3. QED
  BY <1>2 DEF SendTypes, Sent

TransportInvariant == RecvTypes /\ SendTypes /\ Received /\ Sent

(* The inbound stream stays whole through every step. *)
LEMMA ReceivedStep ==
  ASSUME RecvTypes, Received, [TransportNext]_transportVars
  PROVE  (RecvTypes /\ Received)'
<1>1. CASE UNCHANGED transportVars
  BY <1>1, OtherReceive DEF transportVars, channels, above, below
<1>2. CASE \E t \in {"relay", "user"} : CloseSteps(t)
  BY <1>2, OtherReceive DEF CloseSteps, setClosed, closeChannels, above, below
<1>3. CASE RelaySteps
  <2>1. CASE relayReturns
    BY <2>1, OtherReceive DEF relayReturns, channels, above
  <2>2. QED
    BY <1>3, <2>1, DispatchStep, InjectStep DEF RelaySteps
<1>4. CASE RawReaderSteps
  BY <1>4, OtherReceive DEF RawReaderSteps, readPacket, offerPacket, channels, above
<1>5. CASE SenderSteps \/ retransmitterReturns
  BY <1>5, OtherReceive
     DEF SenderSteps, nextChunk, sendSegment, senderReturns, retransmitterReturns, channels, above
<1>6. CASE ReaderSteps
  <2>1. CASE ReadEnds \/ HandshakeFailed
    BY <2>1, OtherReceive DEF ReadEnds, HandshakeFailed, channels, below
  <2>2. CASE \E n \in 1 .. ChunkLen : Read(n)
    BY <2>2, ReadStep
  <2>3. QED
    BY <1>6, <2>1, <2>2 DEF ReaderSteps
<1>7. CASE Write \/ WriteSend
  BY <1>7, OtherReceive DEF Write, WriteSend, channels, below
<1>8. CASE HandshakeDone \/ Leave \/ SocketCloses
  BY <1>8, OtherReceive DEF HandshakeDone, Leave, SocketCloses, channels, above, below
<1>9. QED
  BY <1>1, <1>2, <1>3, <1>4, <1>5, <1>6, <1>7, <1>8 DEF TransportNext

(* The outbound stream stays whole through every step. *)
LEMMA SentStep ==
  ASSUME SendTypes, Sent, [TransportNext]_transportVars
  PROVE  (SendTypes /\ Sent)'
<1>1. CASE UNCHANGED transportVars
  BY <1>1, OtherSend DEF transportVars, channels, above, below
<1>2. CASE \E t \in {"relay", "user"} : CloseSteps(t)
  BY <1>2, OtherSend DEF CloseSteps, setClosed, closeChannels, above, below
<1>3. CASE RelaySteps
  BY <1>3, OtherSend DEF RelaySteps, dispatch, InjectInbound, relayReturns, channels, above
<1>4. CASE RawReaderSteps
  BY <1>4, OtherSend DEF RawReaderSteps, readPacket, offerPacket, channels, above
<1>5. CASE SenderSteps \/ retransmitterReturns
  <2>1. CASE senderReturns \/ retransmitterReturns
    BY <2>1, OtherSend DEF senderReturns, retransmitterReturns, channels, above
  <2>2. QED
    BY <1>5, <2>1, NextChunkStep, SegmentStep DEF SenderSteps
<1>6. CASE ReaderSteps
  BY <1>6, OtherSend DEF ReaderSteps, ReadEnds, HandshakeFailed, Read, channels, below
<1>7. CASE Write
  BY <1>7, OtherSend DEF Write, channels, below
<1>8. CASE WriteSend
  BY <1>8, WriteStep
<1>9. CASE HandshakeDone \/ Leave \/ SocketCloses
  BY <1>9, OtherSend DEF HandshakeDone, Leave, SocketCloses, channels, above, below
<1>10. QED
  BY <1>1, <1>2, <1>3, <1>4, <1>5, <1>6, <1>7, <1>8, <1>9 DEF TransportNext

(* The accounting of both streams, which says where every chunk is. *)
THEOREM TransportInvariantHolds == TransportSpec => []TransportInvariant
<1>1. TransportInit => TransportInvariant
  <2> SUFFICES ASSUME TransportInit PROVE TransportInvariant
    OBVIOUS
  <2>1. RecvTypes /\ SendTypes
    BY EmptySeq DEF TransportInit, RecvTypes, SendTypes
  <2>2. ReceivedTo(0) /\ SentTo(0)
    BY TransportAssumption DEF TransportInit, ReceivedTo, SentTo, Stretch, Chunks
  <2>3. QED
    BY <2>1, <2>2 DEF TransportInvariant, Received, Sent
<1>2. TransportInvariant /\ [TransportNext]_transportVars => TransportInvariant'
  BY ReceivedStep, SentStep DEF TransportInvariant
<1>3. QED
  BY <1>1, <1>2, PTL DEF TransportSpec

\* Read has returned a beginning of the peer's bytes, and a beginning of what
\* TLS wrote has reached the send queue.
InStreamOrder ==
  /\ Stretch(bytesRead, 0) /\ Len(bytesRead) <= taken * ChunkLen
  /\ Stretch(bytesSent, 0) /\ Len(bytesSent) <= written * ChunkLen

(* What has come out of the transport is a beginning of what went in. *)
LEMMA InStreamOrderLemma == TransportInvariant => InStreamOrder
<1> SUFFICES ASSUME TransportInvariant PROVE InStreamOrder
  OBVIOUS
<1>1. PICK k \in Nat : ReceivedTo(k)
  BY DEF TransportInvariant, Received
<1>2. PICK l \in Nat : SentTo(l)
  BY DEF TransportInvariant, Sent
<1>3. /\ Len(bytesRead) \in Nat /\ Len(readBuf) \in Nat /\ Len(inbound) \in Nat
      /\ Len(bytesSent) \in Nat /\ Len(chunk) \in Nat /\ Len(outbound) \in Nat
      /\ taken \in Nat /\ written \in Nat
  BY LenProperties DEF TransportInvariant, RecvTypes, SendTypes
<1>4. k <= taken /\ l <= written
  BY <1>1, <1>2, <1>3 DEF ReceivedTo, SentTo
<1>5. ASSUME NEW x \in Nat, NEW y \in Nat, x <= y PROVE x * ChunkLen <= y * ChunkLen
  BY <1>5, TransportAssumption
<1>6. k * ChunkLen <= taken * ChunkLen /\ l * ChunkLen <= written * ChunkLen
  BY <1>3, <1>4, <1>5
<1>7. Len(bytesRead) <= taken * ChunkLen
  <2>1. PICK p, q \in Nat : p = k * ChunkLen /\ q = taken * ChunkLen
    BY <1>3, TransportAssumption
  <2>2. Len(bytesRead) + Len(readBuf) = p /\ p <= q
    BY <1>1, <1>6, <2>1 DEF ReceivedTo
  <2>3. QED
    BY <1>3, <2>1, <2>2
<1>8. Len(bytesSent) <= written * ChunkLen
  <2>1. PICK p, q \in Nat : p = l * ChunkLen /\ q = written * ChunkLen
    BY <1>3, TransportAssumption
  <2>2. Len(bytesSent) + Len(chunk) = p /\ p <= q
    BY <1>2, <1>6, <2>1 DEF SentTo
  <2>3. QED
    BY <1>3, <2>1, <2>2
<1>9. QED
  BY <1>1, <1>2, <1>7, <1>8 DEF InStreamOrder, ReceivedTo, SentTo

(* A longer beginning of the numbers from 1 on is the next delivery. *)
LEMMA DeliveryStep ==
  ASSUME NEW s \in Seq(Nat), Stretch(s, 0), NEW t \in Seq(Nat), Stretch(t, 0),
         NEW m \in Nat, Len(t) <= m, Len(s) <= Len(t), t # s
  PROVE  \E n \in (1 + Len(s) + 1) .. (m + 1) : t = [i \in 1 .. (n - 1) |-> 1 + i - 1]
<1>1. PICK a, b \in Nat : a = Len(s) /\ b = Len(t)
  BY LenProperties
<1>2. CASE a = b
  <2>1. Len(s) = Len(t) /\ \A i \in 1 .. Len(s) : s[i] = t[i]
    BY <1>1, <1>2 DEF Stretch
  <2>2. QED
    BY <2>1, SeqEqual
<1>3. CASE a # b
  <2>1. b + 1 \in (1 + a + 1) .. (m + 1) /\ (b + 1) - 1 = b
    BY <1>1, <1>3
  <2>2. t = [i \in 1 .. b |-> 1 + i - 1]
    <3>1. DOMAIN t = 1 .. b /\ t = [i \in DOMAIN t |-> t[i]]
      BY <1>1, LenProperties
    <3>2. ASSUME NEW i \in 1 .. b PROVE t[i] = 1 + i - 1
      BY <1>1 DEF Stretch
    <3>3. QED
      BY <3>1, <3>2
  <2>3. QED
    BY <1>1, <2>1, <2>2
<1>4. QED
  BY <1>2, <1>3

(* Bytes that are passed on are appended to those passed on before. *)
LEMMA PassedOn ==
  ASSUME NEW s \in Seq(Nat), NEW b \in Seq(Nat), NEW n \in Nat \ {0}
  PROVE  Len(s) <= Len(s \o FirstOf(b, n))
<1>1. PICK m \in Nat : m = (IF n < Len(b) THEN n ELSE Len(b)) /\ m <= Len(b)
  BY LenProperties
<1>2. PICK f \in Seq(Nat) : f = FirstOf(b, n)
  <2>1. 1 \in Int /\ m \in Int /\ \A i \in 1 .. m : b[i] \in Nat
    BY <1>1, ElementOfSeq, LenProperties
  <2>2. PICK f \in Seq(Nat) : f = SubSeq(b, 1, m)
    BY <2>1, SubSeqProperties, Zenon
  <2>3. QED
    BY <1>1, <2>2, Zenon DEF FirstOf
<1>3. Len(s \o f) = Len(s) + Len(f)
  BY ConcatProperties, Zenon
<1>4. Len(s) \in Nat /\ Len(f) \in Nat
  BY LenProperties
<1>5. QED
  BY <1>2, <1>3, <1>4

(* More chunks are more bytes. *)
LEMMA MoreChunks ==
  ASSUME NEW k \in Nat
  PROVE  k * ChunkLen \in Nat /\ (k + 1) * ChunkLen \in Nat /\ (k + 1) * ChunkLen > k * ChunkLen
BY TransportAssumption

(* The transport implements ordered delivery of bytes towards TLS. *)
LEMMA InwardStep ==
  ASSUME TransportInvariant /\ InStreamOrder, (TransportInvariant /\ InStreamOrder)',
         [TransportNext]_transportVars
  PROVE  [Inward!Next]_(Inward!vars)
<1>1. /\ bytesRead \in Seq(Nat) /\ bytesRead' \in Seq(Nat) /\ taken \in Nat /\ taken' \in Nat
      /\ readBuf \in Seq(Nat) /\ inbound \in Seq(Seq(Nat))
  BY DEF TransportInvariant, RecvTypes
<1>2. /\ Stretch(bytesRead, 0) /\ Stretch(bytesRead', 0)
      /\ Len(bytesRead') <= taken' * ChunkLen
  BY DEF InStreamOrder
<1>3. CASE UNCHANGED <<bytesRead, taken>>
  <2>1. (taken * ChunkLen + 1)' = taken * ChunkLen + 1
    BY <1>3, Zenon
  <2>2. QED
    BY <1>3, <2>1, Zenon DEF Inward!vars
<1>4. CASE dispatch
  <2>1. bytesRead' = bytesRead /\ (taken' = taken \/ taken' = taken + 1)
    BY <1>4 DEF dispatch, above
  <2>2. CASE taken' = taken + 1
    <3>1. PICK p, q \in Nat : p = taken * ChunkLen /\ q = (taken + 1) * ChunkLen /\ q > p
      BY <1>1, MoreChunks, Zenon
    <3>2. (taken * ChunkLen + 1)' = q + 1 /\ taken * ChunkLen + 1 = p + 1
      BY <2>2, <3>1, Zenon
    <3>3. q + 1 \in Nat /\ q + 1 > p + 1
      BY <3>1
    <3>4. QED
      BY <2>1, <3>2, <3>3, Zenon DEF Inward!Next, Inward!Send
  <2>3. QED
    BY <1>3, <2>1, <2>2
<1>5. ASSUME NEW n \in 1 .. ChunkLen, Read(n) PROVE [Inward!Next]_(Inward!vars)
  <2>1. taken' = taken
    BY <1>5 DEF Read, below
  <2>2. PICK b \in Seq(Nat) : bytesRead' = bytesRead \o FirstOf(b, n)
    <3>1. inbound # <<>> => Head(inbound) \in Seq(Nat)
      BY <1>1, HeadTailProperties, Zenon
    <3>2. QED
      BY <1>1, <1>5, <3>1, Zenon DEF Read
  <2>3. n \in Nat \ {0}
    BY TransportAssumption
  <2>4. Len(bytesRead) <= Len(bytesRead')
    BY <1>1, <2>2, <2>3, PassedOn
  <2>5. PICK m \in Nat : m = taken * ChunkLen
    BY <1>1, MoreChunks, Zenon
  <2>6. CASE bytesRead' # bytesRead
    <3>1. Len(bytesRead') <= m
      BY <1>2, <2>1, <2>5
    <3>2. \E k \in (1 + Len(bytesRead) + 1) .. (m + 1) :
             bytesRead' = [i \in 1 .. (k - 1) |-> 1 + i - 1]
      BY <1>1, <1>2, <2>4, <2>6, <3>1, DeliveryStep
    <3>3. QED
      BY <2>1, <2>5, <3>2 DEF Inward!Next, Inward!Deliver, Inward!Segments
  <2>7. QED
    BY <1>3, <2>1, <2>6
<1>6. UNCHANGED <<bytesRead, taken>> \/ dispatch \/ \E n \in 1 .. ChunkLen : Read(n)
  BY Zenon DEF TransportNext, transportVars, CloseSteps, setClosed, closeChannels, RelaySteps,
         InjectInbound, relayReturns, RawReaderSteps, readPacket, offerPacket, SenderSteps,
         nextChunk, sendSegment, senderReturns, retransmitterReturns, ReaderSteps, ReadEnds,
         HandshakeFailed, Write, WriteSend, HandshakeDone, Leave, SocketCloses, above, below
<1>7. QED
  BY <1>3, <1>4, <1>5, <1>6

(* The transport implements ordered delivery of bytes towards the socket. *)
LEMMA OutwardStep ==
  ASSUME TransportInvariant /\ InStreamOrder, (TransportInvariant /\ InStreamOrder)',
         [TransportNext]_transportVars
  PROVE  [Outward!Next]_(Outward!vars)
<1>1. /\ bytesSent \in Seq(Nat) /\ bytesSent' \in Seq(Nat)
      /\ written \in Nat /\ written' \in Nat /\ chunk \in Seq(Nat)
  BY DEF TransportInvariant, SendTypes
<1>2. /\ Stretch(bytesSent, 0) /\ Stretch(bytesSent', 0)
      /\ Len(bytesSent') <= written' * ChunkLen
  BY DEF InStreamOrder
<1>3. CASE UNCHANGED <<bytesSent, written>>
  <2>1. (written * ChunkLen + 1)' = written * ChunkLen + 1
    BY <1>3, Zenon
  <2>2. QED
    BY <1>3, <2>1, Zenon DEF Outward!vars
<1>4. CASE WriteSend
  <2>1. bytesSent' = bytesSent /\ (written' = written \/ written' = written + 1)
    BY <1>4 DEF WriteSend, below
  <2>2. CASE written' = written + 1
    <3>1. PICK p, q \in Nat : p = written * ChunkLen /\ q = (written + 1) * ChunkLen /\ q > p
      BY <1>1, MoreChunks, Zenon
    <3>2. (written * ChunkLen + 1)' = q + 1 /\ written * ChunkLen + 1 = p + 1
      BY <2>2, <3>1, Zenon
    <3>3. q + 1 \in Nat /\ q + 1 > p + 1
      BY <3>1
    <3>4. QED
      BY <2>1, <3>2, <3>3, Zenon DEF Outward!Next, Outward!Send
  <2>3. QED
    BY <1>3, <2>1, <2>2
<1>5. CASE sendSegment
  <2>1. written' = written /\ bytesSent' = bytesSent \o FirstOf(chunk, SegLen)
    BY <1>5 DEF sendSegment, above
  <2>2. Len(bytesSent) <= Len(bytesSent')
    BY <1>1, <2>1, TransportAssumption, PassedOn
  <2>3. PICK m \in Nat : m = written * ChunkLen
    BY <1>1, MoreChunks
  <2>4. CASE bytesSent' # bytesSent
    <3>1. Len(bytesSent') <= m
      BY <1>2, <2>1, <2>3
    <3>2. \E k \in (1 + Len(bytesSent) + 1) .. (m + 1) :
             bytesSent' = [i \in 1 .. (k - 1) |-> 1 + i - 1]
      BY <1>1, <1>2, <2>2, <2>4, <3>1, DeliveryStep
    <3>3. QED
      BY <2>1, <2>3, <3>2 DEF Outward!Next, Outward!Deliver, Outward!Segments
  <2>5. QED
    BY <1>3, <2>1, <2>4
<1>6. UNCHANGED <<bytesSent, written>> \/ WriteSend \/ sendSegment
  BY Zenon DEF TransportNext, transportVars, CloseSteps, setClosed, closeChannels, RelaySteps, dispatch,
         InjectInbound, relayReturns, RawReaderSteps, readPacket, offerPacket, SenderSteps,
         nextChunk, senderReturns, retransmitterReturns, ReaderSteps, Read, ReadEnds,
         HandshakeFailed, Write, HandshakeDone, Leave, SocketCloses, above, below
<1>7. QED
  BY <1>3, <1>4, <1>5, <1>6

(* Both byte streams of the transport implement ordered delivery: TLS reads *)
(* the peer's bytes in order and without a gap, and what reaches the send   *)
(* queue is what TLS wrote, in order.  Read's leftover, the channels, the   *)
(* sender's segments and Close neither reorder nor drop a byte in between.  *)
THEOREM ImplementsByteStreamsHolds == TransportSpec => ImplementsByteStreams
<1>1. TransportInit => Inward!Init /\ Outward!Init
  BY TransportAssumption DEF TransportInit, Inward!Init, Outward!Init
<1>2. TransportInvariant /\ InStreamOrder /\ (TransportInvariant /\ InStreamOrder)'
        /\ [TransportNext]_transportVars
      => [Inward!Next]_(Inward!vars) /\ [Outward!Next]_(Outward!vars)
  BY InwardStep, OutwardStep
<1>3. QED
  BY <1>1, <1>2, TransportInvariantHolds, InStreamOrderLemma, PTL
     DEF TransportSpec, ImplementsByteStreams, Inward!Spec, Outward!Spec
=============================================================================
