-------------------------- MODULE ControlTransport --------------------------
(***************************************************************************)
(* The goroutines of tlsHandshake (client.go) around the ControlTransport  *)
(* (internal/ctls/ctls.go) of the primary control session: the raw reader, *)
(* the inbound relay, the sender, the retransmitter, and the users of the  *)
(* TLS connection above.  A rekey session has the same transport, sender   *)
(* and users, and the same relay closes it.                                *)
(*                                                                         *)
(* Bytes are numbered in the order in which they enter the stream; every   *)
(* chunk has ChunkLen of them.  The window and the send queue below are    *)
(* those of ControlLink: here the peer's payloads come in order.           *)
(*                                                                         *)
(* Go: receiving from a closed channel yields what is left in it, then     *)
(* ends; sending to one panics, which ends the process.                    *)
(***************************************************************************)
EXTENDS Integers, Sequences

CONSTANTS BufSize,       \* capacity of inbound and outbound (64 in the code)
          ChunkLen,      \* bytes of a chunk
          SegLen,        \* bytes of a segment at most (1024 in the code)
          MaxChunks      \* bound: chunks sent each way

ASSUME TransportAssumption ==
  BufSize \in Nat \ {0} /\ ChunkLen \in Nat \ {0} /\ SegLen \in Nat \ {0} /\ MaxChunks \in Nat

VARIABLES inbound, outbound,  \* the channels: what is queued
          closing,            \* Close: "no", "flagged" (closed is set), "closed" (the channels are)
          closer,             \* who is inside closeOnce.Do: "none", "relay", "user"
          readBuf,            \* rest of a chunk read in part
          rawOpen,            \* the socket
          rawReader, packets, \* the raw reader and its channel (capacity 1) to the relay
          relay,              \* "select", "inject", "closing", "done"
          chunk,              \* the sender's current chunk
          sender,             \* "range", "done"
          retransmitter,      \* "run", "done"
          tls,                \* "handshake", "up", "failed", "gone"
          writer,             \* a Write of TLS: "idle", "sending"
          taken,              \* payloads the relay has got
          written,            \* chunks Write has accepted
          bytesRead,          \* history: what Read returned
          bytesSent,          \* history: what was queued and written to the socket
          panicked

channels == <<inbound, outbound, closing, closer>>
above == <<readBuf, tls, writer, written, bytesRead>>
below == <<rawOpen, rawReader, packets, relay, chunk, sender, retransmitter, taken, bytesSent>>
transportVars == <<channels, above, below, panicked>>

Chunk(k) == [i \in 1 .. ChunkLen |-> (k - 1) * ChunkLen + i]

\* The first n elements of s, and the others.
FirstOf(s, n) == SubSeq(s, 1, IF n < Len(s) THEN n ELSE Len(s))
RestOf(s, n) == SubSeq(s, n + 1, Len(s))

TransportInit ==
  /\ inbound = <<>> /\ outbound = <<>> /\ closing = "no" /\ closer = "none"
  /\ readBuf = <<>> /\ tls = "handshake" /\ writer = "idle" /\ written = 0 /\ bytesRead = <<>>
  /\ rawOpen = TRUE /\ rawReader = "read" /\ packets = <<>> /\ relay = "select"
  /\ chunk = <<>> /\ sender = "range" /\ retransmitter = "run" /\ taken = 0 /\ bytesSent = <<>>
  /\ panicked = FALSE

-----------------------------------------------------------------------------
(* Close, by the relay's deferred call or after a failed handshake.         *)

Closes(t) == \/ t = "relay" /\ relay = "closing"
             \/ t = "user" /\ tls = "failed"

setClosed(t) ==
  /\ Closes(t) /\ closing = "no"
  /\ closing' = "flagged" /\ closer' = t
  /\ UNCHANGED <<inbound, outbound, above, below, panicked>>

closeChannels(t) ==
  /\ closer = t /\ closing = "flagged"
  /\ closing' = "closed"
  /\ UNCHANGED <<inbound, outbound, closer, above, below, panicked>>

-----------------------------------------------------------------------------
(* From the socket to TLS.                                                  *)

\* readPacket returns a control packet, or an error once the socket is closed.
readPacket ==
  /\ rawReader = "read"
  /\ \/ rawOpen /\ taken + Len(packets) < MaxChunks /\ rawReader' = "packet"
     \/ ~rawOpen /\ rawReader' = "error"
  /\ UNCHANGED <<channels, above, rawOpen, packets, relay, chunk, sender, retransmitter,
                 taken, bytesSent, panicked>>

\* It is passed on; the raw reader also leaves when the relay is done.
offerPacket ==
  /\ rawReader \in {"packet", "error"}
  /\ \/ /\ Len(packets) < 1
        /\ packets' = Append(packets, rawReader)
        /\ rawReader' = IF rawReader = "error" THEN "done" ELSE "read"
     \/ relay = "done" /\ rawReader' = "done" /\ UNCHANGED packets
  /\ UNCHANGED <<channels, above, rawOpen, relay, chunk, sender, retransmitter,
                 taken, bytesSent, panicked>>

\* Fault: the relay returns without closing the transport.
dispatchNoClose ==
  /\ relay = "select" /\ packets # <<>>
  /\ packets' = Tail(packets)
  /\ IF Head(packets) = "error"
     THEN relay' = "done" /\ UNCHANGED taken
     ELSE /\ taken' = taken + 1
          /\ relay' = IF closing = "no" THEN "inject" ELSE "select"
  /\ UNCHANGED <<channels, above, rawOpen, rawReader, chunk, sender, retransmitter,
                 bytesSent, panicked>>

\* One pass of the relay's loop.  An error ends it; a payload goes to
\* InjectInbound, which refuses it if the transport is closed by now.
dispatch ==
  /\ relay = "select" /\ packets # <<>>
  /\ packets' = Tail(packets)
  /\ IF Head(packets) = "error"
     THEN relay' = "closing" /\ UNCHANGED taken
     ELSE /\ taken' = taken + 1
          /\ relay' = IF closing = "no" THEN "inject" ELSE "select"
  /\ UNCHANGED <<channels, above, rawOpen, rawReader, chunk, sender, retransmitter,
                 bytesSent, panicked>>

\* The send in InjectInbound, which waits for room.
InjectInbound ==
  /\ relay = "inject"
  /\ \/ closing = "closed" /\ panicked' = TRUE /\ UNCHANGED <<inbound, relay>>
     \/ /\ closing # "closed" /\ Len(inbound) < BufSize
        /\ inbound' = Append(inbound, Chunk(taken))
        /\ relay' = "select" /\ UNCHANGED panicked
  /\ UNCHANGED <<outbound, closing, closer, above, rawOpen, rawReader, packets, chunk, sender,
                 retransmitter, taken, bytesSent>>

relayReturns ==
  /\ relay = "closing" /\ closing = "closed"
  /\ relay' = "done"
  /\ UNCHANGED <<channels, above, rawOpen, rawReader, packets, chunk, sender, retransmitter,
                 taken, bytesSent, panicked>>

\* A TLS user is inside Read: in the handshake the one thread reads or writes.
Reading == tls = "up" \/ (tls = "handshake" /\ writer = "idle")

\* Fault: what does not fit into the caller's buffer is dropped.
ReadDropsRest(n) ==
  /\ Reading
  /\ \/ /\ readBuf # <<>>
        /\ bytesRead' = bytesRead \o FirstOf(readBuf, n) /\ readBuf' = RestOf(readBuf, n)
        /\ UNCHANGED inbound
     \/ /\ readBuf = <<>> /\ inbound # <<>>
        /\ bytesRead' = bytesRead \o FirstOf(Head(inbound), n) /\ readBuf' = <<>>
        /\ inbound' = Tail(inbound)
  /\ UNCHANGED <<outbound, closing, closer, tls, writer, written, below, panicked>>

\* Read into a buffer of n bytes: from the leftover first, else from the next
\* chunk.
Read(n) ==
  /\ Reading
  /\ \/ /\ readBuf # <<>>
        /\ bytesRead' = bytesRead \o FirstOf(readBuf, n) /\ readBuf' = RestOf(readBuf, n)
        /\ UNCHANGED inbound
     \/ /\ readBuf = <<>> /\ inbound # <<>>
        /\ bytesRead' = bytesRead \o FirstOf(Head(inbound), n)
        /\ readBuf' = RestOf(Head(inbound), n)
        /\ inbound' = Tail(inbound)
  /\ UNCHANGED <<outbound, closing, closer, tls, writer, written, below, panicked>>

\* io.EOF; or the deadline of the handshake has passed.
ReadEnds ==
  /\ Reading /\ readBuf = <<>>
  /\ (inbound = <<>> /\ closing = "closed") \/ tls = "handshake"
  /\ tls' = IF tls = "handshake" THEN "failed" ELSE "gone"
  /\ UNCHANGED <<channels, readBuf, writer, written, bytesRead, below, panicked>>

-----------------------------------------------------------------------------
(* From TLS to the socket.                                                  *)

\* Write looks at closed first.
Write ==
  /\ tls \in {"handshake", "up"} /\ writer = "idle" /\ written < MaxChunks
  /\ \/ closing = "no" /\ writer' = "sending" /\ UNCHANGED tls
     \/ closing # "no" /\ tls = "handshake" /\ tls' = "failed" /\ UNCHANGED writer
  /\ UNCHANGED <<channels, readBuf, written, bytesRead, below, panicked>>

\* Its send, which waits for room; in the handshake no longer than the
\* deadline.
WriteSend ==
  /\ writer = "sending"
  /\ \/ /\ closing = "closed" /\ panicked' = TRUE
        /\ UNCHANGED <<outbound, writer, written, tls>>
     \/ /\ closing # "closed" /\ Len(outbound) < BufSize
        /\ outbound' = Append(outbound, Chunk(written + 1))
        /\ written' = written + 1 /\ writer' = "idle"
        /\ UNCHANGED <<tls, panicked>>
     \/ /\ tls = "handshake" /\ tls' = "failed" /\ writer' = "idle"
        /\ UNCHANGED <<outbound, written, panicked>>
  /\ UNCHANGED <<inbound, closing, closer, readBuf, bytesRead, below>>

\* The sender goroutine takes the next chunk ...
nextChunk ==
  /\ sender = "range" /\ chunk = <<>> /\ outbound # <<>>
  /\ chunk' = Head(outbound) /\ outbound' = Tail(outbound)
  /\ UNCHANGED <<inbound, closing, closer, above, rawOpen, rawReader, packets, relay, sender,
                 retransmitter, taken, bytesSent, panicked>>

\* ... and queues and writes it segment by segment.
sendSegment ==
  /\ chunk # <<>>
  /\ bytesSent' = bytesSent \o FirstOf(chunk, SegLen) /\ chunk' = RestOf(chunk, SegLen)
  /\ UNCHANGED <<channels, above, rawOpen, rawReader, packets, relay, sender, retransmitter,
                 taken, panicked>>

senderReturns ==
  /\ sender = "range" /\ chunk = <<>> /\ outbound = <<>> /\ closing = "closed"
  /\ sender' = "done"
  /\ UNCHANGED <<channels, above, rawOpen, rawReader, packets, relay, chunk, retransmitter,
                 taken, bytesSent, panicked>>

retransmitterReturns ==
  /\ retransmitter = "run" /\ closing = "closed"
  /\ retransmitter' = "done"
  /\ UNCHANGED <<channels, above, rawOpen, rawReader, packets, relay, chunk, sender, taken,
                 bytesSent, panicked>>

-----------------------------------------------------------------------------
(* The users of the TLS connection, and the end of the socket.              *)

HandshakeDone ==
  /\ tls = "handshake" /\ writer = "idle" /\ tls' = "up"
  /\ UNCHANGED <<channels, readBuf, writer, written, bytesRead, below, panicked>>

\* tlsHandshake has closed the transport and returned its error; its caller
\* closes the socket.
HandshakeFailed ==
  /\ tls = "failed" /\ closing = "closed"
  /\ tls' = "gone" /\ rawOpen' = FALSE
  /\ UNCHANGED <<channels, readBuf, writer, written, bytesRead, rawReader, packets, relay, chunk,
                 sender, retransmitter, taken, bytesSent, panicked>>

\* Nobody reads from the TLS connection any more: Phase 1 has its answer, or
\* the session monitor has left with the context.
Leave ==
  /\ tls = "up" /\ tls' = "gone"
  /\ UNCHANGED <<channels, readBuf, writer, written, bytesRead, below, panicked>>

\* The socket fails, or disconnect or the next phase closes it.
SocketCloses ==
  /\ rawOpen /\ rawOpen' = FALSE
  /\ UNCHANGED <<channels, above, rawReader, packets, relay, chunk, sender, retransmitter, taken,
                 bytesSent, panicked>>

CloseSteps(t) == setClosed(t) \/ closeChannels(t)
RelaySteps == dispatch \/ InjectInbound \/ relayReturns
RawReaderSteps == readPacket \/ offerPacket
SenderSteps == nextChunk \/ sendSegment \/ senderReturns
ReaderSteps == ReadEnds \/ HandshakeFailed \/ \E n \in 1 .. ChunkLen : Read(n)

TransportNext ==
  /\ ~panicked
  /\ \/ \E t \in {"relay", "user"} : CloseSteps(t)
     \/ RelaySteps \/ RawReaderSteps \/ SenderSteps \/ retransmitterReturns
     \/ ReaderSteps \/ Write \/ WriteSend
     \/ HandshakeDone \/ Leave \/ SocketCloses

TransportSpec == TransportInit /\ [][TransportNext]_transportVars

-----------------------------------------------------------------------------
\* The transport carries both byte streams in order, whole and once, however
\* chunks, segments and read buffers are cut: Read returns the bytes of the
\* payloads the relay has got, and what reaches the send queue are the bytes
\* TLS wrote.
Inward == INSTANCE OrderedDelivery
          WITH First <- 1, sent <- taken * ChunkLen + 1, delivered <- bytesRead
Outward == INSTANCE OrderedDelivery
           WITH First <- 1, sent <- written * ChunkLen + 1, delivered <- bytesSent

ImplementsByteStreams == Inward!Spec /\ Outward!Spec

AllReturned ==
  relay = "done" /\ rawReader = "done" /\ sender = "done" /\ retransmitter = "done"

\* The relay waits for room that nobody will make: the inbound channel is full
\* and the TLS connection has no reader left.
RelayStuck == relay = "inject" /\ Len(inbound) = BufSize /\ tls = "gone"

\* When the socket is closed every goroutine of tlsHandshake returns, and not
\* before all that Write accepted has been through the send queue: closing the
\* channels loses none of it.  Excepted are a relay without a reader and the
\* panic of a send that overlaps Close.
ClosedSocketEndsAll ==
  ~rawOpen ~> \/ AllReturned /\ Len(bytesSent) = written * ChunkLen
              \/ RelayStuck \/ panicked
=============================================================================
