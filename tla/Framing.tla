------------------------------- MODULE Framing -------------------------------
(***************************************************************************)
(* One direction of one connection, byte by byte: the threads that send on *)
(* a ClientHandler's socket (its own replies, and the messages other       *)
(* handlers deliver), the TCP stream, and the reader's receiveFrame.       *)
(*                                                                         *)
(* sendResponse holds sendMutex_ around sendFrame, which writes a length   *)
(* header and the payload in as many send() calls as the kernel asks for.  *)
(* The reader gets the bytes in pieces of any size: receiveFrame asks for  *)
(* the rest of a header or a payload, FrameDecoder takes what there is     *)
(* into a buffer and cuts frames out of it.  Payloads are sequences of     *)
(* byte values, so that payload bytes can be mistaken for a header if      *)
(* framing goes wrong.                                                     *)
(***************************************************************************)
EXTENDS Naturals, Sequences, SequencesExt

CONSTANTS
    Senders,        \* threads that call sendResponse of this connection
    Scripts,        \* what the senders may have to send: payloads, in order, of each
    Base,           \* number of byte values (256 in the code)
    SendMax,        \* the sender's maxFrameSize
    RecvMax,        \* the reader's maxFrameSize
    PipeSize,       \* bound: bytes the kernel buffers
    NoSender        \* sendMutex_ is free

Bytes == 0..(Base - 1)
kFrameHeaderSize == 4
Payloads == UNION {Range(script[s]) : script \in Scripts, s \in Senders}

(* sendFrame casts the payload's size to 32 bits: a limit below 2^32 makes the *)
(* cast harmless.                                                              *)
ASSUME FramingAssumption ==
    /\ Scripts \subseteq [Senders -> Seq(Seq(Bytes))]
    /\ Base \in Nat \ {0} /\ SendMax \in Nat /\ RecvMax \in Nat /\ PipeSize \in Nat
    /\ SendMax < Base * Base * Base * Base
    /\ NoSender \notin Senders

VARIABLES
    todo,       \* what each sender has still to send
    sendMutex,  \* the sender that holds sendMutex_
    out,        \* what each sender's sendAll has still to write
    conn,       \* "open", or "broken" once either side has closed it
    pipe,       \* bytes written and not read
    header,     \* the reader's header array, as far as it is filled
    payload,    \* the reader's payload, as far as it is filled
    size,       \* the payload's size, 0 until the header is complete
    buffer,     \* buffer_ of the FrameDecoder
    reader,     \* "header", "payload", "buffer" (a FrameDecoder), or how reading ended
    accepted,   \* auxiliary: payloads whose sendFrame has begun, in order
    received    \* payloads that receiveFrame has returned

vars == <<todo, sendMutex, out, conn, pipe, header, payload, size, buffer, reader,
          accepted, received>>
senderVars == <<todo, sendMutex, out, accepted>>
readerVars == <<header, payload, size, buffer, reader, received>>

Init ==
    /\ todo \in Scripts
    /\ sendMutex = NoSender
    /\ out = [s \in Senders |-> <<>>]
    /\ conn = "open"
    /\ pipe = <<>>
    /\ header = <<>> /\ payload = <<>> /\ size = 0 /\ buffer = <<>>
    /\ reader \in {"header", "buffer"}
    /\ accepted = <<>> /\ received = <<>>

-----------------------------------------------------------------------------
(* A shift by 8, 16 or 24 bits is a division or a product by powers of Base. *)
writeBigEndian32(value) ==
    << (value \div (Base * Base * Base)) % Base, (value \div (Base * Base)) % Base,
       (value \div Base) % Base, value % Base >>

readBigEndian32(data) ==
    data[1] * (Base * Base * Base) + data[2] * (Base * Base) + data[3] * Base + data[4]

encodeFrame(p) == writeBigEndian32(Len(p)) \o p

(* Mutated form: sendResponse without its lock. *)
beginFrameUnlocked(s) ==
    /\ out[s] = <<>>
    /\ todo[s] # <<>>
    /\ Len(Head(todo[s])) <= SendMax
    /\ out' = [out EXCEPT ![s] = encodeFrame(Head(todo[s]))]
    /\ todo' = [todo EXCEPT ![s] = Tail(@)]
    /\ accepted' = Append(accepted, Head(todo[s]))
    /\ UNCHANGED <<sendMutex, conn, pipe, readerVars>>

(* sendResponse takes the lock; sendFrame encodes the payload. *)
beginFrame(s) ==
    /\ sendMutex = NoSender
    /\ todo[s] # <<>>
    /\ Len(Head(todo[s])) <= SendMax
    /\ sendMutex' = s
    /\ out' = [out EXCEPT ![s] = encodeFrame(Head(todo[s]))]
    /\ todo' = [todo EXCEPT ![s] = Tail(@)]
    /\ accepted' = Append(accepted, Head(todo[s]))
    /\ UNCHANGED <<conn, pipe, readerVars>>

(* sendFrame refuses a payload above the limit before it writes anything. *)
refuseFrame(s) ==
    /\ sendMutex = NoSender
    /\ todo[s] # <<>>
    /\ Len(Head(todo[s])) > SendMax
    /\ todo' = [todo EXCEPT ![s] = Tail(@)]
    /\ UNCHANGED <<sendMutex, out, accepted, conn, pipe, readerVars>>

(* One send() of sendAll's loop: the kernel takes as much as it likes. *)
sendChunk(s) ==
    /\ out[s] # <<>>
    /\ conn = "open"
    /\ \E n \in 1..Len(out[s]) :
        /\ Len(pipe) + n <= PipeSize
        /\ pipe' = pipe \o SubSeq(out[s], 1, n)
        /\ out' = [out EXCEPT ![s] = SubSeq(@, n + 1, Len(@))]
    /\ UNCHANGED <<todo, sendMutex, accepted, conn, readerVars>>

(* sendAll is through, or send() fails on a broken connection; the lock goes. *)
endFrame(s) ==
    /\ sendMutex = s
    /\ out[s] = <<>> \/ conn = "broken"
    /\ out' = [out EXCEPT ![s] = <<>>]
    /\ sendMutex' = NoSender
    /\ UNCHANGED <<todo, accepted, conn, pipe, readerVars>>

(* Either side closes, or the network fails; bytes in flight may be lost. *)
breakConnection ==
    /\ conn = "open"
    /\ conn' = "broken"
    /\ pipe' \in Prefixes(pipe)
    /\ UNCHANGED <<senderVars, readerVars>>

-----------------------------------------------------------------------------
(* receiveFrame's first loop: one recv() into the rest of the header. *)
receiveHeader ==
    /\ reader = "header"
    /\ \E n \in 1..(kFrameHeaderSize - Len(header)) :
        /\ n <= Len(pipe)
        /\ header' = header \o SubSeq(pipe, 1, n)
        /\ pipe' = SubSeq(pipe, n + 1, Len(pipe))
    /\ UNCHANGED <<senderVars, conn, payload, size, buffer, reader, received>>

(* Mutated form: the limit is not compared with the header. *)
checkHeaderUnbounded ==
    /\ reader = "header"
    /\ Len(header) = kFrameHeaderSize
    /\ size' = readBigEndian32(header)
    /\ header' = <<>>
    /\ reader' = "payload"
    /\ UNCHANGED <<senderVars, conn, pipe, payload, buffer, received>>

(* The header is complete: the size is checked before anything is allocated. *)
checkHeader ==
    /\ reader = "header"
    /\ Len(header) = kFrameHeaderSize
    /\ size' = readBigEndian32(header)
    /\ header' = <<>>
    /\ reader' = IF readBigEndian32(header) > RecvMax THEN "TooLarge" ELSE "payload"
    /\ UNCHANGED <<senderVars, conn, pipe, payload, buffer, received>>

(* Mutated form: one recv() is expected to return the rest of the payload. *)
receivePayloadOnce ==
    /\ reader = "payload"
    /\ \E n \in 1..size :
        /\ n <= Len(pipe)
        /\ received' = Append(received, SubSeq(pipe, 1, n))
        /\ pipe' = SubSeq(pipe, n + 1, Len(pipe))
    /\ size' = 0
    /\ reader' = "header"
    /\ UNCHANGED <<senderVars, conn, header, payload, buffer>>

(* receiveFrame's second loop: one recv() into the rest of the payload. *)
receivePayload ==
    /\ reader = "payload"
    /\ \E n \in 1..(size - Len(payload)) :
        /\ n <= Len(pipe)
        /\ payload' = payload \o SubSeq(pipe, 1, n)
        /\ pipe' = SubSeq(pipe, n + 1, Len(pipe))
    /\ UNCHANGED <<senderVars, conn, header, size, buffer, reader, received>>

(* The payload is complete (at once, if it is empty): receiveFrame returns Ok, *)
(* and the reader's loop calls it again.                                       *)
returnFrame ==
    /\ reader = "payload"
    /\ Len(payload) = size
    /\ received' = Append(received, payload)
    /\ payload' = <<>>
    /\ size' = 0
    /\ reader' = "header"
    /\ UNCHANGED <<senderVars, conn, pipe, header, buffer>>

-----------------------------------------------------------------------------
(* FrameDecoder::append. *)
append ==
    /\ reader = "buffer"
    /\ \E n \in 1..Len(pipe) :
        /\ buffer' = buffer \o SubSeq(pipe, 1, n)
        /\ pipe' = SubSeq(pipe, n + 1, Len(pipe))
    /\ UNCHANGED <<senderVars, conn, header, payload, size, reader, received>>

bufferedSize == readBigEndian32(SubSeq(buffer, 1, kFrameHeaderSize))

frameReady == Len(buffer) >= kFrameHeaderSize /\ Len(buffer) >= kFrameHeaderSize + bufferedSize

(* FrameDecoder::nextFrame returns Ready or TooLarge; NeedMoreData changes nothing. *)
nextFrame ==
    /\ reader = "buffer"
    /\ Len(buffer) >= kFrameHeaderSize
    /\ \/ /\ bufferedSize > RecvMax
          /\ reader' = "TooLarge"
          /\ UNCHANGED <<buffer, received>>
       \/ /\ bufferedSize <= RecvMax
          /\ frameReady
          /\ received' = Append(received, SubSeq(buffer, kFrameHeaderSize + 1,
                                                 kFrameHeaderSize + bufferedSize))
          /\ buffer' = SubSeq(buffer, kFrameHeaderSize + bufferedSize + 1, Len(buffer))
          /\ UNCHANGED reader
    /\ UNCHANGED <<senderVars, conn, pipe, header, payload, size>>

-----------------------------------------------------------------------------
(* The reader wants bytes, and there are none. *)
starved ==
    /\ pipe = <<>>
    /\ \/ reader = "header" /\ Len(header) < kFrameHeaderSize
       \/ reader = "payload" /\ Len(payload) < size
       \/ /\ reader = "buffer" /\ ~frameReady
          /\ Len(buffer) >= kFrameHeaderSize => bufferedSize <= RecvMax

(* recv() returns 0 at the end of the stream.  Inside a payload one of the two *)
(* receiveFrame functions says Closed, the other Error.                        *)
receiveEnd ==
    /\ starved
    /\ conn = "broken"
    /\ reader' \in CASE reader = "header" -> {IF header = <<>> THEN "Closed" ELSE "Error"}
                     [] reader = "payload" -> {"Closed", "Error"}
                     [] OTHER -> {"Closed"}
    /\ UNCHANGED <<senderVars, conn, pipe, header, payload, size, buffer, received>>

(* SO_RCVTIMEO expires between two frames or inside one; recv() returns -1. *)
receiveTimesOut ==
    /\ starved
    /\ conn = "open"
    /\ reader \in {"header", "payload"}
    /\ reader' = "Error"
    /\ UNCHANGED <<senderVars, conn, pipe, header, payload, size, buffer, received>>

(* The loop that called receiveFrame has been left, and closes the socket. *)
readerCloses ==
    /\ reader \in {"TooLarge", "Error", "Closed"}
    /\ conn = "open" \/ pipe # <<>>
    /\ conn' = "broken"
    /\ pipe' = <<>>
    /\ UNCHANGED <<senderVars, readerVars>>

senderStep(s) == beginFrame(s) \/ refuseFrame(s) \/ sendChunk(s) \/ endFrame(s)

readerStep ==
    receiveHeader \/ checkHeader \/ receivePayload \/ returnFrame \/ append \/ nextFrame
    \/ receiveEnd \/ readerCloses

Next ==
    (\E s \in Senders : senderStep(s)) \/ readerStep \/ receiveTimesOut \/ breakConnection

Spec == Init /\ [][Next]_vars

(* Threads run, and the network moves bytes.  Nobody has to close a connection  *)
(* and no timeout has to expire.                                                *)
FairSpec == Spec /\ (\A s \in Senders : WF_vars(senderStep(s))) /\ WF_vars(readerStep)

-----------------------------------------------------------------------------
Channel ==
    INSTANCE FrameChannel WITH Payloads <- Payloads, accepted <- accepted, received <- received

(* The framing implements the channel: however the bytes are cut up, whoever   *)
(* sends at the same time and wherever the connection breaks, the reader gets  *)
(* whole payloads, in the order in which sendResponse got the lock.            *)
ImplementsChannel == Channel!ChannelSpec

(* The reader reports TooLarge only for a frame that is: never because it has  *)
(* taken payload bytes for a header.  Nothing larger than its limit is ever    *)
(* allocated.                                                                  *)
TooLargeIsReal ==
    /\ reader = "TooLarge" =>
          /\ Len(received) < Len(accepted)
          /\ Len(accepted[Len(received) + 1]) > RecvMax
    /\ reader = "payload" => size <= RecvMax

(* On a connection that does not break, everything accepted is read in the     *)
(* end, or the reader has refused a frame; and every sender gets its turn.     *)
EverythingArrives ==
    <>(\/ conn = "broken"
       \/ reader = "TooLarge"
       \/ received = accepted /\ \A s \in Senders : todo[s] = <<>>)
=============================================================================
