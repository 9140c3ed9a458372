------------------------------- MODULE Framing -------------------------------
(***************************************************************************)
(* The frames of the protocol and the parser that takes them out of a TCP    *)
(* stream again: server/client.cpp, and client/server.cpp, which repeats it. *)
(* One direction of one connection. A frame is the size of a message in a     *)
(* fixed number of digits, highest first, and the message. The stream may be *)
(* cut anywhere into the portions that readyRead announces.                  *)
(***************************************************************************)
EXTENDS Integers, Sequences, SequencesExt

CONSTANTS
  Messages,    \* the messages considered, each a sequence of bytes
  Base,        \* the values of a byte: 256
  HeaderLen,   \* the bytes of a size: 4
  MaxSends     \* bound: messages sent

Byte == 0 .. (Base - 1)

ASSUME HeaderAssumption == HeaderLen \in Nat \ {0}

\* A message is a JSON text, so never empty; its size fits into the header.
ASSUME MessagesAssumption ==
  \A m \in Messages : m \in Seq(Byte) /\ m # << >> /\ Len(m) < Base ^ HeaderLen

VARIABLES
  up,         \* the connection has not been cut
  sent,       \* the messages given to send
  wire,       \* the bytes under way
  avail,      \* the bytes in the socket: bytesAvailable() counts them
  inSize,     \* _in_size: the size of the message being read, or 0
  inBuffer,   \* _in_buffer: what has been read of it
  at,         \* "idle", "read" or "readData": where the slot is
  delivered   \* the messages dataReady was emitted with

vars == <<up, sent, wire, avail, inSize, inBuffer, at, delivered>>

Init ==
  /\ up = TRUE /\ sent = << >> /\ wire = << >> /\ avail = << >>
  /\ inSize = 0 /\ inBuffer = << >> /\ at = "idle" /\ delivered = << >>

\* QDataStream in big-endian order, both ways.
Encode(n) == [i \in 1 .. HeaderLen |-> (n \div Base ^ (HeaderLen - i)) % Base]

Decode(bytes) == FoldLeft(LAMBDA n, b : Base * n + b, 0, bytes)

\* QDataStream reads the number it has written.
ASSUME RoundTripAssumption == \A m \in Messages : Decode(Encode(Len(m))) = Len(m)

\* send, write: the frame is written in one go. A message for a connection
\* that is down is not sent.
Send ==
  /\ up /\ Len(sent) < MaxSends
  /\ \E m \in Messages :
        /\ sent' = Append(sent, m)
        /\ wire' = wire \o Encode(Len(m)) \o m
  /\ UNCHANGED <<up, avail, inSize, inBuffer, at, delivered>>

\* Bytes arrive and the slot read is called. The socket takes bytes only in the
\* event loop of the thread the slot runs on, so never while it runs.
Arrive ==
  /\ at = "idle"
  /\ \E n \in 1 .. Len(wire) :
        /\ avail' = avail \o SubSeq(wire, 1, n)
        /\ wire' = SubSeq(wire, n + 1, Len(wire))
  /\ at' = "read"
  /\ UNCHANGED <<up, sent, inSize, inBuffer, delivered>>

\* read, with the readSize it calls unless a size is known.
Read ==
  /\ at = "read"
  /\ IF inSize = 0 /\ Len(avail) >= HeaderLen
     THEN /\ inSize' = Decode(SubSeq(avail, 1, HeaderLen))
          /\ avail' = SubSeq(avail, HeaderLen + 1, Len(avail))
     ELSE UNCHANGED <<inSize, avail>>
  /\ at' = IF inSize' > 0 THEN "readData" ELSE "idle"
  /\ UNCHANGED <<up, sent, wire, inBuffer, delivered>>

Least(a, b) == IF a < b THEN a ELSE b

\* Slip: the loop ends with the message.
ReadAgain_Returns ==
  /\ at = "readData" /\ avail # << >> /\ inSize = Len(inBuffer)
  /\ at' = "idle"
  /\ UNCHANGED <<up, sent, wire, avail, inSize, inBuffer, delivered>>

\* Slip: what is in the socket is taken whole, the next frame's bytes included.
ReadData_Greedy ==
  /\ at = "readData"
  /\ avail # << >> /\ inSize > Len(inBuffer)
  /\ LET buffer == inBuffer \o avail
     IN  /\ avail' = << >>
         /\ IF Len(buffer) >= inSize
            THEN inSize' = 0 /\ inBuffer' = << >> /\ delivered' = Append(delivered, buffer)
            ELSE inBuffer' = buffer /\ UNCHANGED <<inSize, delivered>>
  /\ UNCHANGED <<up, sent, wire, at>>

\* One round of readData's loop.
ReadData ==
  /\ at = "readData"
  /\ avail # << >> /\ inSize > Len(inBuffer)
  /\ LET n == Least(Len(avail), inSize - Len(inBuffer))
         buffer == inBuffer \o SubSeq(avail, 1, n)
     IN  /\ avail' = SubSeq(avail, n + 1, Len(avail))
         /\ IF Len(buffer) >= inSize
            THEN inSize' = 0 /\ inBuffer' = << >> /\ delivered' = Append(delivered, buffer)
            ELSE inBuffer' = buffer /\ UNCHANGED <<inSize, delivered>>
  /\ UNCHANGED <<up, sent, wire, at>>

\* read_n <= 0: the message is complete and there is more, which read takes up.
ReadAgain ==
  /\ at = "readData" /\ avail # << >> /\ inSize = Len(inBuffer)
  /\ at' = "read"
  /\ UNCHANGED <<up, sent, wire, avail, inSize, inBuffer, delivered>>

\* The loop and the slot end.
ReadReturns ==
  /\ at = "readData" /\ avail = << >>
  /\ at' = "idle"
  /\ UNCHANGED <<up, sent, wire, avail, inSize, inBuffer, delivered>>

\* The connection is lost with all that is under way.
Cut ==
  /\ up /\ up' = FALSE
  /\ wire' = << >>
  /\ UNCHANGED <<sent, avail, inSize, inBuffer, at, delivered>>

Parse == Read \/ ReadData \/ ReadAgain \/ ReadReturns
Next == Send \/ Arrive \/ Parse \/ Cut

Spec == Init /\ [][Next]_vars

\* TCP delivers while the connection lasts; a slot runs to its end.
FairSpec == Spec /\ WF_vars(Arrive) /\ WF_vars(Parse)
-----------------------------------------------------------------------------
\* No wake-up is missed: when the slot has returned and nothing is under way,
\* no message that arrived waits in the socket for a readyRead that only the
\* next message would bring.
NothingLeftBehind ==
  at = "idle" /\ up /\ wire = << >> => delivered = sent

\* The parser implements the queue of messages.
Queue == INSTANCE Fifo WITH
  Messages <- Messages, up <- up, sent <- sent, delivered <- delivered
ImplementsFifo == Queue!Spec
=============================================================================
