-------------------------------- MODULE Fifo --------------------------------
(***************************************************************************)
(* What Client::send and Server::write promise the other side's dataReady,   *)
(* for one direction of a connection: each message arrives once, whole and   *)
(* in order, for as long as the connection lasts.                            *)
(***************************************************************************)
EXTENDS Integers, Sequences

CONSTANT Messages

VARIABLES
  up,         \* the connection has not been cut
  sent,       \* the messages given to send
  delivered   \* the messages dataReady was emitted with

vars == <<up, sent, delivered>>

Init == up = TRUE /\ sent = << >> /\ delivered = << >>

Send == up /\ (\E m \in Messages : sent' = Append(sent, m)) /\ UNCHANGED <<up, delivered>>

Deliver ==
  /\ Len(delivered) < Len(sent)
  /\ delivered' = Append(delivered, sent[Len(delivered) + 1])
  /\ UNCHANGED <<up, sent>>

Cut == up /\ up' = FALSE /\ UNCHANGED <<sent, delivered>>

\* What has arrived may still be delivered after the cut.
Next == Send \/ Deliver \/ Cut
InOrder == Init /\ [][Next]_vars
Spec == InOrder /\ WF_vars(up /\ Deliver)
=============================================================================
