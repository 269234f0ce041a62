--------------------------- MODULE MessageChannel ---------------------------
(***************************************************************************)
(* What src/rtsp owes the state machine and the RTP and RTCP threads: the  *)
(* server's messages, whole, once each and in the order they were sent,    *)
(* until the connection is closed.  RtspFraming.tla implements it out of a *)
(* stream of bytes.                                                        *)
(***************************************************************************)
EXTENDS Sequences

CONSTANT Messages

VARIABLES queue,     \* the messages sent and not yet delivered
          delivered, \* those delivered, oldest first
          open

vars == <<queue, delivered, open>>

Init == queue = <<>> /\ delivered = <<>> /\ open = TRUE

Send == /\ \E m \in Messages : queue' = Append(queue, m)
        /\ UNCHANGED <<delivered, open>>

Deliver == /\ open /\ queue # <<>>
           /\ delivered' = Append(delivered, Head(queue))
           /\ queue' = Tail(queue)
           /\ UNCHANGED open

(* A reply that reports an error closes the connection; it is the last     *)
(* message delivered.                                                      *)
Close == /\ open /\ queue # <<>>
         /\ delivered' = Append(delivered, Head(queue))
         /\ queue' = Tail(queue)
         /\ open' = FALSE

Next == Send \/ Deliver \/ Close

Spec == Init /\ [][Next]_vars /\ WF_vars(Deliver \/ Close)
=============================================================================
