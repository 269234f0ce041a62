---------------------------- MODULE PlayoutOrder ----------------------------
(* What the playout buffer promises the application: the packets waiting to be
   played, each once however often it arrives, and always the oldest first. *)
EXTENDS Integers

CONSTANT Numbers   \* packets, numbered in the order the sender sent them

VARIABLE waiting

Init == waiting = {}

Arrive == \E n \in Numbers : waiting' = waiting \cup {n}

Play == \E n \in waiting : /\ \A m \in waiting : n <= m
                           /\ waiting' = waiting \ {n}

Flush == waiting' = {}

Next == Arrive \/ Play \/ Flush

Spec == Init /\ [][Next]_waiting
=============================================================================
