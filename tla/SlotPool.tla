------------------------------ MODULE SlotPool ------------------------------
(***************************************************************************)
(* What the buffer pool of src/bufferpool promises its clients, with no    *)
(* list in sight: a set of free slots that grows by SlotNum when it runs   *)
(* dry, until Chunks chunks exist.  BufferPool.tla implements it.          *)
(***************************************************************************)
EXTENDS Integers

CONSTANTS SlotNum,  \* BP_SLOT_NUM: slots in one chunk
          Chunks    \* BP_MAX_SIZE / BP_SLOT_NUM: chunks the pool may reach

VARIABLES capacity, \* slots that exist, 0 .. capacity - 1
          free      \* those no client holds

vars == <<capacity, free>>

Init == /\ capacity = SlotNum
        /\ free = 0 .. SlotNum - 1

(* A client is given slot i, which nobody holds. *)
Get(i) ==
  /\ i \in free
  /\ free' = free \ {i}
  /\ UNCHANGED capacity

(* Faulty variant of GrowAndGet; no specification uses it. *)
GrowAndGetShifted(i) ==
  /\ free = {}
  /\ capacity < SlotNum * Chunks
  /\ capacity' = capacity + SlotNum
  /\ i \in capacity + 1 .. capacity'
  /\ free' = (capacity + 1 .. capacity') \ {i}

(* Only a pool with no free slot grows; the client gets one of the new ones. *)
GrowAndGet(i) ==
  /\ free = {}
  /\ capacity < SlotNum * Chunks
  /\ capacity' = capacity + SlotNum
  /\ i \in capacity .. capacity' - 1
  /\ free' = (capacity .. capacity' - 1) \ {i}

(* Clients give back slots that were held. *)
Put(S) ==
  /\ free' = free \cup S
  /\ UNCHANGED capacity

Held == (0 .. capacity - 1) \ free

Next ==
  \/ \E i \in free : Get(i)
  \/ \E i \in 0 .. SlotNum * Chunks - 1 : GrowAndGet(i)
  \/ \E S \in SUBSET Held : Put(S)

Spec == Init /\ [][Next]_vars
=============================================================================
