----------------------------- MODULE BufferPool -----------------------------
(***************************************************************************)
(* The buffer pool of src/bufferpool: a growable array of packet slots and *)
(* the free list threaded through the vector bp->freelist.                 *)
(*                                                                         *)
(* Every operation runs inside fl_mutex from its first access to its last, *)
(* so each is one action, except that bpget leaves the mutex while it      *)
(* sleeps on cond_full.  One thread per pool calls bpget and bpfree: the   *)
(* RTP thread (the getter).  bprmv and rtp_rm_all_pkts are called by the   *)
(* application's threads.                                                  *)
(*                                                                         *)
(* chain is a history variable: the sequence of slots the free list is     *)
(* meant to hold, head first.  No guard reads it; Linked says that the     *)
(* code's words encode it.  What the slots contain is modelled by the      *)
(* modules that instantiate this one.                                      *)
(***************************************************************************)
EXTENDS Integers, Sequences

CONSTANTS SlotNum,  \* BP_SLOT_NUM, 150 in the code
          Chunks    \* BP_MAX_SIZE is BP_SLOT_NUM*50

ASSUME PoolAssumption == /\ SlotNum \in Nat \ {0}
                         /\ Chunks \in Nat \ {0}

VARIABLES freelist, flhead, flcount, size,
          getter,   \* where the RTP thread is: "out" of bpget, "waiting" on
                    \* cond_full, or "woken" and about to test the loop again
          chain

vars == <<freelist, flhead, flcount, size, getter, chain>>

Nil == -1
MaxSize == SlotNum * Chunks
Allocated == 0 .. size - 1
Free == {chain[k] : k \in 1 .. Len(chain)}
InUse == Allocated \ Free

(* bpinit: one chunk, every slot linked to the next. *)
Init ==
  /\ freelist = [i \in 0 .. SlotNum - 1 |-> IF i = SlotNum - 1 THEN Nil ELSE i + 1]
  /\ flhead = 0
  /\ flcount = 0
  /\ size = SlotNum
  /\ getter = "out"
  /\ chain = [k \in 1 .. SlotNum |-> k - 1]

-----------------------------------------------------------------------------
(* Faulty variants of the operations below; no specification uses them.    *)

EnlargedUnterminated ==
  [i \in 0 .. size + SlotNum - 1 |-> IF i < size THEN freelist[i] ELSE i + 1]

PushUnlinked(i) ==
  /\ flhead' = i
  /\ flcount' = flcount - 1
  /\ chain' = <<i>> \o chain
  /\ UNCHANGED <<freelist, size>>

PushUncounted(i) ==
  /\ freelist' = [freelist EXCEPT ![i] = flhead]
  /\ flhead' = i
  /\ chain' = <<i>> \o chain
  /\ UNCHANGED <<flcount, size>>

NoSignal == UNCHANGED getter

PopStuck(i) ==
  /\ flhead # Nil
  /\ i = flhead
  /\ flcount' = flcount + 1
  /\ chain' = Tail(chain)
  /\ UNCHANGED <<freelist, flhead, size>>
-----------------------------------------------------------------------------

(* The vector after bpenlarge: a new chunk, its last slot the end of the list. *)
Enlarged ==
  [i \in 0 .. size + SlotNum - 1 |->
     IF i < size THEN freelist[i]
     ELSE IF i = size + SlotNum - 1 THEN Nil ELSE i + 1]

(* The critical section of bpget when the list has a slot. *)
Pop(i) ==
  /\ flhead # Nil
  /\ i = flhead
  /\ flhead' = freelist[flhead]
  /\ flcount' = flcount + 1
  /\ chain' = Tail(chain)
  /\ UNCHANGED <<freelist, size>>

(* Faulty variant of EnlargeAndPop; no specification uses it. *)
EnlargeAndPopEarly(i) ==
  /\ size < MaxSize
  /\ i = size
  /\ size' = size + SlotNum
  /\ freelist' = Enlarged
  /\ flhead' = Enlarged[size]
  /\ flcount' = flcount + 1
  /\ chain' = [k \in 1 .. SlotNum - 1 |-> size + k]

(* The same when the list is empty and bpenlarge succeeds: the loop test
   then finds the first slot of the new chunk and takes it. *)
EnlargeAndPop(i) ==
  /\ flhead = Nil
  /\ size < MaxSize
  /\ i = size
  /\ size' = size + SlotNum
  /\ freelist' = Enlarged
  /\ flhead' = Enlarged[size]
  /\ flcount' = flcount + 1
  /\ chain' = [k \in 1 .. SlotNum - 1 |-> size + k]

(* bpget returns slot i. *)
BpGet(i) ==
  /\ getter # "waiting"
  /\ Pop(i) \/ EnlargeAndPop(i)
  /\ getter' = "out"

(* bpget finds the pool empty at its maximum size and sleeps. *)
BpGetWait ==
  /\ getter # "waiting"
  /\ flhead = Nil
  /\ size >= MaxSize
  /\ getter' = "waiting"
  /\ UNCHANGED <<freelist, flhead, flcount, size, chain>>

(* pthread_cond_wait may return without a signal. *)
SpuriousWakeup ==
  /\ getter = "waiting"
  /\ getter' = "woken"
  /\ UNCHANGED <<freelist, flhead, flcount, size, chain>>

(* pthread_cond_signal(&bp->cond_full) *)
Signal == getter' = IF getter = "waiting" THEN "woken" ELSE getter

(* Put slot i back at the head of the list. *)
Push(i) ==
  /\ freelist' = [freelist EXCEPT ![i] = flhead]
  /\ flhead' = i
  /\ flcount' = flcount - 1
  /\ chain' = <<i>> \o chain
  /\ UNCHANGED size

(* bpfree, by the RTP thread: the pool's only sleeper is itself, and nothing
   is signalled. *)
BpFree(i) ==
  /\ getter = "out"
  /\ Push(i)
  /\ UNCHANGED getter

(* The free-list half of bprmv. *)
BpRmv(i) ==
  /\ Push(i)
  /\ Signal

(* The free-list half of rtp_rm_all_pkts: the slots of s, in the order the
   loop unlinks them, then one signal. *)
BpRmvAll(s) ==
  LET n == Len(s) IN
  /\ freelist' = [i \in DOMAIN freelist |->
       IF \E k \in 1 .. n : s[k] = i
       THEN LET k == CHOOSE k \in 1 .. n : s[k] = i
            IN  IF k = 1 THEN flhead ELSE s[k - 1]
       ELSE freelist[i]]
  /\ flhead' = IF n = 0 THEN flhead ELSE s[n]
  /\ flcount' = flcount - n
  /\ chain' = [k \in 1 .. n + Len(chain) |->
                 IF k <= n THEN s[n + 1 - k] ELSE chain[k - n]]
  /\ UNCHANGED size
  /\ Signal

(* The orders in which a list of some of the slots in S can be emptied. *)
Arrangements(S) ==
  {s \in UNION {[1 .. n -> S] : n \in 0 .. MaxSize} :
     \A j, k \in DOMAIN s : s[j] = s[k] => j = k}

Next ==
  \/ \E i \in 0 .. MaxSize - 1 : BpGet(i)
  \/ BpGetWait
  \/ SpuriousWakeup
  \/ \E i \in InUse : BpFree(i)
  \/ \E i \in InUse : BpRmv(i)
  \/ \E s \in Arrangements(InUse) : BpRmvAll(s)

Spec == Init /\ [][Next]_vars

-----------------------------------------------------------------------------
(* The words of the pool stay in range: every index stored is a slot that
   has been allocated, or the list delimiter. *)
TypeOK ==
  /\ size \in SlotNum .. MaxSize
  /\ freelist \in [Allocated -> Allocated \cup {Nil}]
  /\ flhead \in Allocated \cup {Nil}
  /\ flcount \in Nat
  /\ getter \in {"out", "waiting", "woken"}
  /\ chain \in Seq(Allocated)

(* Following freelist from flhead visits the slots of chain, each once, and
   ends at the delimiter: the list is never cut, joined to itself or left
   dangling by bpget, bpenlarge, bpfree, bprmv or rtp_rm_all_pkts. *)
Linked ==
  /\ chain = <<>> <=> flhead = Nil
  /\ chain # <<>> => /\ flhead = chain[1]
                     /\ freelist[chain[Len(chain)]] = Nil
  /\ \A k \in 1 .. Len(chain) - 1 : freelist[chain[k]] = chain[k + 1]
  /\ \A j, k \in 1 .. Len(chain) : chain[j] = chain[k] => j = k

(* flcount, which rtp() compares with prebuffer_size, is the number of slots
   that are not on the free list. *)
CountExact == flcount = size - Len(chain)

(* bpget does not sleep through the return of a slot: bprmv and
   rtp_rm_all_pkts signal, and bpfree has no need to. *)
NoSleepWhileFree == getter = "waiting" => flhead = Nil /\ size >= MaxSize

(* bpget never hands out a slot that some client still holds. *)
HandedOutOnce ==
  [][\A i \in 0 .. MaxSize - 1 : BpGet(i) => i \notin InUse]_vars

(* The pool only grows when it is exhausted, chunk by chunk. *)
Abstract == INSTANCE SlotPool WITH capacity <- size, free <- Free
ImplementsSlotPool == Abstract!Spec

(* bufferpool.h:138 documents flcount as the count of the free list. *)
FlcountIsFreeListCount == flcount = Len(chain)
=============================================================================
