---------------------------- MODULE PlayoutList ----------------------------
(***************************************************************************)
(* The playout buffer of one source as a data structure: the doubly linked *)
(* list of src/bufferpool, its links kept in the vector po->pobuff under   *)
(* the indices of the buffer-pool slots.  The head is the packet received  *)
(* last in sequence order, the tail the next one to play.                  *)
(*                                                                         *)
(* Every operation holds po_mutex throughout, so each is one action.       *)
(* Where poadd inserts is left open here (any place of the list);          *)
(* PlayoutBuffer.tla adds the search that chooses it.                      *)
(*                                                                         *)
(* order is a history variable: the slots the list is meant to hold, head  *)
(* first.  No operation reads it; Linked says that the words encode it.    *)
(***************************************************************************)
EXTENDS Integers, Sequences

CONSTANT Slots   \* indices of the buffer pool, 0 .. BP_MAX_SIZE - 1

ASSUME SlotsAssumption == Slots \subseteq Nat

VARIABLES next, prev,       \* pobuff[i].next and pobuff[i].prev
          pohead, potail, pocount,
          order

listVars == <<next, prev, pohead, potail, pocount, order>>

Nil == -1
Queued == {order[k] : k \in 1 .. Len(order)}

(* rtp_ssrc_init allocates the vector zeroed, poinit empties the list. *)
ListInit ==
  /\ next = [i \in Slots |-> 0]
  /\ prev = [i \in Slots |-> 0]
  /\ pohead = Nil
  /\ potail = Nil
  /\ pocount = 0
  /\ order = <<>>

-----------------------------------------------------------------------------
(* Faulty variant of InsertMiddle; no specification uses it. *)

InsertMiddleOneWay(i, at) ==
  /\ next' = [next EXCEPT ![i] = at, ![prev[at]] = i]
  /\ prev' = [prev EXCEPT ![i] = prev[at]]
  /\ UNCHANGED <<pohead, potail>>
-----------------------------------------------------------------------------

(* poadd, "head insert" *)
InsertHead(i) ==
  /\ next' = [next EXCEPT ![i] = pohead]
  /\ prev' = IF pohead = Nil THEN [prev EXCEPT ![i] = Nil]
             ELSE [prev EXCEPT ![pohead] = i, ![i] = Nil]
  /\ pohead' = i
  /\ potail' = IF pohead = Nil THEN i ELSE potail

(* poadd, "tail insert" *)
InsertTail(i) ==
  /\ next' = [next EXCEPT ![i] = next[potail], ![potail] = i]
  /\ prev' = [prev EXCEPT ![i] = potail]
  /\ potail' = i
  /\ UNCHANGED pohead

(* poadd, "Inserting before the current one" *)
InsertMiddle(i, at) ==
  /\ next' = [next EXCEPT ![i] = at, ![prev[at]] = i]
  /\ prev' = [prev EXCEPT ![i] = prev[at], ![at] = i]
  /\ UNCHANGED <<pohead, potail>>

(* Where slot at stands in order; one past its end for the delimiter. *)
Position(at) ==
  IF at = Nil THEN Len(order) + 1
  ELSE CHOOSE k \in 1 .. Len(order) : order[k] = at

(* Faulty variant of Insert; no specification uses it. *)
InsertUncounted(i, at) ==
  /\ \/ at = pohead /\ InsertHead(i)
     \/ at # pohead /\ at = Nil /\ InsertTail(i)
     \/ at # pohead /\ at # Nil /\ InsertMiddle(i, at)
  /\ UNCHANGED pocount
  /\ order' = LET p == Position(at) IN
              [k \in 1 .. Len(order) + 1 |->
                 IF k < p THEN order[k] ELSE IF k = p THEN i ELSE order[k - 1]]

(* The second half of poadd: link slot i before slot at, which is where the
   search stopped, or Nil if it ran off the end. *)
Insert(i, at) ==
  /\ \/ at = pohead /\ InsertHead(i)
     \/ at # pohead /\ at = Nil /\ InsertTail(i)
     \/ at # pohead /\ at # Nil /\ InsertMiddle(i, at)
  /\ pocount' = pocount + 1
  /\ order' = LET p == Position(at) IN
              [k \in 1 .. Len(order) + 1 |->
                 IF k < p THEN order[k] ELSE IF k = p THEN i ELSE order[k - 1]]

(* podel, and the first half of bprmv. *)
Unlink(i) ==
  /\ next' = IF prev[i] # Nil THEN [next EXCEPT ![prev[i]] = next[i]] ELSE next
  /\ prev' = IF next[i] # Nil THEN [prev EXCEPT ![next[i]] = prev[i]] ELSE prev
  /\ pohead' = IF prev[i] = Nil THEN next[i] ELSE pohead
  /\ potail' = IF next[i] = Nil THEN prev[i] ELSE potail
  /\ pocount' = pocount - 1

(* Unlinking a member of the list. *)
Remove(i) ==
  /\ Unlink(i)
  /\ order' = LET p == Position(i) IN
              [k \in 1 .. Len(order) - 1 |-> IF k < p THEN order[k] ELSE order[k + 1]]

(* The loop of rtp_rm_all_pkts: unlink the tail until there is none.  Each
   turn ends the list at the next slot towards the head. *)
RemoveAll ==
  /\ next' = [i \in Slots |-> IF i \in Queued THEN Nil ELSE next[i]]
  /\ UNCHANGED prev
  /\ pohead' = Nil
  /\ potail' = Nil
  /\ pocount' = pocount - Len(order)
  /\ order' = <<>>

ListNext ==
  \/ \E i \in Slots \ Queued, at \in Queued \cup {Nil} : Insert(i, at)
  \/ \E i \in Queued : Remove(i)
  \/ RemoveAll

ListSpec == ListInit /\ [][ListNext]_listVars

(* On SSRC_COLLISION rtp_recv hands bprmv a slot it has just filled, which was
   never added to any list: the links are those an earlier use left behind. *)
DropColliding(i) == Unlink(i) /\ UNCHANGED order

(* The list of a source whose SSRC another sender also uses. *)
CollisionSpec ==
  ListInit /\ [][ListNext \/ \E i \in Slots \ Queued : DropColliding(i)]_listVars

-----------------------------------------------------------------------------
(* The links of a queued slot are queued slots or the delimiter. *)
ListTypeOK ==
  /\ next \in [Slots -> Slots \cup {Nil, 0}]
  /\ prev \in [Slots -> Slots \cup {Nil, 0}]
  /\ pohead \in Slots \cup {Nil}
  /\ potail \in Slots \cup {Nil}
  /\ pocount \in Nat
  /\ order \in Seq(Slots)

(* The words encode one list, the same in both directions: from pohead along
   next, and from potail along prev, the slots of order come up once each and
   the walk ends at the delimiter.  A link lost on one side only, or a head or
   tail left behind, is what poadd, podel, bprmv and rtp_rm_all_pkts could get
   wrong and no single call would show. *)
DoublyLinked ==
  LET n == Len(order) IN
  /\ order = <<>> => pohead = Nil /\ potail = Nil
  /\ order # <<>> => /\ pohead = order[1] /\ prev[order[1]] = Nil
                     /\ potail = order[n] /\ next[order[n]] = Nil
  /\ \A k \in 1 .. n - 1 : /\ next[order[k]] = order[k + 1]
                           /\ prev[order[k + 1]] = order[k]
  /\ \A j, k \in 1 .. n : order[j] = order[k] => j = k

(* pocount counts the list's members. *)
PocountExact == pocount = Len(order)

(* bufferpool.h:84-86: "The elements are part of a indexed double linked
   list", delimited by -1: the head and tail name the ends of one list. *)
OneList ==
  /\ (pohead = Nil) = (potail = Nil)
  /\ pohead # Nil => prev[pohead] = Nil /\ next[potail] = Nil
=============================================================================
