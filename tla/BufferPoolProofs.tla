-------------------------- MODULE BufferPoolProofs --------------------------
(* Proofs about the buffer pool, for every chunk size and number of chunks. *)
EXTENDS BufferPool, FiniteSetTheorems, SequenceTheorems, TLAPS

(* The pool's words, apart from flcount, hold indices of allocated slots;
   size is a whole number of chunks, which is what keeps it below MaxSize. *)
Words ==
  /\ \E c \in 1 .. Chunks : size = c * SlotNum
  /\ freelist \in [Allocated -> Allocated \cup {Nil}]
  /\ flhead \in Allocated \cup {Nil}
  /\ chain \in Seq(Allocated)

GetterOK == getter \in {"out", "waiting", "woken"}

(* The inductive invariant. *)
IInv == Words /\ Linked /\ CountExact /\ GetterOK /\ NoSleepWhileFree

-----------------------------------------------------------------------------
(* A whole number of chunks lies between one chunk and the maximum size. *)
LEMMA SizeBounds ==
  ASSUME NEW c \in 1 .. Chunks
  PROVE  /\ c * SlotNum \in SlotNum .. MaxSize
         /\ c * SlotNum < MaxSize => c + 1 \in 1 .. Chunks
         /\ (c + 1) * SlotNum = c * SlotNum + SlotNum
<1>1. c \in Nat /\ c >= 1 /\ c <= Chunks /\ Chunks \in Nat /\ SlotNum \in Nat \ {0}
  BY PoolAssumption
<1>2. c * SlotNum \in Nat /\ SlotNum * Chunks \in Nat
  BY <1>1
<1>3. (c + 1) * SlotNum = c * SlotNum + SlotNum
  BY <1>1
<1>4. c * SlotNum >= SlotNum
  <2>1. (c - 1) * SlotNum >= 0
    BY <1>1
  <2> QED BY <1>1, <2>1
<1>5. SlotNum * Chunks = c * SlotNum + (Chunks - c) * SlotNum
  BY <1>1
<1>6. (Chunks - c) * SlotNum >= 0
  BY <1>1
<1>7. c = Chunks => c * SlotNum = SlotNum * Chunks
  BY <1>1
<1> QED BY <1>1, <1>2, <1>3, <1>4, <1>5, <1>6, <1>7 DEF MaxSize

(* A sequence that repeats no slot is no longer than the vector of slots. *)
LEMMA ChainFits ==
  ASSUME NEW n \in Nat, NEW s \in Seq(0 .. n - 1),
         \A j, k \in 1 .. Len(s) : s[j] = s[k] => j = k
  PROVE  Len(s) <= n
<1>1. Len(s) \in Nat
  BY LenProperties
<1>2. IsFiniteSet(1 .. Len(s)) /\ Cardinality(1 .. Len(s)) = Len(s)
  <2>1. \A m \in Nat : IsFiniteSet(1 .. m) /\ Cardinality(1 .. m) = m
    BY FS_Interval
  <2> QED BY <1>1, <2>1
<1>3. IsFiniteSet(0 .. n - 1) /\ Cardinality(0 .. n - 1) = n
  BY FS_Interval
<1>4. SUFFICES ASSUME n < Len(s) PROVE FALSE
  BY <1>1
<1>5. \E x, y \in 1 .. Len(s) : x # y /\ s[x] = s[y]
  <2> DEFINE D == 1 .. Len(s)
             R == 0 .. n - 1
  <2>1. s \in [D -> R]
    BY LenProperties
  <2>2. IsFiniteSet(D) /\ IsFiniteSet(R) /\ Cardinality(R) < Cardinality(D)
    BY <1>2, <1>3, <1>4
  <2> HIDE DEF D, R
  <2>3. \E x, y \in D : x # y /\ s[x] = s[y]
    BY <2>1, <2>2, FS_PigeonHole
  <2> QED BY <2>3 DEF D
<1> QED BY <1>5

(* The invariant gives the invariants that TLC checks. *)
LEMMA IInvImplies ==
  ASSUME IInv
  PROVE  TypeOK /\ Linked /\ CountExact /\ NoSleepWhileFree
<1> USE PoolAssumption
<1>1. PICK c \in 1 .. Chunks : size = c * SlotNum
  BY DEF IInv, Words
<1>2. size \in SlotNum .. MaxSize /\ size \in Nat
  BY <1>1, SizeBounds
<1>3. Len(chain) \in Nat /\ Len(chain) <= size
  BY <1>2, ChainFits, LenProperties DEF IInv, Words, Linked, Allocated
<1>4. flcount \in Nat
  BY <1>2, <1>3 DEF IInv, CountExact
<1> QED BY <1>2, <1>4 DEF IInv, Words, GetterOK, TypeOK

-----------------------------------------------------------------------------
(* The invariant holds when bpinit is done. *)
LEMMA InitIInv == Init => IInv
<1> SUFFICES ASSUME Init PROVE IInv
  OBVIOUS
<1> USE PoolAssumption DEF Init
<1>1. size = 1 * SlotNum /\ 1 \in 1 .. Chunks
  OBVIOUS
<1>2. chain \in Seq(Allocated) /\ Len(chain) = SlotNum
  BY DEF Allocated
<1>3. Words
  BY <1>1, <1>2 DEF Words, Allocated, Nil
<1>4. Linked
  <2>1. SlotNum \in Nat /\ SlotNum >= 1
    OBVIOUS
  <2>2. flhead = 0 /\ flhead # Nil /\ chain[1] = 0
    BY <2>1 DEF Nil
  <2>3. chain # <<>>
    BY <1>2, <2>1, EmptySeq
  <2>4. chain[SlotNum] = SlotNum - 1 /\ freelist[SlotNum - 1] = Nil
    BY <2>1
  <2>5. \A k \in 1 .. SlotNum - 1 : freelist[chain[k]] = chain[k + 1]
    BY <2>1
  <2>6. \A j, k \in 1 .. SlotNum : chain[j] = chain[k] => j = k
    BY <2>1
  <2> HIDE DEF Init
  <2> QED BY <1>2, <2>2, <2>3, <2>4, <2>5, <2>6 DEF Linked
<1>5. CountExact
  BY <1>2 DEF CountExact
<1> QED BY <1>3, <1>4, <1>5 DEF IInv, GetterOK, NoSleepWhileFree

(* Taking the head of the free list leaves its tail linked. *)
LEMMA PopKeeps ==
  ASSUME Words, Linked, CountExact, NEW i, Pop(i)
  PROVE  Words' /\ Linked' /\ CountExact'
<1>1. PICK c \in 1 .. Chunks : size = c * SlotNum
  BY DEF Words
<1>2. size \in Nat
  BY <1>1, SizeBounds, PoolAssumption
<1>3. /\ chain # <<>> /\ flhead = chain[1] /\ flhead \in Allocated
      /\ flhead' = freelist[flhead]
      /\ chain' = Tail(chain)
      /\ freelist' = freelist /\ size' = size /\ flcount' = flcount + 1
  BY DEF Linked, Words, Pop
<1>4. Len(chain) \in Nat /\ Len(chain) >= 1
  BY <1>3, EmptySeq DEF Words
<1>5. /\ chain' \in Seq(Allocated)
      /\ Len(chain') = Len(chain) - 1
      /\ \A k \in 1 .. Len(chain) - 1 : chain'[k] = chain[k + 1]
  BY <1>3, HeadTailProperties DEF Words
<1>6. Words'
  BY <1>1, <1>2, <1>3, <1>5 DEF Words, Allocated
<1>7. Linked'
  <2>1. /\ chain' = <<>> <=> flhead' = Nil
        /\ chain' # <<>> => /\ flhead' = chain'[1]
                            /\ freelist[chain'[Len(chain')]] = Nil
    <3>1. CASE Len(chain) = 1
      <4>1. chain' = <<>>
        BY <1>5, <3>1, EmptySeq
      <4>2. flhead' = Nil
        BY <1>3, <3>1 DEF Linked
      <4> QED BY <4>1, <4>2
    <3>2. CASE Len(chain) # 1
      <4>1. Len(chain) >= 2
        <5>1. \A m \in Nat : m >= 1 /\ m # 1 => m >= 2
          OBVIOUS
        <5> QED BY <1>4, <3>2, <5>1
      <4>2. chain' # <<>>
        BY <1>5, <4>1, EmptySeq
      <4>3. flhead' = chain[2] /\ chain'[1] = chain[2]
        BY <1>3, <1>4, <1>5, <4>1 DEF Linked
      <4>4. chain[2] # Nil
        <5>1. chain[2] \in Allocated
          BY <1>4, <4>1, ElementOfSeq DEF Words
        <5> QED BY <5>1, <1>2 DEF Allocated, Nil
      <4>5. chain'[Len(chain')] = chain[Len(chain)]
        BY <1>4, <1>5, <4>1
      <4>6. freelist[chain[Len(chain)]] = Nil
        BY <1>3 DEF Linked
      <4> QED BY <4>2, <4>3, <4>4, <4>5, <4>6
    <3> QED BY <3>1, <3>2
  <2>2. \A k \in 1 .. Len(chain') - 1 : freelist[chain'[k]] = chain'[k + 1]
    BY <1>4, <1>5 DEF Linked
  <2>3. \A j, k \in 1 .. Len(chain') : chain'[j] = chain'[k] => j = k
    BY <1>4, <1>5 DEF Linked
  <2> QED BY <1>3, <2>1, <2>2, <2>3 DEF Linked
<1>8. CountExact'
  BY <1>2, <1>3, <1>4, <1>5 DEF CountExact
<1> QED BY <1>6, <1>7, <1>8

(* A new chunk, minus the slot given out, is linked from its second slot on. *)
LEMMA EnlargeAndPopKeeps ==
  ASSUME Words, Linked, CountExact, NEW i, EnlargeAndPop(i)
  PROVE  Words' /\ Linked' /\ CountExact'
<1> USE PoolAssumption
<1>1. PICK c \in 1 .. Chunks : size = c * SlotNum
  BY DEF Words
<1>2. size \in Nat /\ SlotNum \in Nat \ {0}
  BY <1>1, SizeBounds
<1>3. size' = (c + 1) * SlotNum /\ c + 1 \in 1 .. Chunks
  BY <1>1, SizeBounds DEF EnlargeAndPop
<1>4. size' = size + SlotNum
  BY DEF EnlargeAndPop
<1>5. /\ chain' = [k \in 1 .. SlotNum - 1 |-> size + k]
      /\ flhead' = IF SlotNum = 1 THEN Nil ELSE size + 1
      /\ freelist' = [j \in 0 .. size + SlotNum - 1 |->
                        IF j < size THEN freelist[j]
                        ELSE IF j = size + SlotNum - 1 THEN Nil ELSE j + 1]
  BY <1>2 DEF EnlargeAndPop, Enlarged
<1>6. chain' \in Seq(Allocated') /\ Len(chain') = SlotNum - 1
  BY <1>2, <1>4, <1>5 DEF Allocated
<1>7. Words'
  <2>1. freelist' \in [Allocated' -> Allocated' \cup {Nil}]
    BY <1>2, <1>4, <1>5 DEF Words, Allocated, Nil
  <2>2. flhead' \in Allocated' \cup {Nil}
    BY <1>2, <1>4, <1>5 DEF Allocated
  <2> QED BY <1>3, <1>6, <2>1, <2>2 DEF Words
<1>8. Linked'
  <2>1. chain' = <<>> <=> SlotNum = 1
    BY <1>2, <1>6, EmptySeq
  <2>2. SlotNum # 1 => flhead' = chain'[1] /\ flhead' # Nil
    BY <1>2, <1>5 DEF Nil
  <2>3. SlotNum # 1 => freelist'[chain'[Len(chain')]] = Nil
    BY <1>2, <1>5, <1>6
  <2>4. \A k \in 1 .. SlotNum - 2 : freelist'[chain'[k]] = chain'[k + 1]
    BY <1>2, <1>5
  <2>5. \A j, k \in 1 .. SlotNum - 1 : chain'[j] = chain'[k] => j = k
    BY <1>2, <1>5
  <2>6. chain' = <<>> <=> flhead' = Nil
    BY <1>2, <1>5, <2>1 DEF Nil
  <2>7. chain' # <<>> => /\ flhead' = chain'[1]
                         /\ freelist'[chain'[Len(chain')]] = Nil
    BY <2>1, <2>2, <2>3
  <2>8. /\ \A k \in 1 .. Len(chain') - 1 : freelist'[chain'[k]] = chain'[k + 1]
        /\ \A j, k \in 1 .. Len(chain') : chain'[j] = chain'[k] => j = k
    BY <1>2, <1>6, <2>4, <2>5
  <2> QED BY <2>6, <2>7, <2>8 DEF Linked
<1>9. CountExact'
  <2>1. Len(chain) = 0
    BY EmptySeq DEF Linked, EnlargeAndPop
  <2> QED BY <1>2, <1>4, <1>6, <2>1 DEF CountExact, EnlargeAndPop
<1> QED BY <1>7, <1>8, <1>9

(* Pushing a slot that is in use keeps the list linked. *)
LEMMA PushKeeps ==
  ASSUME Words, Linked, CountExact, NEW i \in InUse, Push(i)
  PROVE  Words' /\ Linked' /\ CountExact'
<1> USE PoolAssumption
<1>1. PICK c \in 1 .. Chunks : size = c * SlotNum
  BY DEF Words
<1>2. size \in Nat
  BY <1>1, SizeBounds
<1>3. i \in Allocated /\ i \notin Free /\ i # Nil
  BY <1>2 DEF InUse, Allocated, Nil
<1>4. Len(chain) \in Nat
  BY LenProperties DEF Words
<1>5. /\ chain' \in Seq(Allocated)
      /\ Len(chain') = Len(chain) + 1
      /\ chain'[1] = i
      /\ \A k \in 2 .. Len(chain) + 1 : chain'[k] = chain[k - 1]
  <2>1. <<i>> \in Seq(Allocated) /\ Len(<<i>>) = 1 /\ <<i>>[1] = i
    BY <1>3
  <2>2. chain' = <<i>> \o chain
    BY DEF Push
  <2> QED BY <1>4, <2>1, <2>2, ConcatProperties DEF Words
<1>6. \A k \in 1 .. Len(chain) : chain[k] # i /\ chain[k] \in Allocated
  BY <1>3, ElementOfSeq DEF Free, Words
<1>7. /\ freelist'[i] = flhead
      /\ \A j \in Allocated : j # i => freelist'[j] = freelist[j]
  BY <1>3 DEF Push, Words
<1>8. Words'
  BY <1>1, <1>3, <1>5 DEF Words, Push, Allocated
<1>9. Linked'
  <2>1. chain' # <<>> /\ flhead' # Nil /\ flhead' = chain'[1]
    BY <1>3, <1>4, <1>5, EmptySeq DEF Push
  <2>2. freelist'[chain'[Len(chain')]] = Nil
    <3>1. CASE Len(chain) = 0
      <4>1. chain = <<>>
        BY <3>1, EmptySeq DEF Words
      <4> QED BY <3>1, <4>1, <1>5, <1>7 DEF Linked
    <3>2. CASE Len(chain) # 0
      <4>1. chain # <<>>
        BY <3>2, EmptySeq
      <4>2. chain'[Len(chain')] = chain[Len(chain)] /\ Len(chain) \in 1 .. Len(chain)
        BY <1>4, <1>5, <3>2
      <4> QED BY <1>6, <1>7, <4>1, <4>2 DEF Linked
    <3> QED BY <3>1, <3>2
  <2>3. ASSUME NEW k \in 1 .. Len(chain') - 1
        PROVE  freelist'[chain'[k]] = chain'[k + 1]
    <3>1. CASE k = 1
      <4>1. chain # <<>> /\ chain'[2] = chain[1]
        BY <1>4, <1>5, <3>1, EmptySeq
      <4> QED BY <1>5, <1>7, <3>1, <4>1 DEF Linked
    <3>2. CASE k # 1
      <4>1. /\ chain'[k] = chain[k - 1] /\ chain'[k + 1] = chain[k]
            /\ k - 1 \in 1 .. Len(chain) - 1
            /\ k - 1 \in 1 .. Len(chain)
        BY <1>4, <1>5, <3>2
      <4>2. freelist[chain[k - 1]] = chain[k]
        BY <1>4, <4>1 DEF Linked
      <4> QED BY <1>6, <1>7, <4>1, <4>2
    <3> QED BY <3>1, <3>2
  <2>4. ASSUME NEW j \in 1 .. Len(chain'), NEW k \in 1 .. Len(chain'),
               chain'[j] = chain'[k]
        PROVE  j = k
    <3>1. /\ j # 1 => chain'[j] = chain[j - 1] /\ j - 1 \in 1 .. Len(chain)
          /\ k # 1 => chain'[k] = chain[k - 1] /\ k - 1 \in 1 .. Len(chain)
      BY <1>4, <1>5
    <3>2. j - 1 \in 1 .. Len(chain) /\ k - 1 \in 1 .. Len(chain)
          /\ chain[j - 1] = chain[k - 1] => j - 1 = k - 1
      BY DEF Linked
    <3> QED BY <1>4, <1>5, <1>6, <2>4, <3>1, <3>2
  <2> QED BY <2>1, <2>2, <2>3, <2>4 DEF Linked
<1>10. CountExact'
  <2>1. size' = size /\ flcount' = flcount - 1
    BY DEF Push
  <2> QED BY <1>2, <1>4, <1>5, <2>1 DEF CountExact
<1> QED BY <1>8, <1>9, <1>10

(* Emptying a list of distinct slots in use into the free list keeps it linked. *)
LEMMA BpRmvAllKeeps ==
  ASSUME Words, Linked, CountExact, NEW s \in Arrangements(InUse), BpRmvAll(s)
  PROVE  Words' /\ Linked' /\ CountExact'
<1> DEFINE n == Len(s)
           m == Len(chain)
<1>1. PICK c \in 1 .. Chunks : size = c * SlotNum
  BY DEF Words
<1>2. size \in Nat
  BY <1>1, SizeBounds, PoolAssumption
<1>3. /\ s \in Seq(InUse) /\ n \in Nat
      /\ \A k \in 1 .. n : s[k] \in InUse
      /\ \A j, k \in 1 .. n : s[j] = s[k] => j = k
  <2>1. PICK l \in 0 .. MaxSize : s \in [1 .. l -> InUse]
    BY DEF Arrangements
  <2>2. l \in Nat
    BY <2>1, PoolAssumption DEF MaxSize
  <2>3. s \in Seq(InUse) /\ n \in Nat /\ DOMAIN s = 1 .. n
    BY <2>1, <2>2
  <2>4. \A j, k \in DOMAIN s : s[j] = s[k] => j = k
    BY DEF Arrangements
  <2> QED BY <2>3, <2>4
<1>4. m \in Nat /\ \A k \in 1 .. m : chain[k] \in Allocated /\ chain[k] \in Free
  BY LenProperties, ElementOfSeq DEF Words, Free
<1>5. \A k \in 1 .. n : /\ s[k] \in Allocated /\ s[k] # Nil
                        /\ \A j \in 1 .. m : chain[j] # s[k]
  BY <1>2, <1>3, <1>4 DEF InUse, Allocated, Nil
<1>6. /\ chain' \in Seq(Allocated)
      /\ Len(chain') = n + m
      /\ \A k \in 1 .. n + m : chain'[k] = IF k <= n THEN s[n + 1 - k] ELSE chain[k - n]
  <2>1. chain' = [k \in 1 .. n + m |-> IF k <= n THEN s[n + 1 - k] ELSE chain[k - n]]
    BY DEF BpRmvAll
  <2>2. n + m \in Nat
    BY <1>3, <1>4
  <2>3. \A k \in 1 .. n + m : (IF k <= n THEN s[n + 1 - k] ELSE chain[k - n]) \in Allocated
    BY <1>3, <1>4, <1>5
  <2> HIDE DEF n, m
  <2> QED BY <2>1, <2>2, <2>3
<1>7. /\ freelist' \in [Allocated -> Allocated \cup {Nil}]
      /\ \A k \in 1 .. n : freelist'[s[k]] = IF k = 1 THEN flhead ELSE s[k - 1]
      /\ \A k \in 1 .. m : freelist'[chain[k]] = freelist[chain[k]]
  <2>1. ASSUME NEW i \in Allocated
        PROVE  /\ freelist'[i] \in Allocated \cup {Nil}
               /\ \A k \in 1 .. n : i = s[k] => freelist'[i] = IF k = 1 THEN flhead ELSE s[k - 1]
               /\ (\A k \in 1 .. n : i # s[k]) => freelist'[i] = freelist[i]
    <3>1. i \in DOMAIN freelist /\ freelist[i] \in Allocated \cup {Nil}
      BY DEF Words
    <3>2. CASE \E k \in 1 .. n : s[k] = i
      <4>1. PICK k \in 1 .. n : k = CHOOSE j \in 1 .. n : s[j] = i
        BY <3>2
      <4>2. s[k] = i /\ \A j \in 1 .. n : s[j] = i => j = k
        BY <1>3, <3>2, <4>1
      <4>3. freelist'[i] = IF k = 1 THEN flhead ELSE s[k - 1]
        BY <3>1, <3>2, <4>1 DEF BpRmvAll
      <4>4. k # 1 => s[k - 1] \in Allocated
        BY <1>3, <1>5
      <4> QED BY <3>2, <4>2, <4>3, <4>4 DEF Words
    <3>3. CASE ~ \E k \in 1 .. n : s[k] = i
      BY <3>1, <3>3 DEF BpRmvAll
    <3> QED BY <3>2, <3>3
  <2>2. freelist' \in [Allocated -> Allocated \cup {Nil}]
    <3>1. freelist' = [i \in Allocated |-> freelist'[i]]
      BY DEF BpRmvAll, Words
    <3> QED BY <2>1, <3>1
  <2> QED BY <1>4, <1>5, <2>1, <2>2
<1>8. Words'
  <2>1. size' = size /\ flhead' = IF n = 0 THEN flhead ELSE s[n]
    BY DEF BpRmvAll
  <2>2. flhead' \in Allocated \cup {Nil}
    BY <1>3, <1>5, <2>1 DEF Words
  <2> QED BY <1>1, <1>6, <1>7, <2>1, <2>2 DEF Words, Allocated
<1>9. Linked'
  <2>1. flhead' = IF n = 0 THEN flhead ELSE s[n]
    BY DEF BpRmvAll
  <2>2. chain' = <<>> <=> n + m = 0
    BY <1>6, EmptySeq
  <2>3. chain = <<>> <=> m = 0
    BY EmptySeq DEF Words
  <2>4. chain' = <<>> <=> flhead' = Nil
    BY <1>3, <1>4, <1>5, <2>1, <2>2, <2>3 DEF Linked
  <2>5. chain' # <<>> => flhead' = chain'[1]
    BY <1>3, <1>4, <1>6, <2>1, <2>2, <2>3 DEF Linked
  <2>6. chain' # <<>> => freelist'[chain'[Len(chain')]] = Nil
    BY <1>3, <1>4, <1>6, <1>7, <2>2, <2>3 DEF Linked
  <2>7. ASSUME NEW k \in 1 .. Len(chain') - 1
        PROVE  freelist'[chain'[k]] = chain'[k + 1]
    <3>1. k \in Nat /\ k >= 1 /\ k < n + m
      BY <1>3, <1>4, <1>6
    <3>2. CASE k < n
      <4>1. /\ chain'[k] = s[n + 1 - k] /\ chain'[k + 1] = s[n - k]
            /\ n + 1 - k \in 1 .. n /\ n + 1 - k # 1 /\ n + 1 - k - 1 = n - k
        BY <1>3, <1>4, <1>6, <3>1, <3>2
      <4>2. \A l \in 1 .. n : l # 1 => freelist'[s[l]] = s[l - 1]
        BY <1>7
      <4> QED BY <4>1, <4>2
    <3>3. CASE k = n
      <4>0. n \in Nat /\ n >= 1 /\ m \in Nat /\ m >= 1
        BY <1>3, <1>4, <3>1, <3>3
      <4>1. /\ chain'[k] = s[1] /\ chain'[k + 1] = chain[1]
            /\ 1 \in 1 .. n /\ m # 0
        <5> HIDE DEF n, m
        <5> QED BY <1>6, <3>1, <3>3, <4>0
      <4>2. flhead = chain[1]
        BY <2>3, <4>1 DEF Linked
      <4> QED BY <1>7, <4>1, <4>2
    <3>4. CASE k > n
      <4>1. /\ chain'[k] = chain[k - n] /\ chain'[k + 1] = chain[k - n + 1]
            /\ k - n \in 1 .. m - 1 /\ k - n \in 1 .. m
        BY <1>3, <1>4, <1>6, <3>1, <3>4
      <4>2. freelist[chain[k - n]] = chain[k - n + 1]
        BY <4>1 DEF Linked
      <4> QED BY <1>7, <4>1, <4>2
    <3> QED BY <1>3, <3>1, <3>2, <3>3, <3>4
  <2>8. ASSUME NEW j \in 1 .. Len(chain'), NEW k \in 1 .. Len(chain'),
               chain'[j] = chain'[k]
        PROVE  j = k
    <3>1. \A l \in 1 .. n + m :
            \/ l <= n /\ n + 1 - l \in 1 .. n /\ chain'[l] = s[n + 1 - l]
            \/ l > n /\ l - n \in 1 .. m /\ chain'[l] = chain[l - n]
      <4> HIDE DEF n, m
      <4> QED BY <1>3, <1>4, <1>6
    <3>2. /\ j \in 1 .. n + m /\ k \in 1 .. n + m
          /\ n \in Nat /\ m \in Nat
      BY <1>3, <1>4, <1>6
    <3>3. \A p, q \in 1 .. m : chain[p] = chain[q] => p = q
      BY DEF Linked
    <3> HIDE DEF n, m
    <3>4. CASE j <= n /\ k <= n
      <4>1. s[n + 1 - j] = s[n + 1 - k] /\ n + 1 - j \in 1 .. n /\ n + 1 - k \in 1 .. n
        BY <2>8, <3>1, <3>2, <3>4
      <4>2. n + 1 - j = n + 1 - k
        BY <1>3, <4>1
      <4> QED BY <3>2, <4>2
    <3>5. CASE j > n /\ k > n
      <4>1. chain[j - n] = chain[k - n] /\ j - n \in 1 .. m /\ k - n \in 1 .. m
        BY <2>8, <3>1, <3>2, <3>5
      <4>2. j - n = k - n
        BY <3>3, <4>1
      <4> QED BY <3>2, <4>2
    <3>6. CASE j <= n /\ k > n
      BY <1>5, <2>8, <3>1, <3>2, <3>6
    <3>7. CASE j > n /\ k <= n
      BY <1>5, <2>8, <3>1, <3>2, <3>7
    <3> QED BY <3>2, <3>4, <3>5, <3>6, <3>7
  <2> QED BY <2>4, <2>5, <2>6, <2>7, <2>8 DEF Linked
<1>10. CountExact'
  BY <1>2, <1>3, <1>4, <1>6 DEF CountExact, BpRmvAll
<1> QED BY <1>8, <1>9, <1>10

-----------------------------------------------------------------------------
(* Every operation keeps the invariant. *)
LEMMA NextIInv == IInv /\ [Next]_vars => IInv'
<1> SUFFICES ASSUME IInv, [Next]_vars PROVE IInv'
  OBVIOUS
<1>1. Words /\ Linked /\ CountExact /\ GetterOK /\ NoSleepWhileFree
  BY DEF IInv
<1>2. ASSUME NEW i \in 0 .. MaxSize - 1, BpGet(i) PROVE IInv'
  <2>1. Words' /\ Linked' /\ CountExact'
    BY <1>1, <1>2, PopKeeps, EnlargeAndPopKeeps DEF BpGet
  <2>2. GetterOK' /\ NoSleepWhileFree'
    BY <1>2 DEF BpGet, GetterOK, NoSleepWhileFree
  <2> QED BY <2>1, <2>2 DEF IInv
<1>3. CASE BpGetWait
  <2>1. Words' /\ Linked' /\ CountExact'
    BY <1>1, <1>3 DEF BpGetWait, Words, Linked, CountExact, Allocated
  <2>2. GetterOK' /\ NoSleepWhileFree'
    BY <1>3 DEF BpGetWait, GetterOK, NoSleepWhileFree
  <2> QED BY <2>1, <2>2 DEF IInv
<1>4. CASE SpuriousWakeup
  <2>1. Words' /\ Linked' /\ CountExact'
    BY <1>1, <1>4 DEF SpuriousWakeup, Words, Linked, CountExact, Allocated
  <2>2. GetterOK' /\ NoSleepWhileFree'
    BY <1>4 DEF SpuriousWakeup, GetterOK, NoSleepWhileFree
  <2> QED BY <2>1, <2>2 DEF IInv
<1>5. ASSUME NEW i \in InUse, BpFree(i) PROVE IInv'
  <2>1. Words' /\ Linked' /\ CountExact'
    BY <1>1, <1>5, PushKeeps DEF BpFree
  <2>2. GetterOK' /\ NoSleepWhileFree'
    BY <1>5 DEF BpFree, GetterOK, NoSleepWhileFree
  <2> QED BY <2>1, <2>2 DEF IInv
<1>6. ASSUME NEW i \in InUse, BpRmv(i) PROVE IInv'
  <2>1. Words' /\ Linked' /\ CountExact'
    BY <1>1, <1>6, PushKeeps DEF BpRmv
  <2>2. GetterOK' /\ NoSleepWhileFree'
    BY <1>1, <1>6 DEF BpRmv, Signal, GetterOK, NoSleepWhileFree
  <2> QED BY <2>1, <2>2 DEF IInv
<1>7. ASSUME NEW s \in Arrangements(InUse), BpRmvAll(s) PROVE IInv'
  <2>1. Words' /\ Linked' /\ CountExact'
    BY <1>1, <1>7, BpRmvAllKeeps
  <2>2. GetterOK' /\ NoSleepWhileFree'
    BY <1>1, <1>7 DEF BpRmvAll, Signal, GetterOK, NoSleepWhileFree
  <2> QED BY <2>1, <2>2 DEF IInv
<1>8. CASE UNCHANGED vars
  BY <1>1, <1>8 DEF vars, IInv, Words, Linked, CountExact, GetterOK,
                    NoSleepWhileFree, Allocated
<1> QED BY <1>2, <1>3, <1>4, <1>5, <1>6, <1>7, <1>8 DEF Next

(* The invariant holds throughout. *)
LEMMA SpecIInv == Spec => []IInv
<1> QED BY InitIInv, NextIInv, PTL DEF Spec

(* The indices the pool stores never leave the allocated slots, and flcount
   never goes below zero. *)
THEOREM TypeCorrect == Spec => []TypeOK
<1>1. IInv => TypeOK
  BY IInvImplies
<1> QED BY <1>1, SpecIInv, PTL

(* The free list is never cut, knotted or left dangling. *)
THEOREM AlwaysLinked == Spec => []Linked
<1>1. IInv => Linked
  BY DEF IInv
<1> QED BY <1>1, SpecIInv, PTL

(* flcount is exactly the number of slots that are not on the free list. *)
THEOREM AlwaysCountExact == Spec => []CountExact
<1>1. IInv => CountExact
  BY DEF IInv
<1> QED BY <1>1, SpecIInv, PTL

(* The RTP thread is never asleep in bpget while a slot is free. *)
THEOREM NeverSleepsWhileFree == Spec => []NoSleepWhileFree
<1>1. IInv => NoSleepWhileFree
  BY DEF IInv
<1> QED BY <1>1, SpecIInv, PTL

-----------------------------------------------------------------------------
(* A slot bpget returns was on the free list or in no chunk yet. *)
LEMMA GetGivesFree ==
  ASSUME IInv, NEW i, BpGet(i)
  PROVE  i \notin InUse
<1>1. CASE Pop(i)
  <2>1. chain # <<>> /\ i = chain[1]
    BY <1>1 DEF IInv, Linked, Pop
  <2>2. Len(chain) \in Nat \ {0}
    BY <2>1, EmptySeq DEF IInv, Words
  <2>3. 1 \in 1 .. Len(chain)
    BY <2>2
  <2> QED BY <2>1, <2>3 DEF InUse, Free
<1>2. CASE EnlargeAndPop(i)
  <2>1. size \in Nat
    BY SizeBounds, PoolAssumption DEF IInv, Words
  <2> QED BY <1>2, <2>1 DEF EnlargeAndPop, InUse, Allocated
<1> QED BY <1>1, <1>2 DEF BpGet

(* No slot is handed out while a client still holds it. *)
THEOREM NeverHandedOutTwice == Spec => HandedOutOnce
<1>1. IInv /\ [Next]_vars => [\A i \in 0 .. MaxSize - 1 : BpGet(i) => i \notin InUse]_vars
  BY GetGivesFree
<1> QED BY <1>1, SpecIInv, PTL DEF Spec, HandedOutOnce

-----------------------------------------------------------------------------
(* How each operation changes the set of free slots. *)
LEMMA PopFree ==
  ASSUME IInv, NEW i, Pop(i)
  PROVE  i \in Free /\ Free' = Free \ {i} /\ size' = size
<1>1. chain # <<>> /\ i = chain[1] /\ chain' = Tail(chain) /\ size' = size
  BY DEF IInv, Linked, Pop
<1>2. /\ Len(chain) \in Nat /\ Len(chain) >= 1
      /\ Len(chain') = Len(chain) - 1
      /\ \A k \in 1 .. Len(chain) - 1 : chain'[k] = chain[k + 1]
  BY <1>1, EmptySeq, HeadTailProperties DEF IInv, Words
<1>3. 1 \in 1 .. Len(chain) /\ i \in Free
  BY <1>1, <1>2 DEF Free
<1>4. \A j, k \in 1 .. Len(chain) : chain[j] = chain[k] => j = k
  BY DEF IInv, Linked
<1>5. ASSUME NEW x \in Free' PROVE x \in Free \ {i}
  <2>1. PICK k \in 1 .. Len(chain) - 1 : x = chain'[k]
    BY <1>2 DEF Free
  <2>2. k + 1 \in 1 .. Len(chain) /\ k + 1 # 1 /\ x = chain[k + 1]
    BY <1>2, <2>1
  <2> QED BY <1>1, <1>3, <1>4, <2>2 DEF Free
<1>6. ASSUME NEW x \in Free, x # i PROVE x \in Free'
  <2>1. PICK k \in 1 .. Len(chain) : x = chain[k]
    BY DEF Free
  <2>2. k - 1 \in 1 .. Len(chain) - 1 /\ k - 1 + 1 = k
    BY <1>1, <1>2, <1>6, <2>1
  <2>3. x = chain'[k - 1] /\ k - 1 \in 1 .. Len(chain')
    BY <1>2, <2>1, <2>2
  <2> QED BY <2>3 DEF Free
<1> QED BY <1>1, <1>3, <1>5, <1>6

(* bpfree and bprmv add their slot to the free ones. *)
LEMMA PushFree ==
  ASSUME IInv, NEW i \in InUse, Push(i)
  PROVE  Free' = Free \cup {i} /\ size' = size
<1>1. chain' = <<i>> \o chain /\ size' = size
  BY DEF Push
<1>2. /\ Len(chain) \in Nat
      /\ Len(chain') = Len(chain) + 1
      /\ chain'[1] = i
      /\ \A k \in 1 .. Len(chain) : chain'[k + 1] = chain[k]
  <2>1. i \in Allocated
    BY DEF InUse
  <2>2. <<i>> \in Seq(Allocated) /\ Len(<<i>>) = 1 /\ <<i>>[1] = i
    BY <2>1
  <2>3. Len(chain) \in Nat
    BY LenProperties DEF IInv, Words
  <2> QED BY <1>1, <2>2, <2>3, ConcatProperties DEF IInv, Words
<1>3. ASSUME NEW x \in Free' PROVE x \in Free \cup {i}
  <2>1. PICK k \in 1 .. Len(chain) + 1 : x = chain'[k]
    BY <1>2 DEF Free
  <2>2. k # 1 => k - 1 \in 1 .. Len(chain) /\ k - 1 + 1 = k
    BY <1>2
  <2>3. k # 1 => x = chain[k - 1]
    BY <1>2, <2>1, <2>2
  <2> QED BY <1>2, <2>1, <2>2, <2>3 DEF Free
<1>4. ASSUME NEW x \in Free \cup {i} PROVE x \in Free'
  <2>1. CASE x = i
    <3>1. 1 \in 1 .. Len(chain')
      BY <1>2
    <3> QED BY <1>2, <2>1, <3>1 DEF Free
  <2>2. CASE x \in Free
    <3>1. PICK k \in 1 .. Len(chain) : x = chain[k]
      BY <2>2 DEF Free
    <3>2. k + 1 \in 1 .. Len(chain') /\ x = chain'[k + 1]
      BY <1>2, <3>1
    <3> QED BY <3>2 DEF Free
  <2> QED BY <2>1, <2>2
<1> QED BY <1>1, <1>3, <1>4

(* rtp_rm_all_pkts adds all the slots of the list it empties. *)
LEMMA BpRmvAllFree ==
  ASSUME IInv, NEW s \in Arrangements(InUse), BpRmvAll(s)
  PROVE  \E S \in SUBSET InUse : Free' = Free \cup S /\ size' = size
<1> DEFINE n == Len(s)
           m == Len(chain)
           S == {s[k] : k \in 1 .. n}
<1>1. n \in Nat /\ \A k \in 1 .. n : s[k] \in InUse
  <2>1. PICK l \in 0 .. MaxSize : s \in [1 .. l -> InUse]
    BY DEF Arrangements
  <2>2. l \in Nat
    BY <2>1, PoolAssumption DEF MaxSize
  <2> QED BY <2>1, <2>2
<1>2. m \in Nat
  BY LenProperties DEF IInv, Words
<1>3. /\ chain' = [k \in 1 .. n + m |-> IF k <= n THEN s[n + 1 - k] ELSE chain[k - n]]
      /\ size' = size
  BY DEF BpRmvAll
<1>4. Len(chain') = n + m
  <2> HIDE DEF n, m
  <2> QED BY <1>1, <1>2, <1>3
<1>5. ASSUME NEW x \in Free' PROVE x \in Free \cup S
  <2>1. PICK k \in 1 .. n + m : x = chain'[k]
    BY <1>4 DEF Free
  <2>2. CASE k <= n
    <3>1. n + 1 - k \in 1 .. n /\ x = s[n + 1 - k]
      BY <1>1, <1>2, <1>3, <2>1, <2>2
    <3> QED BY <3>1
  <2>3. CASE k > n
    <3>1. k - n \in 1 .. m /\ x = chain[k - n]
      BY <1>1, <1>2, <1>3, <2>1, <2>3
    <3> QED BY <3>1 DEF Free
  <2> QED BY <1>1, <1>2, <2>1, <2>2, <2>3
<1>6. ASSUME NEW x \in Free PROVE x \in Free'
  <2>1. PICK k \in 1 .. m : x = chain[k]
    BY DEF Free
  <2>2. k + n \in 1 .. n + m /\ ~(k + n <= n) /\ k + n - n = k
    BY <1>1, <1>2
  <2>3. x = chain'[k + n]
    BY <1>3, <2>1, <2>2
  <2> QED BY <1>4, <2>2, <2>3 DEF Free
<1>7. ASSUME NEW x \in S PROVE x \in Free'
  <2>1. PICK k \in 1 .. n : x = s[k]
    OBVIOUS
  <2>2. n + 1 - k \in 1 .. n + m /\ n + 1 - k <= n /\ n + 1 - (n + 1 - k) = k
    BY <1>1, <1>2
  <2>3. x = chain'[n + 1 - k]
    BY <1>3, <2>1, <2>2
  <2> QED BY <1>4, <2>2, <2>3 DEF Free
<1>8. S \in SUBSET InUse
  BY <1>1
<1>9. Free' = Free \cup S
  BY <1>5, <1>6, <1>7
<1> QED BY <1>3, <1>8, <1>9

(* The initial free list holds the first chunk. *)
LEMMA InitAbstract == Init => Abstract!Init
<1> SUFFICES ASSUME Init PROVE Abstract!Init
  OBVIOUS
<1>1. chain = [k \in 1 .. SlotNum |-> k - 1] /\ Len(chain) = SlotNum /\ SlotNum \in Nat
  BY PoolAssumption DEF Init
<1>2. ASSUME NEW x \in 0 .. SlotNum - 1 PROVE x \in Free
  <2>1. x + 1 \in 1 .. SlotNum /\ chain[x + 1] = x
    BY <1>1
  <2> QED BY <1>1, <2>1 DEF Free
<1>3. ASSUME NEW x \in Free PROVE x \in 0 .. SlotNum - 1
  BY <1>1 DEF Free
<1> QED BY <1>2, <1>3 DEF Init, Abstract!Init

(* Every operation is an operation of the abstract pool, or changes none of it. *)
LEMMA NextAbstract == IInv /\ [Next]_vars => [Abstract!Next]_Abstract!vars
<1> SUFFICES ASSUME IInv, [Next]_vars PROVE [Abstract!Next]_Abstract!vars
  OBVIOUS
<1>0. InUse = (0 .. size - 1) \ Free
  BY DEF InUse, Allocated
<1>1. ASSUME NEW i \in InUse, Push(i) PROVE Abstract!Next
  <2>1. {i} \in SUBSET InUse
    OBVIOUS
  <2> QED BY <1>0, <1>1, <2>1, PushFree DEF Abstract!Next, Abstract!Held, Abstract!Put
<1>2. ASSUME NEW i \in 0 .. MaxSize - 1, BpGet(i) PROVE Abstract!Next
  <2>1. CASE Pop(i)
    BY <2>1, PopFree DEF Abstract!Next, Abstract!Get
  <2>2. CASE EnlargeAndPop(i)
    <3>1. size \in Nat /\ SlotNum \in Nat \ {0}
      BY SizeBounds, PoolAssumption DEF IInv, Words
    <3>2. /\ size' = size + SlotNum /\ i = size /\ size < SlotNum * Chunks
          /\ chain' = [k \in 1 .. SlotNum - 1 |-> size + k]
      BY <2>2 DEF EnlargeAndPop, MaxSize
    <3>3. Free = {}
      <4>1. Len(chain) = 0
        BY <2>2, EmptySeq DEF IInv, Linked, EnlargeAndPop
      <4> QED BY <4>1 DEF Free
    <3>4. Len(chain') = SlotNum - 1
      BY <3>1, <3>2
    <3>5. ASSUME NEW x \in Free' PROVE x \in (size .. size' - 1) \ {i}
      BY <3>1, <3>2, <3>4 DEF Free
    <3>6. ASSUME NEW x \in (size .. size' - 1) \ {i} PROVE x \in Free'
      <4>1. x - size \in 1 .. SlotNum - 1 /\ size + (x - size) = x
        BY <3>1, <3>2
      <4>2. x = chain'[x - size] /\ x - size \in 1 .. Len(chain')
        BY <3>2, <3>4, <4>1
      <4> QED BY <4>2 DEF Free
    <3>7. Free' = (size .. size' - 1) \ {i} /\ i \in size .. size' - 1
      BY <3>1, <3>2, <3>5, <3>6
    <3> QED BY <1>2, <3>2, <3>3, <3>7 DEF Abstract!Next, Abstract!GrowAndGet, MaxSize
  <2> QED BY <1>2, <2>1, <2>2 DEF BpGet
<1>3. CASE BpGetWait
  BY <1>3 DEF BpGetWait, Abstract!vars, Free
<1>4. CASE SpuriousWakeup
  BY <1>4 DEF SpuriousWakeup, Abstract!vars, Free
<1>5. ASSUME NEW i \in InUse, BpFree(i) PROVE Abstract!Next
  BY <1>1, <1>5 DEF BpFree
<1>6. ASSUME NEW i \in InUse, BpRmv(i) PROVE Abstract!Next
  BY <1>1, <1>6 DEF BpRmv
<1>7. ASSUME NEW s \in Arrangements(InUse), BpRmvAll(s)
      PROVE  [Abstract!Next]_Abstract!vars
  <2>1. PICK S \in SUBSET InUse : Free' = Free \cup S /\ size' = size
    BY <1>7, BpRmvAllFree
  <2> QED BY <1>0, <2>1 DEF Abstract!Next, Abstract!Held, Abstract!Put
<1>8. CASE UNCHANGED vars
  BY <1>8 DEF vars, Abstract!vars, Free
<1> QED BY <1>2, <1>3, <1>4, <1>5, <1>6, <1>7, <1>8 DEF Next

(* The free list implements the pool its clients see: a slot leaves the set of
   free slots only to bpget, the set grows only when it is exhausted, and only
   slots that were held come back. *)
THEOREM Refinement == Spec => ImplementsSlotPool
<1> QED BY InitAbstract, NextAbstract, SpecIInv, PTL
        DEF Spec, ImplementsSlotPool, Abstract!Spec
=============================================================================
