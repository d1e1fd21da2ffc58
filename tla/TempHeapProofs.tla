--------------------------- MODULE TempHeapProofs ---------------------------
(***************************************************************************)
(* Proofs about TempHeap, for every page size, every region and every set  *)
(* of request sizes, and about the comparison of strings (KString), for    *)
(* strings of any length.                                                  *)
(***************************************************************************)
EXTENDS TempHeap, KString, FiniteSetTheorems, WellFoundedInduction, TLAPS

(***************************************************************************)
(* The page rounding of talloc, temp_free and palloc never shrinks a size, *)
(* and gives a positive size at least one page.                            *)
(***************************************************************************)
LEMMA RoundUpFacts ==
    ASSUME NEW n \in Nat
    PROVE  /\ RoundUp(n) \in Nat /\ RoundUp(n) >= n
           /\ n > 0 => RoundUp(n) >= PAGE
           /\ n > 0 /\ n <= PAGE => RoundUp(n) = PAGE
  <1> DEFINE a == n + PAGE - 1
             q == a \div PAGE
  <1>1. a \in Nat /\ PAGE \in Nat /\ PAGE > 0
    BY PageAssumption
  <1>2. q \in Nat /\ a % PAGE \in 0 .. PAGE - 1 /\ a = q * PAGE + (a % PAGE)
    <2> HIDE DEF a
    <2>1. QED
      BY <1>1, SMTT(30)
  <1>3. q * PAGE \in Nat /\ q * PAGE > a - PAGE /\ q * PAGE <= a
    BY <1>1, <1>2
  <1>4. n > 0 => q >= 1
    BY <1>1, <1>2
  <1>5. n > 0 /\ n <= PAGE => q = 1
    BY <1>1, <1>2, <1>3
  <1>6. q >= 1 => q * PAGE >= PAGE
    BY <1>1, <1>2
  <1>7. RoundUp(n) = q * PAGE
    BY DEF RoundUp
  <1>8. QED
    BY <1>1, <1>3, <1>4, <1>5, <1>6, <1>7

(***************************************************************************)
(* Unlinking position i of the free list drops exactly that block.         *)
(***************************************************************************)
LEMMA UnlinkFacts ==
    ASSUME NEW list \in Seq(FreeBlock), NEW i \in 1 .. Len(list)
    PROVE  /\ Unlink(list, i) \in Seq(FreeBlock)
           /\ Len(Unlink(list, i)) = Len(list) - 1
           /\ \A j \in 1 .. Len(list) - 1 :
                Unlink(list, i)[j] = list[IF j < i THEN j ELSE j + 1]
  <1>1. Len(list) \in Nat /\ Len(list) - 1 \in Nat
    OBVIOUS
  <1>2. \A j \in 1 .. Len(list) - 1 :
           (IF j < i THEN list[j] ELSE list[j + 1]) \in FreeBlock
    BY <1>1
  <1>3. QED
    BY <1>1, <1>2 DEF Unlink

(***************************************************************************)
(* Pushing a block puts it at the head and shifts the others.              *)
(***************************************************************************)
LEMMA PushFacts ==
    ASSUME NEW list \in Seq(FreeBlock), NEW b \in FreeBlock
    PROVE  /\ <<b>> \o list \in Seq(FreeBlock)
           /\ Len(<<b>> \o list) = Len(list) + 1
           /\ \A j \in 1 .. Len(list) + 1 :
                (<<b>> \o list)[j] = IF j = 1 THEN b ELSE list[j - 1]
  OBVIOUS

------------------------------------------------------------------------------
(* No byte is owned twice.                                                 *)

\* NoByteOwnedTwice with what makes it inductive: no block is empty, and the
\* permanent blocks lie below their bump pointer.
HeapInv ==
    /\ TypeOK
    /\ NoByteOwnedTwice
    /\ IsFiniteSet(held)
    /\ \A a \in held : a.size > 0
    /\ \A i \in 1 .. Len(temp_free_list) : temp_free_list[i].size > 0
    /\ next_free_perm_memory >= temp_start
    /\ \A a \in perm : a.size > 0 /\ a.addr + a.size <= next_free_perm_memory

(***************************************************************************)
(* The heap starts empty.                                                  *)
(***************************************************************************)
LEMMA InitHeap == Init => HeapInv
  <1> SUFFICES ASSUME Init PROVE HeapInv
    OBVIOUS
  <1>1. /\ held = {} /\ perm = {} /\ peak = 0 /\ wide = 0 /\ panicked = FALSE
        /\ temp_free_list = <<>>
        /\ next_free_temp_memory = heap_bottom
        /\ next_free_perm_memory = temp_start
    BY DEF Init
  <1>a. temp_free_list \in Seq(FreeBlock) /\ Len(temp_free_list) = 0
    BY <1>1
  <1>b. held \subseteq HeldBlock /\ perm \subseteq FreeBlock /\ IsFiniteSet(held)
    BY <1>1, FS_EmptySet
  <1>c. panicked \in BOOLEAN
    BY <1>1, Zenon
  <1>d. /\ next_free_temp_memory \in heap_bottom .. temp_start
        /\ next_free_perm_memory \in Nat /\ peak \in Nat /\ wide \in Nat
    BY <1>1, RegionAssumption
  <1>2. TypeOK
    BY <1>a, <1>b, <1>c, <1>d DEF TypeOK
  <1>3. NoByteOwnedTwice
    BY <1>1, <1>a DEF NoByteOwnedTwice
  <1>4. QED
    BY <1>1, <1>a, <1>b, <1>2, <1>3, RegionAssumption DEF HeapInv

(***************************************************************************)
(* A non-empty set of naturals has a smallest element.                     *)
(***************************************************************************)
LEMMA SmallestExists ==
    ASSUME NEW T, T \subseteq Nat, T # {}
    PROVE  \E i \in T : \A j \in T : i <= j
  <1> DEFINE R == OpToRel(<, Nat)
  <1>1. IsWellFoundedOn(R, Nat)
    BY NatLessThanWellFounded, Zenon
  <1>2. \A x, y \in Nat : x < y => <<x, y>> \in R
    BY DEF OpToRel
  <1> HIDE DEF R
  <1>3. PICK i \in T : \A j \in T : ~ (<<j, i>> \in R)
    BY <1>1, WFMin, Zenon
  <1>4. \A j \in T : ~ (j < i)
    BY <1>2, <1>3, Zenon
  <1>5. QED
    BY <1>4

(***************************************************************************)
(* First fit chooses a position of the free list with a large enough block.*)
(***************************************************************************)
LEMMA FirstFit ==
    ASSUME TypeOK, NEW size \in Nat, Fits(size) # {}
    PROVE  Min(Fits(size)) \in 1 .. Len(temp_free_list)
             /\ temp_free_list[Min(Fits(size))].size >= size
  <1>1. Fits(size) \subseteq 1 .. Len(temp_free_list) /\ Len(temp_free_list) \in Nat
    BY DEF Fits, TypeOK
  <1>2. Fits(size) \subseteq Nat
    BY <1>1
  <1>3. Min(Fits(size)) \in Fits(size)
    BY <1>2, SmallestExists DEF Min
  <1>4. QED
    BY <1>3 DEF Fits

(***************************************************************************)
(* The one-page blocks among finitely many are finitely many.              *)
(***************************************************************************)
LEMMA PagesFinite ==
    ASSUME NEW h, IsFiniteSet(h)
    PROVE  IsFiniteSet(Pages(h)) /\ Cardinality(Pages(h)) \in Nat
  <1>1. Pages(h) \subseteq h
    BY DEF Pages
  <1>2. IsFiniteSet(Pages(h))
    BY <1>1, FS_Subset
  <1>3. QED
    BY <1>2, FS_CardinalityType

(***************************************************************************)
(* Owning one more block keeps the history well formed.                    *)
(***************************************************************************)
LEMMA OwnFacts ==
    ASSUME HeapInv, NEW b \in HeldBlock, Own(b)
    PROVE  /\ held' = held \cup {b} /\ IsFiniteSet(held')
           /\ held' \subseteq HeldBlock /\ peak' \in Nat /\ wide' \in Nat
  <1>1. /\ held' = held \cup {b} /\ IsFiniteSet(held) /\ held \subseteq HeldBlock
        /\ peak \in Nat /\ wide \in Nat
    BY DEF Own, HeapInv, TypeOK
  <1>2. IsFiniteSet(held')
    BY <1>1, FS_AddElement
  <1>3. Cardinality(Pages(held')) \in Nat
    BY <1>2, PagesFinite
  <1>4. b.size \in Nat
    BY DEF HeldBlock
  <1>5. peak' \in Nat
    BY <1>1, <1>3, Zenon DEF Own
  <1>6. wide' \in Nat
    BY <1>1, <1>4 DEF Own
  <1>7. QED
    BY <1>1, <1>2, <1>5, <1>6

(***************************************************************************)
(* Reuse: the part of a free block a caller gets lies inside that block,   *)
(* and the block leaves the list.                                          *)
(***************************************************************************)
LEMMA ReuseHeap ==
    ASSUME HeapInv, NEW size \in Nat \ {0}, NEW freed \in BOOLEAN, Reuse(size, freed)
    PROVE  HeapInv'
  <1> DEFINE i == Min(Fits(size))
             f == temp_free_list[i]
             b == [addr |-> f.addr, size |-> size, freed |-> freed]
             n == Len(temp_free_list)
  <1>1. i \in 1 .. n /\ f.size >= size
    BY FirstFit DEF Reuse, HeapInv
  <1>2. f \in FreeBlock /\ n \in Nat /\ temp_free_list \in Seq(FreeBlock)
    BY <1>1 DEF HeapInv, TypeOK
  <1>3. b \in HeldBlock /\ b.addr = f.addr /\ b.size = size
    BY <1>2 DEF FreeBlock, HeldBlock
  <1>4. temp_free_list' = Unlink(temp_free_list, i) /\ Own(b)
    BY DEF Reuse
  <1>5. UNCHANGED <<next_free_temp_memory, next_free_perm_memory, panicked, perm>>
    BY DEF Reuse
  <1> HIDE DEF i, f, b, n
  <1>6. /\ held' = held \cup {b} /\ IsFiniteSet(held')
        /\ held' \subseteq HeldBlock /\ peak' \in Nat /\ wide' \in Nat
    BY <1>3, <1>4, OwnFacts
  <1>7. /\ temp_free_list' \in Seq(FreeBlock) /\ Len(temp_free_list') = n - 1
        /\ \A j \in 1 .. n - 1 :
             temp_free_list'[j] = temp_free_list[IF j < i THEN j ELSE j + 1]
    BY <1>1, <1>2, <1>4, UnlinkFacts, Zenon DEF n
  <1>8. \A j \in 1 .. n - 1 : \E k \in 1 .. n : k # i /\ temp_free_list'[j] = temp_free_list[k]
    <2> SUFFICES ASSUME NEW j \in 1 .. n - 1
                 PROVE  \E k \in 1 .. n : k # i /\ temp_free_list'[j] = temp_free_list[k]
      BY Zenon
    <2>1. PICK k : k = IF j < i THEN j ELSE j + 1
      BY Zenon
    <2>2. k \in 1 .. n /\ k # i
      BY <1>1, <1>2, <2>1
    <2>3. temp_free_list'[j] = temp_free_list[k]
      BY <1>7, <2>1, Zenon
    <2> QED
      BY <2>2, <2>3, Zenon
  <1>9. \A j1, j2 \in 1 .. n - 1 : j1 # j2 =>
          \E k1, k2 \in 1 .. n : /\ k1 # k2
                                 /\ temp_free_list'[j1] = temp_free_list[k1]
                                 /\ temp_free_list'[j2] = temp_free_list[k2]
    <2> SUFFICES ASSUME NEW j1 \in 1 .. n - 1, NEW j2 \in 1 .. n - 1, j1 # j2
                 PROVE  \E k1, k2 \in 1 .. n : /\ k1 # k2
                                               /\ temp_free_list'[j1] = temp_free_list[k1]
                                               /\ temp_free_list'[j2] = temp_free_list[k2]
      OBVIOUS
    <2> DEFINE Old(j) == IF j < i THEN j ELSE j + 1
    <2>1. Old(j1) \in 1 .. n /\ Old(j2) \in 1 .. n /\ Old(j1) # Old(j2)
      BY <1>1, <1>2
    <2>2. temp_free_list'[j1] = temp_free_list[Old(j1)] /\ temp_free_list'[j2] = temp_free_list[Old(j2)]
      BY <1>7
    <2> HIDE DEF Old
    <2>3. QED
      BY <2>1, <2>2
  <1>10. \A j, k \in 1 .. n : j # k => ~Overlap(temp_free_list[j], temp_free_list[k])
    BY DEF HeapInv, NoByteOwnedTwice, n
  <1>11. \A a \in held : \A j \in 1 .. n : ~Overlap(a, temp_free_list[j])
    BY DEF HeapInv, NoByteOwnedTwice, n
  <1>12. \A j \in 1 .. n : temp_free_list[j] \in FreeBlock
    BY <1>2 DEF n
  <1>13. \A a \in held : ~Overlap(a, b) /\ ~Overlap(b, a)
    <2> SUFFICES ASSUME NEW a \in held PROVE ~Overlap(a, b) /\ ~Overlap(b, a)
      OBVIOUS
    <2>1. ~Overlap(a, f)
      BY <1>1, <1>11 DEF f
    <2>2. a.addr \in Nat /\ a.size \in Nat /\ f.addr \in Nat /\ f.size \in Nat
      BY <1>2 DEF HeapInv, TypeOK, HeldBlock, FreeBlock
    <2>3. QED
      BY <1>1, <1>3, <2>1, <2>2 DEF Overlap
  <1>14. \A j \in 1 .. n - 1 : ~Overlap(b, temp_free_list'[j])
    <2> SUFFICES ASSUME NEW j \in 1 .. n - 1 PROVE ~Overlap(b, temp_free_list'[j])
      OBVIOUS
    <2>1. PICK k \in 1 .. n : k # i /\ temp_free_list'[j] = temp_free_list[k]
      BY <1>8
    <2>2. ~Overlap(f, temp_free_list[k])
      BY <1>1, <1>10, <2>1 DEF f
    <2>3. /\ temp_free_list[k].addr \in Nat /\ temp_free_list[k].size \in Nat
          /\ f.addr \in Nat /\ f.size \in Nat
      BY <1>2, <1>12, Zenon DEF FreeBlock
    <2>4. QED
      BY <1>1, <1>3, <2>1, <2>2, <2>3 DEF Overlap
  <1>15. Within(b, heap_bottom, next_free_temp_memory)
    <2>1. Within(f, heap_bottom, next_free_temp_memory)
      BY <1>1 DEF HeapInv, NoByteOwnedTwice, f, n
    <2>2. /\ f.addr \in Nat /\ f.size \in Nat
          /\ heap_bottom \in Nat /\ next_free_temp_memory \in Nat
      BY <1>2, RegionAssumption DEF HeapInv, TypeOK, FreeBlock
    <2>3. QED
      BY <1>1, <1>3, <2>1, <2>2 DEF Within
  <1>16. TypeOK'
    BY <1>5, <1>6, <1>7 DEF HeapInv, TypeOK
  <1>17. NoByteOwnedTwice'
    <2>1. \A a, c \in held' : a # c => ~Overlap(a, c)
      BY <1>6, <1>13 DEF HeapInv, NoByteOwnedTwice
    <2>2. \A j, k \in 1 .. n - 1 :
             j # k => ~Overlap(temp_free_list'[j], temp_free_list'[k])
      BY <1>9, <1>10
    <2>3. \A a \in held' : \A j \in 1 .. n - 1 : ~Overlap(a, temp_free_list'[j])
      BY <1>6, <1>8, <1>11, <1>14
    <2>4. \A a \in held' : Within(a, heap_bottom, next_free_temp_memory)
      BY <1>6, <1>15 DEF HeapInv, NoByteOwnedTwice
    <2>5. \A j \in 1 .. n - 1 :
             Within(temp_free_list'[j], heap_bottom, next_free_temp_memory)
      BY <1>8 DEF HeapInv, NoByteOwnedTwice, n
    <2>6. QED
      BY <1>5, <1>7, <2>1, <2>2, <2>3, <2>4, <2>5, Zenon DEF HeapInv, NoByteOwnedTwice
  <1>18. \A a \in held' : a.size > 0
    BY <1>3, <1>6 DEF HeapInv
  <1>19. \A j \in 1 .. n - 1 : temp_free_list'[j].size > 0
    BY <1>8 DEF HeapInv, n
  <1>20. QED
    BY <1>5, <1>6, <1>7, <1>16, <1>17, <1>18, <1>19 DEF HeapInv

(***************************************************************************)
(* Bump: the new block starts where all the others end.                    *)
(***************************************************************************)
LEMMA BumpHeap ==
    ASSUME HeapInv, NEW size \in Nat \ {0}, NEW freed \in BOOLEAN, Bump(size, freed)
    PROVE  HeapInv'
  <1> DEFINE b == [addr |-> next_free_temp_memory, size |-> size, freed |-> freed]
             n == Len(temp_free_list)
             top == next_free_temp_memory
  <1>1. /\ top \in Nat /\ top >= heap_bottom /\ heap_bottom \in Nat /\ temp_start \in Nat
        /\ temp_free_list \in Seq(FreeBlock)
    BY RegionAssumption DEF HeapInv, TypeOK
  <1>2. b \in HeldBlock /\ b.addr = top /\ b.size = size
    BY <1>1 DEF HeldBlock
  <1>3. /\ top + size <= temp_start /\ next_free_temp_memory' = top + size /\ Own(b)
        /\ UNCHANGED <<temp_free_list, next_free_perm_memory, panicked, perm>>
    BY DEF Bump
  <1> HIDE DEF b
  <1>4. /\ held' = held \cup {b} /\ IsFiniteSet(held')
        /\ held' \subseteq HeldBlock /\ peak' \in Nat /\ wide' \in Nat
    BY <1>2, <1>3, OwnFacts
  <1>5. \A a \in held : a.addr \in Nat /\ a.size \in Nat
    BY DEF HeapInv, TypeOK, HeldBlock
  <1>6. \A j \in 1 .. n : temp_free_list[j].addr \in Nat /\ temp_free_list[j].size \in Nat
    <2>1. \A j \in 1 .. n : temp_free_list[j] \in FreeBlock
      BY <1>1
    <2>2. QED
      BY <2>1 DEF FreeBlock
  <1>7. \A a \in held : Within(a, heap_bottom, top)
    BY DEF HeapInv, NoByteOwnedTwice
  <1>8. \A j \in 1 .. n : Within(temp_free_list[j], heap_bottom, top)
    BY DEF HeapInv, NoByteOwnedTwice
  <1>9. \A a \in held : ~Overlap(a, b) /\ ~Overlap(b, a)
    BY <1>1, <1>2, <1>5, <1>7 DEF Overlap, Within
  <1>10. \A j \in 1 .. n : ~Overlap(b, temp_free_list[j])
    BY <1>1, <1>2, <1>6, <1>8, SMTT(30) DEF Overlap, Within
  <1>11. \A a \in held' : Within(a, heap_bottom, top + size)
    BY <1>1, <1>2, <1>4, <1>5, <1>7, SMTT(30) DEF Within
  <1>12. \A j \in 1 .. n : Within(temp_free_list[j], heap_bottom, top + size)
    BY <1>1, <1>6, <1>8, SMTT(30) DEF Within
  <1>13. TypeOK'
    <2>1. top + size \in heap_bottom .. temp_start
      BY <1>1, <1>3
    <2>2. QED
      BY <1>3, <1>4, <2>1 DEF HeapInv, TypeOK
  <1>14. \A a, c \in held' : a # c => ~Overlap(a, c)
    BY <1>4, <1>9 DEF HeapInv, NoByteOwnedTwice
  <1>15. \A a \in held' : \A j \in 1 .. n : ~Overlap(a, temp_free_list[j])
    BY <1>4, <1>10 DEF HeapInv, NoByteOwnedTwice
  <1>16. NoByteOwnedTwice'
    BY <1>3, <1>11, <1>12, <1>14, <1>15, SMTT(30) DEF HeapInv, NoByteOwnedTwice
  <1>17. \A a \in held' : a.size > 0
    BY <1>2, <1>4, SMTT(30) DEF HeapInv
  <1>18. QED
    BY <1>3, <1>4, <1>13, <1>16, <1>17 DEF HeapInv

(***************************************************************************)
(* temp_free: a block moves from its owner to the free list.               *)
(***************************************************************************)
LEMMA FreeHeap ==
    ASSUME HeapInv, NEW b \in held, temp_free(b)
    PROVE  HeapInv'
  <1> DEFINE f == [addr |-> b.addr, size |-> b.size]
             n == Len(temp_free_list)
  <1>1. b.addr \in Nat /\ b.size \in Nat /\ temp_free_list \in Seq(FreeBlock) /\ n \in Nat
    BY DEF HeapInv, TypeOK, HeldBlock
  <1>2. f \in FreeBlock /\ f.addr = b.addr /\ f.size = b.size
    BY <1>1 DEF FreeBlock
  <1>3. /\ temp_free_list' = <<f>> \o temp_free_list /\ held' = held \ {b}
        /\ UNCHANGED <<next_free_temp_memory, next_free_perm_memory, panicked, perm, peak, wide>>
    BY DEF temp_free
  <1> HIDE DEF f
  <1>4. /\ temp_free_list' \in Seq(FreeBlock) /\ Len(temp_free_list') = n + 1
        /\ \A j \in 1 .. n + 1 :
             temp_free_list'[j] = IF j = 1 THEN f ELSE temp_free_list[j - 1]
    BY <1>1, <1>2, <1>3, PushFacts
  <1>5. \A j \in 1 .. n + 1 : j # 1 => j - 1 \in 1 .. n
    BY <1>1
  <1>6. IsFiniteSet(held')
    BY <1>3, FS_Subset DEF HeapInv
  <1>7. TypeOK'
    BY <1>3, <1>4, SMTT(30) DEF HeapInv, TypeOK
  <1>8. \A j \in 1 .. n : ~Overlap(f, temp_free_list[j]) /\ ~Overlap(temp_free_list[j], f)
    BY <1>2, Zenon DEF HeapInv, NoByteOwnedTwice, Overlap
  <1>9. \A a \in held' : ~Overlap(a, f)
    BY <1>2, <1>3, Zenon DEF HeapInv, NoByteOwnedTwice, Overlap
  <1>10. Within(f, heap_bottom, next_free_temp_memory)
    BY <1>2, Zenon DEF HeapInv, NoByteOwnedTwice, Within
  <1>11. NoByteOwnedTwice'
    <2>1. \A j, k \in 1 .. n + 1 : j # k => ~Overlap(temp_free_list'[j], temp_free_list'[k])
      <3> SUFFICES ASSUME NEW j \in 1 .. n + 1, NEW k \in 1 .. n + 1, j # k
                   PROVE  ~Overlap(temp_free_list'[j], temp_free_list'[k])
        OBVIOUS
      <3>1. CASE j = 1
        BY <1>4, <1>5, <1>8, <3>1
      <3>2. CASE k = 1
        BY <1>4, <1>5, <1>8, <3>2, Zenon
      <3>3. CASE j # 1 /\ k # 1
        <4>1. j - 1 \in 1 .. n /\ k - 1 \in 1 .. n /\ j - 1 # k - 1
          BY <1>1, <3>3
        <4>2. ~Overlap(temp_free_list[j - 1], temp_free_list[k - 1])
          BY <4>1, Zenon DEF HeapInv, NoByteOwnedTwice
        <4>3. QED
          BY <1>4, <3>3, <4>2
      <3>4. QED
        BY <3>1, <3>2, <3>3
    <2>2. \A a \in held' : \A j \in 1 .. n + 1 : ~Overlap(a, temp_free_list'[j])
      BY <1>3, <1>4, <1>5, <1>9, Zenon DEF HeapInv, NoByteOwnedTwice
    <2>3. \A j \in 1 .. n + 1 : Within(temp_free_list'[j], heap_bottom, next_free_temp_memory)
      BY <1>4, <1>5, <1>10, Zenon DEF HeapInv, NoByteOwnedTwice
    <2>4. QED
      BY <1>3, <1>4, <2>1, <2>2, <2>3, Zenon DEF HeapInv, NoByteOwnedTwice
  <1>12. \A j \in 1 .. n + 1 : temp_free_list'[j].size > 0
    BY <1>2, <1>4, <1>5, Zenon DEF HeapInv
  <1>13. QED
    BY <1>3, <1>4, <1>6, <1>7, <1>11, <1>12 DEF HeapInv

(***************************************************************************)
(* palloc: the new block starts at or above the end of the permanent ones, *)
(* and its end is checked against heap_limit.                              *)
(***************************************************************************)
LEMMA PallocHeap ==
    ASSUME HeapInv, NEW req \in PermSizes, palloc(req)
    PROVE  HeapInv'
  <1> DEFINE start == RoundUp(next_free_perm_memory)
             size == RoundUp(req)
             b == [addr |-> start, size |-> size]
  <1>0. next_free_perm_memory \in Nat /\ req \in Nat /\ req > 0
    BY SizesAssumption DEF HeapInv, TypeOK
  <1>1. /\ start \in Nat /\ start >= next_free_perm_memory /\ next_free_perm_memory >= temp_start
        /\ size \in Nat /\ size > 0 /\ temp_start \in Nat /\ heap_limit \in Nat
    <2>1. size >= req
      BY <1>0, RoundUpFacts
    <2>2. QED
      BY <1>0, <2>1, RoundUpFacts, RegionAssumption, SMTT(30) DEF HeapInv
  <1>2. UNCHANGED <<temp_free_list, next_free_temp_memory, held, peak, wide>>
    BY DEF palloc
  <1>3. b \in FreeBlock /\ b.addr = start /\ b.size = size
    BY <1>1 DEF FreeBlock
  <1>4. \A a \in perm : a.addr \in Nat /\ a.size \in Nat /\ a.size > 0
                        /\ a.addr + a.size <= next_free_perm_memory
    BY DEF HeapInv, TypeOK, FreeBlock
  <1>5. CASE start + size > heap_limit
    <2>1. panicked' = TRUE /\ next_free_perm_memory' = start /\ perm' = perm
      BY <1>5 DEF palloc
    <2> HIDE DEF start, size, b
    <2>2. panicked' \in BOOLEAN
      BY <2>1
    <2>3. TypeOK'
      BY <1>1, <1>2, <2>1, <2>2 DEF HeapInv, TypeOK
    <2>4. NoByteOwnedTwice'
      BY <1>2, <2>1, Zenon DEF HeapInv, NoByteOwnedTwice
    <2>5. next_free_perm_memory' >= temp_start
          /\ \A a \in perm : a.addr + a.size <= next_free_perm_memory'
      BY <1>0, <1>1, <1>4, <2>1
    <2>6. QED
      BY <1>2, <1>4, <2>1, <2>3, <2>4, <2>5 DEF HeapInv
  <1>6. CASE ~(start + size > heap_limit)
    <2>1. /\ panicked' = panicked /\ next_free_perm_memory' = start + size
          /\ perm' = perm \cup {b}
      BY <1>6 DEF palloc
    <2> HIDE DEF start, size, b
    <2>2. start + size \in Nat
      BY <1>1
    <2>3. TypeOK'
      BY <1>2, <1>3, <2>1, <2>2 DEF HeapInv, TypeOK
    <2>4. \A a \in perm : ~Overlap(a, b) /\ ~Overlap(b, a)
      BY <1>0, <1>1, <1>3, <1>4 DEF Overlap
    <2>5. Within(b, temp_start, heap_limit)
      BY <1>0, <1>1, <1>3, <1>6, SMTT(30) DEF Within
    <2>6. \A a, c \in perm' : a # c => ~Overlap(a, c)
      BY <2>1, <2>4, SMTT(30) DEF HeapInv, NoByteOwnedTwice
    <2>7. \A a \in perm' : Within(a, temp_start, heap_limit)
      BY <2>1, <2>5 DEF HeapInv, NoByteOwnedTwice
    <2>8. NoByteOwnedTwice'
      BY <1>2, <2>6, <2>7 DEF HeapInv, NoByteOwnedTwice
    <2>9. next_free_perm_memory' >= temp_start
      BY <1>0, <1>1, <2>1
    <2>10. \A a \in perm' : a.size > 0 /\ a.addr + a.size <= next_free_perm_memory'
      BY <1>0, <1>1, <1>3, <1>4, <2>1
    <2>11. QED
      BY <1>2, <2>3, <2>8, <2>9, <2>10 DEF HeapInv
  <1>7. QED
    BY <1>5, <1>6

(***************************************************************************)
(* Every step keeps the heap invariant.                                    *)
(***************************************************************************)
LEMMA NextHeap == HeapInv /\ [Next]_vars => HeapInv'
  <1> SUFFICES ASSUME HeapInv, [Next]_vars PROVE HeapInv'
    OBVIOUS
  <1>1. ASSUME NEW req \in FreedSizes \cup KeptSizes, NEW freed \in BOOLEAN, talloc(req, freed)
        PROVE  HeapInv'
    <2>1. req \in Nat /\ req > 0
      BY SizesAssumption
    <2>2. RoundUp(req) \in Nat \ {0}
      <3>1. RoundUp(req) \in Nat /\ RoundUp(req) >= req
        BY <2>1, RoundUpFacts
      <3>2. QED
        BY <2>1, <3>1
    <2>3. CASE Overflow(RoundUp(req))
      <3>1. panicked' = TRUE /\ UNCHANGED <<temp_free_list, next_free_temp_memory,
                                            next_free_perm_memory, held, perm, peak, wide>>
        BY <2>3 DEF Overflow
      <3>2. panicked' \in BOOLEAN
        BY <3>1
      <3>3. QED
        BY <3>1, <3>2, Zenon DEF HeapInv, TypeOK, NoByteOwnedTwice
    <2>4. QED
      BY <1>1, <2>2, <2>3, ReuseHeap, BumpHeap DEF talloc
  <1>2. ASSUME NEW b \in held, temp_free(b) PROVE HeapInv'
    BY <1>2, FreeHeap
  <1>3. ASSUME NEW req \in PermSizes, palloc(req) PROVE HeapInv'
    BY <1>3, PallocHeap
  <1>4. CASE UNCHANGED vars
    BY <1>4, Zenon DEF vars, HeapInv, TypeOK, NoByteOwnedTwice
  <1>5. QED
    BY <1>1, <1>2, <1>3, <1>4, Zenon DEF Next

(***************************************************************************)
(* Both bump pointers stay in their regions and the list stays a list.     *)
(***************************************************************************)
THEOREM HeapTypeCorrect == Spec => []TypeOK
  <1>1. HeapInv => TypeOK
    BY DEF HeapInv
  <1>2. QED
    BY <1>1, InitHeap, NextHeap, PTL DEF Spec

(***************************************************************************)
(* No sequence of talloc, temp_free and palloc gives a byte two owners.    *)
(***************************************************************************)
THEOREM BlocksDisjoint == Spec => []NoByteOwnedTwice
  <1>1. HeapInv => NoByteOwnedTwice
    BY DEF HeapInv
  <1>2. QED
    BY <1>1, InitHeap, NextHeap, PTL DEF Spec

------------------------------------------------------------------------------
(* Nothing is lost when every freed request fits a page.                   *)

\* All blocks that come back are one page, so a block that is reused is
\* reused whole.
PageInv ==
    /\ HeapInv
    /\ NothingLost
    /\ \A i \in 1 .. Len(temp_free_list) : temp_free_list[i].size = PAGE
    /\ \A b \in held : b.freed => b.size = PAGE

Covers(b, a) == b.addr <= a /\ a < b.addr + b.size

(***************************************************************************)
(* Reuse hands out the whole page it unlinks, so its bytes stay covered.   *)
(***************************************************************************)
LEMMA ReusePage ==
    ASSUME PageInv, NEW size \in Nat, size >= PAGE, NEW freed \in BOOLEAN, Reuse(size, freed),
           HeapInv'
    PROVE  PageInv'
  <1> DEFINE i == Min(Fits(size))
             f == temp_free_list[i]
             b == [addr |-> f.addr, size |-> size, freed |-> freed]
             n == Len(temp_free_list)
  <1>1. i \in 1 .. n /\ f.size >= size
    BY FirstFit, Zenon DEF Reuse, PageInv, HeapInv
  <1>2. /\ temp_free_list \in Seq(FreeBlock) /\ n \in Nat
        /\ \A j \in 1 .. n : temp_free_list[j].size = PAGE
    BY DEF PageInv, HeapInv, TypeOK
  <1>3. size = PAGE
    BY <1>1, <1>2, PageAssumption
  <1>4. /\ temp_free_list' = Unlink(temp_free_list, i) /\ held' = held \cup {b}
        /\ next_free_temp_memory' = next_free_temp_memory
    BY DEF Reuse, Own
  <1>5. b.addr = f.addr /\ b.size = f.size /\ b.size = PAGE
    BY <1>1, <1>2, <1>3
  <1> HIDE DEF i, f, b, n
  <1>6. /\ Len(temp_free_list') = n - 1
        /\ \A j \in 1 .. n - 1 :
             temp_free_list'[j] = temp_free_list[IF j < i THEN j ELSE j + 1]
    BY <1>1, <1>2, <1>4, UnlinkFacts, Zenon DEF n
  <1>7. \A j \in 1 .. n - 1 : temp_free_list'[j].size = PAGE
    BY <1>1, <1>2, <1>6, SMTT(30)
  <1>8. \A k \in 1 .. n : k # i => \E j \in 1 .. n - 1 : temp_free_list'[j] = temp_free_list[k]
    <2> SUFFICES ASSUME NEW k \in 1 .. n, k # i
                 PROVE  \E j \in 1 .. n - 1 : temp_free_list'[j] = temp_free_list[k]
      OBVIOUS
    <2>1. CASE k < i
      <3>1. k \in 1 .. n - 1
        BY <1>1, <1>2, <2>1
      <3>2. QED
        BY <1>6, <2>1, <3>1
    <2>2. CASE ~(k < i)
      <3>1. k - 1 \in 1 .. n - 1 /\ ~(k - 1 < i) /\ (k - 1) + 1 = k
        BY <1>1, <1>2, <2>2
      <3>2. QED
        BY <1>6, <3>1
    <2>3. QED
      BY <2>1, <2>2
  <1>9. ASSUME NEW a \in heap_bottom .. next_free_temp_memory - 1
        PROVE  \/ \E c \in held' : Covers(c, a)
               \/ \E j \in 1 .. n - 1 : Covers(temp_free_list'[j], a)
    <2>1. CASE \E c \in held : Covers(c, a)
      BY <1>4, <2>1
    <2>2. CASE \E k \in 1 .. n : Covers(temp_free_list[k], a)
      <3>1. PICK k \in 1 .. n : Covers(temp_free_list[k], a)
        BY <2>2
      <3>2. CASE k = i
        <4>1. Covers(b, a)
          BY <1>5, <3>1, <3>2, Zenon DEF Covers, f
        <4>2. QED
          BY <1>4, <4>1
      <3>3. CASE k # i
        BY <1>8, <3>1, <3>3
      <3>4. QED
        BY <3>2, <3>3
    <2>3. QED
      BY <2>1, <2>2, Zenon DEF PageInv, NothingLost, Covers, n
  <1>10. NothingLost'
    BY <1>4, <1>6, <1>9 DEF NothingLost, Covers
  <1>11. \A c \in held' : c.freed => c.size = PAGE
    BY <1>4, <1>5 DEF PageInv
  <1>12. QED
    BY <1>6, <1>7, <1>10, <1>11 DEF PageInv

(***************************************************************************)
(* Bump covers exactly the bytes the pointer moves over.                   *)
(***************************************************************************)
LEMMA BumpPage ==
    ASSUME PageInv, NEW size \in Nat, NEW freed \in BOOLEAN, Bump(size, freed), HeapInv',
           freed => size = PAGE
    PROVE  PageInv'
  <1> DEFINE b == [addr |-> next_free_temp_memory, size |-> size, freed |-> freed]
             top == next_free_temp_memory
  <1>1. top \in Nat /\ heap_bottom \in Nat
    BY RegionAssumption DEF PageInv, HeapInv, TypeOK
  <1>2. /\ next_free_temp_memory' = top + size /\ held' = held \cup {b}
        /\ temp_free_list' = temp_free_list
    BY DEF Bump, Own
  <1>3. b.addr = top /\ b.size = size /\ b.freed = freed
    OBVIOUS
  <1> HIDE DEF b
  <1>4. ASSUME NEW a \in heap_bottom .. top + size - 1
        PROVE  \/ \E c \in held' : Covers(c, a)
               \/ \E j \in 1 .. Len(temp_free_list) : Covers(temp_free_list[j], a)
    <2>1. CASE a >= top
      <3>1. Covers(b, a)
        BY <1>1, <1>3, <2>1 DEF Covers
      <3>2. QED
        BY <1>2, <3>1
    <2>2. CASE a < top
      <3>1. a \in heap_bottom .. top - 1
        BY <1>1, <2>2
      <3>2. \/ \E c \in held : Covers(c, a)
            \/ \E j \in 1 .. Len(temp_free_list) : Covers(temp_free_list[j], a)
        BY <3>1 DEF PageInv, NothingLost, Covers
      <3>3. QED
        BY <1>2, <3>2
    <2>3. QED
      BY <1>1, <2>1, <2>2
  <1>5. NothingLost'
    <2>1. next_free_temp_memory' - 1 = top + size - 1 /\ temp_free_list' = temp_free_list
      BY <1>1, <1>2
    <2>2. QED
      BY <1>4, <2>1, Zenon DEF NothingLost, Covers
  <1>6. \A c \in held' : c.freed => c.size = PAGE
    BY <1>2, <1>3 DEF PageInv
  <1>7. QED
    BY <1>2, <1>5, <1>6 DEF PageInv

(***************************************************************************)
(* temp_free moves its bytes to the list.                                  *)
(***************************************************************************)
LEMMA FreePage ==
    ASSUME PageInv, NEW b \in held, b.freed, temp_free(b), HeapInv'
    PROVE  PageInv'
  <1> DEFINE f == [addr |-> b.addr, size |-> b.size]
             n == Len(temp_free_list)
  <1>1. b.addr \in Nat /\ b.size \in Nat /\ temp_free_list \in Seq(FreeBlock) /\ n \in Nat
    BY DEF PageInv, HeapInv, TypeOK, HeldBlock
  <1>2. f \in FreeBlock /\ f.addr = b.addr /\ f.size = b.size /\ f.size = PAGE
    BY <1>1 DEF FreeBlock, PageInv
  <1>3. /\ temp_free_list' = <<f>> \o temp_free_list /\ held' = held \ {b}
        /\ next_free_temp_memory' = next_free_temp_memory
    BY DEF temp_free
  <1> HIDE DEF f
  <1>4. /\ Len(temp_free_list') = n + 1
        /\ \A j \in 1 .. n + 1 :
             temp_free_list'[j] = IF j = 1 THEN f ELSE temp_free_list[j - 1]
    BY <1>1, <1>2, <1>3, PushFacts
  <1>5. \A j \in 1 .. n + 1 : temp_free_list'[j].size = PAGE
    <2>1. \A j \in 1 .. n + 1 : j # 1 => j - 1 \in 1 .. n
      BY <1>1
    <2>2. QED
      BY <1>2, <1>4, <2>1, Zenon DEF PageInv
  <1>6. \A k \in 1 .. n : k + 1 \in 1 .. n + 1 /\ temp_free_list'[k + 1] = temp_free_list[k]
    BY <1>1, <1>4
  <1>7. 1 \in 1 .. n + 1 /\ temp_free_list'[1] = f
    BY <1>1, <1>4
  <1>8. ASSUME NEW a \in heap_bottom .. next_free_temp_memory - 1
        PROVE  \/ \E c \in held' : Covers(c, a)
               \/ \E j \in 1 .. n + 1 : Covers(temp_free_list'[j], a)
    <2>1. CASE Covers(b, a)
      <3>1. Covers(f, a)
        BY <1>2, <2>1 DEF Covers
      <3>2. QED
        BY <1>7, <3>1
    <2>2. CASE \E c \in held \ {b} : Covers(c, a)
      BY <1>3, <2>2
    <2>3. CASE \E k \in 1 .. n : Covers(temp_free_list[k], a)
      BY <1>6, <2>3
    <2>4. QED
      BY <2>1, <2>2, <2>3, Zenon DEF PageInv, NothingLost, Covers
  <1>9. NothingLost'
    BY <1>3, <1>4, <1>8, Zenon DEF NothingLost, Covers
  <1>10. QED
    BY <1>3, <1>4, <1>5, <1>9 DEF PageInv

(***************************************************************************)
(* When every request that is freed fits a page, as 2, 18 and 256 do,      *)
(* every byte below the bump pointer has an owner or is on the free list.  *)
(***************************************************************************)
THEOREM NoByteLost ==
    ASSUME \A s \in FreedSizes : s <= PAGE
    PROVE  Spec => []NothingLost
  <1>1. Init => PageInv
    <2> SUFFICES ASSUME Init PROVE PageInv
      OBVIOUS
    <2>1. held = {} /\ Len(temp_free_list) = 0 /\ next_free_temp_memory = heap_bottom
      BY DEF Init
    <2>2. heap_bottom .. next_free_temp_memory - 1 = {}
      BY <2>1, RegionAssumption
    <2>3. QED
      BY <2>1, <2>2, InitHeap DEF PageInv, NothingLost
  <1>2. PageInv /\ [Next]_vars => PageInv'
    <2> SUFFICES ASSUME PageInv, [Next]_vars PROVE PageInv'
      OBVIOUS
    <2>1. HeapInv /\ HeapInv'
      BY NextHeap DEF PageInv
    <2>2. ASSUME NEW req, NEW freed \in BOOLEAN, talloc(req, freed),
                 req \in (IF freed THEN FreedSizes ELSE KeptSizes)
          PROVE  PageInv'
      <3>1. req \in Nat /\ req > 0 /\ (freed => req <= PAGE)
        BY <2>2, SizesAssumption
      <3>2. RoundUp(req) \in Nat /\ RoundUp(req) >= PAGE /\ (freed => RoundUp(req) = PAGE)
        BY <3>1, RoundUpFacts
      <3>3. CASE Overflow(RoundUp(req))
        BY <2>1, <3>3, Zenon DEF Overflow, PageInv, NothingLost
      <3>4. QED
        BY <2>1, <2>2, <3>2, <3>3, ReusePage, BumpPage DEF talloc
    <2>3. ASSUME NEW b \in held, b.freed, temp_free(b) PROVE PageInv'
      BY <2>1, <2>3, FreePage
    <2>4. ASSUME NEW req \in PermSizes, palloc(req) PROVE PageInv'
      BY <2>1, <2>4, Zenon DEF palloc, PageInv, NothingLost
    <2>5. CASE UNCHANGED vars
      BY <2>1, <2>5, Zenon DEF vars, PageInv, NothingLost
    <2>6. QED
      BY <2>2, <2>3, <2>4, <2>5, Zenon DEF Next
  <1>3. PageInv => NothingLost
    BY DEF PageInv
  <1>4. QED
    BY <1>1, <1>2, <1>3, PTL DEF Spec

------------------------------------------------------------------------------
(* The footprint is bounded by the kept wide blocks and the peak of pages. *)

\* Every page below the bump pointer that is not part of a wide block is held
\* or free, so a request of one page moves the pointer only when all of them
\* are held.
FootInv ==
    /\ HeapInv
    /\ \A i \in 1 .. Len(temp_free_list) : temp_free_list[i].size = PAGE
    /\ \A b \in held : b.freed => b.size = PAGE
    /\ next_free_temp_memory
         = heap_bottom + wide + PAGE * (Cardinality(Pages(held)) + Len(temp_free_list))
    /\ Cardinality(Pages(held)) <= peak
    /\ FootprintBounded

(***************************************************************************)
(* Multiplication by a natural is monotone.                                *)
(***************************************************************************)
LEMMA TimesMonotone ==
    ASSUME NEW a \in Nat, NEW b \in Nat, NEW c \in Nat, a <= b
    PROVE  a * c \in Nat /\ b * c \in Nat /\ a * c <= b * c
  <1>1. b - a \in Nat /\ b = a + (b - a)
    OBVIOUS
  <1>2. (b - a) * c \in Nat /\ a * c \in Nat /\ b * c \in Nat
    BY <1>1
  <1>3. b * c = a * c + (b - a) * c
    OBVIOUS
  <1>4. QED
    BY <1>2, <1>3

(***************************************************************************)
(* Owning a page that overlaps no held block adds one to the count.        *)
(***************************************************************************)
LEMMA OwnCount ==
    ASSUME HeapInv, NEW b \in HeldBlock, Own(b), b.size = PAGE, b \notin held,
           Cardinality(Pages(held)) <= peak
    PROVE  /\ Cardinality(Pages(held')) = Cardinality(Pages(held)) + 1
           /\ Cardinality(Pages(held)) \in Nat /\ wide' = wide
           /\ Cardinality(Pages(held')) <= peak' /\ peak <= peak' /\ peak \in Nat /\ peak' \in Nat
  <1>1. held' = held \cup {b} /\ IsFiniteSet(held) /\ peak \in Nat
    BY Zenon DEF Own, HeapInv, TypeOK
  <1>2. Pages(held') = Pages(held) \cup {b} /\ b \notin Pages(held)
    BY <1>1, Zenon DEF Pages
  <1>3. IsFiniteSet(Pages(held)) /\ Cardinality(Pages(held)) \in Nat
    BY <1>1, PagesFinite, Zenon
  <1>4. Cardinality(Pages(held')) = Cardinality(Pages(held)) + 1
    BY <1>2, <1>3, FS_AddElement, Zenon
  <1>5. peak' = IF Cardinality(Pages(held')) > peak THEN Cardinality(Pages(held')) ELSE peak
    BY Zenon DEF Own
  <1>6. wide' = wide
    BY PageAssumption DEF Own
  <1>7. QED
    BY <1>1, <1>3, <1>4, <1>5, <1>6

(***************************************************************************)
(* Reuse moves a page from the list to its owner; the pointer stays.       *)
(***************************************************************************)
LEMMA ReuseFoot ==
    ASSUME FootInv, NEW freed \in BOOLEAN, Reuse(PAGE, freed), HeapInv'
    PROVE  FootInv'
  <1> DEFINE i == Min(Fits(PAGE))
             f == temp_free_list[i]
             b == [addr |-> f.addr, size |-> PAGE, freed |-> freed]
             n == Len(temp_free_list)
  <1>1. i \in 1 .. n
    BY FirstFit, PageAssumption, Zenon DEF Reuse, FootInv, HeapInv
  <1>2. temp_free_list \in Seq(FreeBlock) /\ n \in Nat /\ f \in FreeBlock /\ PAGE \in Nat /\ PAGE > 0
    BY <1>1, PageAssumption, SMTT(30) DEF FootInv, HeapInv, TypeOK
  <1>3. b \in HeldBlock /\ b.addr = f.addr /\ b.size = PAGE /\ f.size = PAGE /\ f.addr \in Nat
    BY <1>1, <1>2, Zenon DEF FreeBlock, HeldBlock, FootInv
  <1>4. /\ temp_free_list' = Unlink(temp_free_list, i) /\ Own(b)
        /\ next_free_temp_memory' = next_free_temp_memory
    BY DEF Reuse
  <1> HIDE DEF i, f, b, n
  <1>5. b \notin held
    <2>1. \A a \in held : ~Overlap(a, f)
      BY <1>1, Zenon DEF FootInv, HeapInv, NoByteOwnedTwice, f, n
    <2>2. Overlap(b, f)
      BY <1>2, <1>3 DEF Overlap
    <2>3. QED
      BY <2>1, <2>2, SMTT(30)
  <1>6. /\ Cardinality(Pages(held')) = Cardinality(Pages(held)) + 1
        /\ Cardinality(Pages(held)) \in Nat /\ wide' = wide
        /\ Cardinality(Pages(held')) <= peak' /\ peak <= peak' /\ peak \in Nat /\ peak' \in Nat
    BY <1>3, <1>4, <1>5, OwnCount, Zenon DEF FootInv
  <1>7. /\ Len(temp_free_list') = n - 1
        /\ \A j \in 1 .. n - 1 :
             temp_free_list'[j] = temp_free_list[IF j < i THEN j ELSE j + 1]
    BY <1>1, <1>2, <1>4, UnlinkFacts, Zenon DEF n
  <1>8. \A j \in 1 .. n - 1 : temp_free_list'[j].size = PAGE
    BY <1>1, <1>2, <1>7, SMTT(30) DEF FootInv, n
  <1>9. Cardinality(Pages(held')) + Len(temp_free_list') = Cardinality(Pages(held)) + n
    BY <1>2, <1>6, <1>7
  <1>10. next_free_temp_memory'
           = heap_bottom + wide' + PAGE * (Cardinality(Pages(held')) + Len(temp_free_list'))
    BY <1>4, <1>6, <1>9, Zenon DEF FootInv, n
  <1>11. \A a \in held' : a.freed => a.size = PAGE
    BY <1>3, <1>4, Zenon DEF FootInv, Own
  <1>12. FootprintBounded'
    <2>1. peak * PAGE <= peak' * PAGE /\ peak * PAGE \in Nat /\ peak' * PAGE \in Nat
      BY <1>2, <1>6, TimesMonotone, Zenon
    <2>2. /\ next_free_temp_memory - heap_bottom <= wide + peak * PAGE
          /\ next_free_temp_memory - heap_bottom \in Int /\ wide \in Nat
      BY RegionAssumption DEF FootInv, FootprintBounded, HeapInv, TypeOK
    <2>3. QED
      BY <1>4, <1>6, <2>1, <2>2 DEF FootprintBounded
  <1>13. QED
    BY <1>6, <1>7, <1>8, <1>10, <1>11, <1>12, Zenon DEF FootInv

(***************************************************************************)
(* Bump for one page happens only when the list is empty: the pointer      *)
(* moves to the wide blocks and the pages then held, which peak counts.    *)
(***************************************************************************)
LEMMA BumpFoot ==
    ASSUME FootInv, NEW freed \in BOOLEAN, Bump(PAGE, freed), HeapInv'
    PROVE  FootInv'
  <1> DEFINE b == [addr |-> next_free_temp_memory, size |-> PAGE, freed |-> freed]
             top == next_free_temp_memory
             base == heap_bottom + wide
  <1>1. /\ top \in Nat /\ heap_bottom \in Nat /\ PAGE \in Nat /\ PAGE > 0
        /\ temp_free_list \in Seq(FreeBlock) /\ wide \in Nat /\ base \in Nat
    BY RegionAssumption, PageAssumption DEF FootInv, HeapInv, TypeOK
  <1>2. b \in HeldBlock /\ b.addr = top /\ b.size = PAGE
    BY <1>1 DEF HeldBlock
  <1>3. next_free_temp_memory' = top + PAGE /\ temp_free_list' = temp_free_list /\ Own(b)
    BY DEF Bump
  <1>4. Len(temp_free_list) = 0
    <2>1. \A j \in 1 .. Len(temp_free_list) : temp_free_list[j].size >= PAGE
      BY <1>1 DEF FootInv
    <2>2. Fits(PAGE) = 1 .. Len(temp_free_list) /\ Fits(PAGE) = {} /\ Len(temp_free_list) \in Nat
      BY <1>1, <2>1 DEF Fits, Bump
    <2>3. Len(temp_free_list) # 0 => 1 \in 1 .. Len(temp_free_list)
      BY <2>2
    <2>4. QED
      BY <2>2, <2>3, Zenon
  <1> HIDE DEF b
  <1>5. b \notin held
    <2>1. \A a \in held : Within(a, heap_bottom, top)
      BY Zenon DEF FootInv, HeapInv, NoByteOwnedTwice
    <2>2. ~Within(b, heap_bottom, top)
      BY <1>1, <1>2 DEF Within
    <2>3. QED
      BY <2>1, <2>2, Zenon
  <1>6. /\ Cardinality(Pages(held')) = Cardinality(Pages(held)) + 1
        /\ Cardinality(Pages(held)) \in Nat /\ wide' = wide
        /\ Cardinality(Pages(held')) <= peak' /\ peak <= peak' /\ peak \in Nat /\ peak' \in Nat
    BY <1>2, <1>3, <1>5, OwnCount, Zenon DEF FootInv
  <1>7. top = base + PAGE * Cardinality(Pages(held))
    <2>1. top = base + PAGE * (Cardinality(Pages(held)) + 0)
      BY <1>4, Zenon DEF FootInv
    <2>2. Cardinality(Pages(held)) + 0 = Cardinality(Pages(held))
      BY <1>6
    <2>3. QED
      BY <2>1, <2>2, Zenon
  <1> HIDE DEF base, top
  <1>8. next_free_temp_memory' = base + PAGE * Cardinality(Pages(held'))
    <2>1. PICK k \in Nat : k = Cardinality(Pages(held))
      BY <1>6
    <2>2. PAGE * (k + 1) = PAGE * k + PAGE /\ PAGE * k \in Nat
      BY <1>1, <2>1
    <2>3. top = base + PAGE * k /\ Cardinality(Pages(held')) = k + 1
      BY <1>6, <1>7, <2>1, Zenon
    <2>4. QED
      BY <1>1, <1>3, <2>2, <2>3
  <1>9. Cardinality(Pages(held')) + Len(temp_free_list') = Cardinality(Pages(held'))
    BY <1>3, <1>4, <1>6
  <1>10. FootprintBounded'
    <2>1. /\ Cardinality(Pages(held')) \in Nat
          /\ Cardinality(Pages(held')) * PAGE = PAGE * Cardinality(Pages(held'))
      BY <1>1, <1>6
    <2>2. /\ PAGE * Cardinality(Pages(held')) <= peak' * PAGE
          /\ PAGE * Cardinality(Pages(held')) \in Nat /\ peak' * PAGE \in Nat
      BY <1>1, <1>6, <2>1, TimesMonotone
    <2>3. next_free_temp_memory' - heap_bottom = wide' + PAGE * Cardinality(Pages(held'))
      BY <1>1, <1>6, <1>8, <2>2 DEF base
    <2>4. QED
      BY <1>1, <1>6, <2>2, <2>3 DEF FootprintBounded
  <1>11. \A a \in held' : a.freed => a.size = PAGE
    BY <1>2, <1>3, Zenon DEF FootInv, Own
  <1>12. next_free_temp_memory'
           = heap_bottom + wide' + PAGE * (Cardinality(Pages(held')) + Len(temp_free_list'))
    BY <1>6, <1>8, <1>9, Zenon DEF base
  <1>13. QED
    BY <1>3, <1>6, <1>10, <1>11, <1>12, Zenon DEF FootInv

(***************************************************************************)
(* Bump for more than a page, which only a request that is kept asks for:  *)
(* the pointer moves by what is added to wide.                             *)
(***************************************************************************)
LEMMA WideFoot ==
    ASSUME FootInv, NEW size \in Nat, size > PAGE, Bump(size, FALSE), HeapInv'
    PROVE  FootInv'
  <1> DEFINE b == [addr |-> next_free_temp_memory, size |-> size, freed |-> FALSE]
             count == Cardinality(Pages(held)) + Len(temp_free_list)
  <1>1. /\ next_free_temp_memory \in Nat /\ heap_bottom \in Nat /\ PAGE \in Nat
        /\ wide \in Nat /\ peak \in Nat /\ temp_free_list \in Seq(FreeBlock)
    BY RegionAssumption, PageAssumption DEF FootInv, HeapInv, TypeOK
  <1>2. b.size = size /\ b.size # PAGE /\ b.freed = FALSE
    BY <1>1
  <1>3. /\ next_free_temp_memory' = next_free_temp_memory + size
        /\ temp_free_list' = temp_free_list /\ held' = held \cup {b}
        /\ wide' = wide + size
        /\ peak' = IF Cardinality(Pages(held')) > peak THEN Cardinality(Pages(held')) ELSE peak
    BY <1>1, <1>2 DEF Bump, Own
  <1> HIDE DEF b
  <1>4. Pages(held') = Pages(held)
    BY <1>2, <1>3, Zenon DEF Pages
  <1>5. Cardinality(Pages(held)) \in Nat /\ Cardinality(Pages(held)) <= peak
    BY PagesFinite, Zenon DEF FootInv, HeapInv
  <1>6. peak' = peak
    BY <1>1, <1>3, <1>4, <1>5
  <1>7. count \in Nat /\ PAGE * count \in Nat /\ peak * PAGE \in Nat
    BY <1>1, <1>5
  <1>8. /\ next_free_temp_memory = heap_bottom + wide + PAGE * count
        /\ next_free_temp_memory - heap_bottom <= wide + peak * PAGE
    BY Zenon DEF FootInv, FootprintBounded
  <1>9. Cardinality(Pages(held')) + Len(temp_free_list') = count
    BY <1>3, <1>4, Zenon
  <1> HIDE DEF count
  <1>10. next_free_temp_memory'
           = heap_bottom + wide' + PAGE * (Cardinality(Pages(held')) + Len(temp_free_list'))
    <2>1. PICK m \in Nat : m = PAGE * count
      BY <1>7
    <2>2. next_free_temp_memory' = heap_bottom + wide' + m
      BY <1>1, <1>3, <1>8, <2>1
    <2>3. QED
      BY <1>9, <2>1, <2>2, Zenon
  <1>11. FootprintBounded'
    <2>1. PICK m \in Nat : m = peak * PAGE
      BY <1>7
    <2>2. next_free_temp_memory' - heap_bottom <= wide' + m
      BY <1>1, <1>3, <1>8, <2>1
    <2>3. QED
      BY <1>6, <2>1, <2>2, Zenon DEF FootprintBounded
  <1>12. \A a \in held' : a.freed => a.size = PAGE
    BY <1>2, <1>3, Zenon DEF FootInv
  <1>13. QED
    BY <1>3, <1>4, <1>5, <1>6, <1>10, <1>11, <1>12, Zenon DEF FootInv

(***************************************************************************)
(* temp_free moves a page from its owner to the list; the pointer stays.   *)
(***************************************************************************)
LEMMA FreeFoot ==
    ASSUME FootInv, NEW b \in held, b.freed, temp_free(b), HeapInv'
    PROVE  FootInv'
  <1> DEFINE f == [addr |-> b.addr, size |-> b.size]
             n == Len(temp_free_list)
  <1>1. b.addr \in Nat /\ b.size \in Nat /\ temp_free_list \in Seq(FreeBlock) /\ n \in Nat
    BY SMTT(30) DEF FootInv, HeapInv, TypeOK, HeldBlock
  <1>2. f \in FreeBlock /\ f.size = PAGE /\ b.size = PAGE
    BY <1>1, Zenon DEF FreeBlock, FootInv
  <1>3. /\ temp_free_list' = <<f>> \o temp_free_list /\ held' = held \ {b}
        /\ next_free_temp_memory' = next_free_temp_memory /\ peak' = peak /\ wide' = wide
    BY DEF temp_free
  <1> HIDE DEF f
  <1>4. /\ Len(temp_free_list') = n + 1
        /\ \A j \in 1 .. n + 1 :
             temp_free_list'[j] = IF j = 1 THEN f ELSE temp_free_list[j - 1]
    BY <1>1, <1>2, <1>3, PushFacts
  <1>5. \A j \in 1 .. n + 1 : temp_free_list'[j].size = PAGE
    <2>1. \A j \in 1 .. n + 1 : j # 1 => j - 1 \in 1 .. n
      BY <1>1
    <2>2. \A k \in 1 .. n : temp_free_list[k].size = PAGE
      BY Zenon DEF FootInv
    <2>3. QED
      BY <1>2, <1>4, <2>1, <2>2, Zenon
  <1>6. /\ Cardinality(Pages(held')) = Cardinality(Pages(held)) - 1
        /\ Cardinality(Pages(held)) \in Nat /\ Cardinality(Pages(held')) \in Nat
    <2>1. Pages(held') = Pages(held) \ {b} /\ b \in Pages(held)
      BY <1>2, <1>3, Zenon DEF Pages
    <2>2. IsFiniteSet(Pages(held)) /\ IsFiniteSet(Pages(held'))
      BY PagesFinite, Zenon DEF FootInv, HeapInv
    <2>3. QED
      BY <2>1, <2>2, FS_RemoveElement, FS_CardinalityType
  <1>7. Cardinality(Pages(held')) + Len(temp_free_list') = Cardinality(Pages(held)) + n
    BY <1>1, <1>4, <1>6
  <1>8. next_free_temp_memory'
           = heap_bottom + wide' + PAGE * (Cardinality(Pages(held')) + Len(temp_free_list'))
    BY <1>3, <1>7, Zenon DEF FootInv
  <1>9. Cardinality(Pages(held')) <= peak'
    BY <1>3, <1>6 DEF FootInv, HeapInv, TypeOK
  <1>10. QED
    BY <1>3, <1>4, <1>5, <1>8, <1>9, Zenon DEF FootInv, FootprintBounded

(***************************************************************************)
(* When every request that is freed fits a page, as 2, 18 and 256 do, the  *)
(* temporary region never grows beyond the wide blocks that are kept and   *)
(* the largest number of pages in use at once, whatever the sizes that are *)
(* kept: printing for ever cannot exhaust it.                              *)
(***************************************************************************)
THEOREM FootprintByPeak ==
    ASSUME \A s \in FreedSizes : s <= PAGE
    PROVE  Spec => []FootprintBounded
  <1>1. Init => FootInv
    <2> SUFFICES ASSUME Init PROVE FootInv
      OBVIOUS
    <2>1. /\ held = {} /\ Len(temp_free_list) = 0 /\ peak = 0 /\ wide = 0
          /\ next_free_temp_memory = heap_bottom /\ heap_bottom \in Nat /\ PAGE \in Nat
      BY RegionAssumption, PageAssumption DEF Init
    <2>2. Pages(held) = {}
      BY <2>1 DEF Pages
    <2>3. Cardinality(Pages(held)) = 0
      BY <2>2, FS_EmptySet
    <2>4. /\ next_free_temp_memory = heap_bottom + 0 + PAGE * (0 + 0)
          /\ next_free_temp_memory - heap_bottom <= 0 + 0 * PAGE
      BY <2>1
    <2>5. QED
      BY <2>1, <2>3, <2>4, InitHeap DEF FootInv, FootprintBounded
  <1>2. FootInv /\ [Next]_vars => FootInv'
    <2> SUFFICES ASSUME FootInv, [Next]_vars PROVE FootInv'
      OBVIOUS
    <2>1. HeapInv'
      BY NextHeap DEF FootInv
    <2>2. ASSUME NEW req, NEW freed \in BOOLEAN, talloc(req, freed),
                 req \in (IF freed THEN FreedSizes ELSE KeptSizes)
          PROVE  FootInv'
      <3>1. req \in Nat /\ req > 0 /\ (freed => req <= PAGE)
        BY <2>2, SizesAssumption
      <3>2. RoundUp(req) \in Nat /\ RoundUp(req) >= PAGE /\ (freed => RoundUp(req) = PAGE)
        BY <3>1, RoundUpFacts
      <3>3. CASE Overflow(RoundUp(req))
        BY <2>1, <3>3, Zenon DEF Overflow, FootInv, FootprintBounded
      <3>4. CASE RoundUp(req) = PAGE /\ ~Overflow(RoundUp(req))
        BY <2>1, <2>2, <3>4, ReuseFoot, BumpFoot, Zenon DEF talloc
      <3>5. CASE RoundUp(req) > PAGE /\ ~Overflow(RoundUp(req))
        <4>1. freed = FALSE
          BY <3>2, <3>5, PageAssumption
        <4>2. ~Reuse(RoundUp(req), freed)
          <5> SUFFICES ASSUME Reuse(RoundUp(req), freed) PROVE FALSE
            OBVIOUS
          <5>1. PICK i \in Fits(RoundUp(req)) : TRUE
            BY Zenon DEF Reuse
          <5>2. i \in 1 .. Len(temp_free_list) /\ temp_free_list[i].size >= RoundUp(req)
            BY <5>1, Zenon DEF Fits
          <5>3. temp_free_list[i].size = PAGE
            BY <5>2, Zenon DEF FootInv
          <5>4. QED
            BY <3>2, <3>5, <5>2, <5>3, PageAssumption
        <4>3. Bump(RoundUp(req), FALSE)
          BY <2>2, <3>5, <4>1, <4>2, Zenon DEF talloc
        <4>4. QED
          BY <2>1, <3>2, <3>5, <4>3, WideFoot, Zenon
      <3>6. QED
        BY <3>2, <3>3, <3>4, <3>5, PageAssumption
    <2>3. ASSUME NEW b \in held, b.freed, temp_free(b) PROVE FootInv'
      BY <2>1, <2>3, FreeFoot, Zenon
    <2>4. ASSUME NEW req \in PermSizes, palloc(req) PROVE FootInv'
      BY <2>1, <2>4, Zenon DEF palloc, FootInv, FootprintBounded
    <2>5. CASE UNCHANGED vars
      BY <2>1, <2>5, Zenon DEF vars, FootInv, FootprintBounded
    <2>6. QED
      BY <2>2, <2>3, <2>4, <2>5, Zenon DEF Next
  <1>3. FootInv => FootprintBounded
    BY Zenon DEF FootInv
  <1>4. QED
    BY <1>1, <1>2, <1>3, PTL DEF Spec

------------------------------------------------------------------------------
(* Strings.                                                                *)

\* What Compare returns.
Compared(a, b) ==
    [equal |-> string_equals(a, b), cont |-> strcont(a, b),
     lengths |-> [n \in 1 .. Len(a) + 1 |-> string_ca_max(a, n).length]]

\* The inductive invariant of StringsSpec.
StringsInv ==
    /\ call.over \in BOOLEAN
    /\ call.fn = "compare" =>
         in.a \in Texts /\ in.b \in Texts /\ out = Compared(in.a, in.b)

(***************************************************************************)
(* A set of places has a first one.                                        *)
(***************************************************************************)
LEMMA FirstPlaceOf ==
    ASSUME NEW T, T \subseteq Nat, T # {}
    PROVE  \E i \in T : \A j \in T : i <= j
<1> DEFINE R == OpToRel(<, Nat)
<1>1. IsWellFoundedOn(R, Nat)
  BY NatLessThanWellFounded, Zenon
<1>2. \A x, y \in Nat : x < y => <<x, y>> \in R
  BY DEF OpToRel
<1> HIDE DEF R
<1>3. PICK i \in T : \A j \in T : ~(<<j, i>> \in R)
  BY <1>1, WFMin, Zenon
<1>4. \A j \in T : ~(j < i)
  BY <1>2, <1>3, Zenon
<1> QED
  BY <1>4

(***************************************************************************)
(* Strings with the same characters at the same places are equal.          *)
(***************************************************************************)
LEMMA SameText ==
    ASSUME NEW a \in Seq(Nat \ {0}), NEW b \in Seq(Nat \ {0}), Len(a) = Len(b),
           \A n \in 1 .. Len(a) : a[n] = b[n]
    PROVE  a = b
BY SMTT(30)

(***************************************************************************)
(* strcmp finds a difference exactly between different strings.            *)
(***************************************************************************)
LEMMA StrcmpRight ==
    ASSUME NEW a \in Seq(Nat \ {0}), NEW b \in Seq(Nat \ {0})
    PROVE  strcmp(a, b) <=> a # b
<1>1. strcmp(a, b) => a # b
  BY Zenon DEF strcmp
<1>2. ASSUME a # b
      PROVE  strcmp(a, b)
  <2>1. PICK T : T = {n \in 1 .. Len(a) + 1 : CharAt(a, n) # CharAt(b, n)}
    BY Zenon
  <2>2. T # {}
    <3>1. /\ Len(a) \in Nat /\ Len(b) \in Nat
          /\ \A n \in 1 .. Len(a) : a[n] # 0 /\ CharAt(a, n) = a[n]
          /\ \A n \in 1 .. Len(b) : b[n] # 0 /\ CharAt(b, n) = b[n]
          /\ CharAt(a, Len(a) + 1) = 0 /\ CharAt(b, Len(b) + 1) = 0
      BY DEF CharAt
    <3>2. CASE Len(a) = Len(b)
      <4>1. PICK n \in 1 .. Len(a) : a[n] # b[n]
        BY <1>2, <3>2, SameText, Zenon
      <4>2. n \in 1 .. Len(a) + 1 /\ n \in 1 .. Len(b)
        BY <3>1, <3>2, <4>1
      <4>3. CharAt(a, n) # CharAt(b, n)
        BY <3>1, <4>1, <4>2, Zenon
      <4> QED
        BY <2>1, <4>2, <4>3, Zenon
    <3>3. CASE Len(a) < Len(b)
      <4>1. Len(a) + 1 \in 1 .. Len(b) /\ Len(a) + 1 \in 1 .. Len(a) + 1
        BY <3>1, <3>3
      <4>2. CharAt(a, Len(a) + 1) # CharAt(b, Len(a) + 1)
        BY <3>1, <4>1, Zenon
      <4> QED
        BY <2>1, <4>1, <4>2, Zenon
    <3>4. CASE Len(b) < Len(a)
      <4>1. Len(b) + 1 \in 1 .. Len(a) /\ Len(b) + 1 \in 1 .. Len(a) + 1
        BY <3>1, <3>4
      <4>2. CharAt(a, Len(b) + 1) # CharAt(b, Len(b) + 1)
        BY <3>1, <4>1, Zenon
      <4> QED
        BY <2>1, <4>1, <4>2, Zenon
    <3> QED
      BY <3>1, <3>2, <3>3, <3>4
  <2>3. T \subseteq Nat
    BY <2>1
  <2>4. PICK n \in T : \A j \in T : n <= j
    BY <2>2, <2>3, FirstPlaceOf, Zenon
  <2>5. n \in 1 .. Len(a) + 1 /\ CharAt(a, n) # CharAt(b, n)
    BY <2>1, <2>4, Zenon
  <2>6. ASSUME NEW m \in 1 .. n - 1
        PROVE  CharAt(a, m) # 0 /\ CharAt(a, m) = CharAt(b, m)
    <3>1. m \in 1 .. Len(a) + 1 /\ m \in 1 .. Len(a) /\ ~(n <= m)
      BY <2>5
    <3>2. m \notin T
      BY <2>4, <3>1, Zenon
    <3>3. CharAt(a, m) = CharAt(b, m)
      BY <2>1, <3>1, <3>2, Zenon
    <3>4. CharAt(a, m) # 0
      BY <3>1 DEF CharAt
    <3> QED
      BY <3>3, <3>4
  <2> QED
    BY <2>5, <2>6, Zenon DEF strcmp, Agree
<1> QED
  BY <1>1, <1>2

\* How far strcont's inner loop comes from place n of a.
Stops(a, b, n, k) ==
    /\ \A m \in 1 .. k : CharAt(a, n + m - 1) = b[m]
    /\ k = Len(b) \/ CharAt(a, n + k) # b[k + 1]

(***************************************************************************)
(* strcont's inner loop comes to the end of b exactly if b stands at place *)
(* n of a.                                                                 *)
(***************************************************************************)
LEMMA StopsAt ==
    ASSUME NEW a \in Seq(Nat \ {0}), NEW b \in Seq(Nat \ {0}), NEW n \in 1 .. Len(a)
    PROVE  (CHOOSE k \in 0 .. Len(b) : Stops(a, b, n, k)) = Len(b)
             <=> \A m \in 1 .. Len(b) : CharAt(a, n + m - 1) = b[m]
<1>0. PICK agreed : agreed = CHOOSE k \in 0 .. Len(b) : Stops(a, b, n, k)
  BY Zenon
<1>1. Len(b) \in Nat /\ Len(b) \in 0 .. Len(b)
  OBVIOUS
<1>2. CASE \A m \in 1 .. Len(b) : CharAt(a, n + m - 1) = b[m]
  <2>1. Stops(a, b, n, Len(b))
    BY <1>2, Zenon DEF Stops
  <2>2. agreed \in 0 .. Len(b) /\ Stops(a, b, n, agreed)
    BY <1>0, <1>1, <2>1, Zenon
  <2>3. agreed # Len(b) => agreed + 1 \in 1 .. Len(b) /\ n + (agreed + 1) - 1 = n + agreed
    BY <1>1, <2>2
  <2>4. agreed = Len(b)
    BY <1>2, <2>2, <2>3, Zenon DEF Stops
  <2> QED
    BY <1>0, <1>2, <2>4, Zenon
<1>3. CASE ~\A m \in 1 .. Len(b) : CharAt(a, n + m - 1) = b[m]
  <2>1. PICK T : T = {m \in 1 .. Len(b) : CharAt(a, n + m - 1) # b[m]}
    BY Zenon
  <2>2. T # {} /\ T \subseteq Nat
    <3>1. T # {}
      BY <1>3, <2>1, Zenon
    <3>2. T \subseteq Nat
      BY <2>1
    <3> QED
      BY <3>1, <3>2
  <2>3. PICK m \in T : \A j \in T : m <= j
    BY <2>2, FirstPlaceOf, Zenon
  <2>4. m \in 1 .. Len(b) /\ CharAt(a, n + m - 1) # b[m]
    BY <2>1, <2>3, Zenon
  <2>5. PICK k : k = m - 1
    BY Zenon
  <2>6. k \in 0 .. Len(b) /\ m = k + 1 /\ n + m - 1 = n + k
    BY <1>1, <2>4, <2>5
  <2>7. ASSUME NEW j \in 1 .. k
        PROVE  CharAt(a, n + j - 1) = b[j]
    <3>1. j \in 1 .. Len(b) /\ ~(m <= j)
      BY <1>1, <2>6
    <3> QED
      BY <2>1, <2>3, <3>1, Zenon
  <2>8. Stops(a, b, n, k)
    BY <2>4, <2>6, <2>7, Zenon DEF Stops
  <2>9. Stops(a, b, n, agreed)
    BY <1>0, <2>6, <2>8, Zenon
  <2>10. agreed # Len(b)
    BY <1>3, <2>9, Zenon DEF Stops
  <2> QED
    BY <1>0, <1>3, <2>10, Zenon
<1> QED
  BY <1>2, <1>3

(***************************************************************************)
(* strcont finds a part at any place of a string.                          *)
(***************************************************************************)
LEMMA StrcontRight ==
    ASSUME NEW a \in Seq(Nat \ {0}), NEW b \in Seq(Nat \ {0}), a # <<>>
    PROVE  strcont(a, b) <=> \E n \in 0 .. Len(a) - Len(b) :
                               b = [m \in 1 .. Len(b) |-> a[n + m]]
<1>1. strcont(a, b) <=> \E n \in 1 .. Len(a) :
                          \A m \in 1 .. Len(b) : CharAt(a, n + m - 1) = b[m]
  <2>1. strcont(a, b) <=> \E n \in 1 .. Len(a) :
                            (CHOOSE k \in 0 .. Len(b) : Stops(a, b, n, k)) = Len(b)
    BY Zenon DEF strcont, Stops
  <2> QED
    BY <2>1, StopsAt, Zenon
<1>2. /\ Len(a) \in Nat \ {0} /\ Len(b) \in Nat
      /\ \A n \in 1 .. Len(a) : a[n] # 0
      /\ \A n \in 1 .. Len(b) : b[n] # 0
  OBVIOUS
<1>3. ASSUME NEW n \in 1 .. Len(a), \A m \in 1 .. Len(b) : CharAt(a, n + m - 1) = b[m]
      PROVE  \E k \in 0 .. Len(a) - Len(b) : b = [m \in 1 .. Len(b) |-> a[k + m]]
  <2>1. PICK k : k = n - 1
    BY Zenon
  <2>2. k \in Nat /\ k + 1 <= Len(a) /\ \A m \in 1 .. Len(b) : n + m - 1 = k + m /\ k + m \in Nat
    BY <1>2, <2>1
  <2>3. ASSUME NEW m \in 1 .. Len(b)
        PROVE  k + m <= Len(a) /\ a[k + m] = b[m]
    <3>1. CharAt(a, k + m) = b[m] /\ b[m] # 0
      BY <1>2, <1>3, <2>2, Zenon
    <3> QED
      BY <3>1, Zenon DEF CharAt
  <2>4. k \in 0 .. Len(a) - Len(b)
    <3>1. CASE Len(b) = 0
      BY <1>2, <2>2, <3>1
    <3>2. CASE Len(b) # 0
      <4>1. Len(b) \in 1 .. Len(b)
        BY <1>2, <3>2
      <4>2. k + Len(b) <= Len(a)
        BY <2>3, <4>1, Zenon
      <4> QED
        BY <1>2, <2>2, <4>2
    <3> QED
      BY <3>1, <3>2
  <2>5. b = [m \in 1 .. Len(b) |-> a[k + m]]
    BY <2>3
  <2> QED
    BY <2>4, <2>5, Zenon
<1>4. ASSUME NEW k \in 0 .. Len(a) - Len(b), b = [m \in 1 .. Len(b) |-> a[k + m]]
      PROVE  \E n \in 1 .. Len(a) : \A m \in 1 .. Len(b) : CharAt(a, n + m - 1) = b[m]
  <2>1. CASE Len(b) = 0
    <3>1. 1 \in 1 .. Len(a) /\ \A m \in 1 .. Len(b) : FALSE
      BY <1>2, <2>1
    <3> QED
      BY <3>1, Zenon
  <2>2. CASE Len(b) # 0
    <3>1. PICK n : n = k + 1
      BY Zenon
    <3>2. n \in 1 .. Len(a)
      BY <1>2, <1>4, <2>2, <3>1, SMTT(30)
    <3>3. ASSUME NEW m \in 1 .. Len(b)
          PROVE  CharAt(a, n + m - 1) = b[m]
      <4>1. n + m - 1 = k + m /\ k + m <= Len(a)
        BY <1>2, <1>4, <3>1
      <4>2. b[m] = a[k + m]
        BY <1>4
      <4> QED
        BY <4>1, <4>2 DEF CharAt
    <3> QED
      BY <3>2, <3>3, Zenon
  <2> QED
    BY <2>1, <2>2
<1> QED
  BY <1>1, <1>3, <1>4, Zenon

(***************************************************************************)
(* What a call of the string functions answers is what the properties of   *)
(* strings ask.                                                            *)
(***************************************************************************)
LEMMA StringsRight ==
    ASSUME StringsInv
    PROVE  StringsCompared
<1>1. SUFFICES ASSUME Returned("compare")
               PROVE  /\ out.equal = (in.a = in.b)
                      /\ in.a # <<>> =>
                           out.cont = \E n \in 0 .. Len(in.a) - Len(in.b) :
                                        in.b = [m \in 1 .. Len(in.b) |-> in.a[n + m]]
                      /\ \A n \in 1 .. Len(in.a) + 1 :
                           \/ out.lengths[n] = n /\ n <= Len(in.a)
                           \/ out.lengths[n] = Len(in.a) /\ Len(in.a) <= n
  BY Zenon DEF StringsCompared
<1>2. in.a \in Texts /\ in.b \in Texts /\ out = Compared(in.a, in.b)
  BY <1>1, Zenon DEF StringsInv, Returned
<1>3. in.a \in Seq(Nat \ {0}) /\ in.b \in Seq(Nat \ {0})
  BY <1>2, TextsAssumption, Zenon
<1>4. /\ out.equal = string_equals(in.a, in.b)
      /\ out.cont = strcont(in.a, in.b)
      /\ out.lengths = [n \in 1 .. Len(in.a) + 1 |-> string_ca_max(in.a, n).length]
  BY <1>2, Zenon DEF Compared
<1>5. strcmp(in.a, in.b) <=> in.a # in.b
  BY <1>3, StrcmpRight, Zenon
<1>6. out.equal = (in.a = in.b)
  BY <1>4, <1>5, Zenon DEF string_equals, strcmp
<1>7. in.a # <<>> =>
        out.cont = \E n \in 0 .. Len(in.a) - Len(in.b) :
                     in.b = [m \in 1 .. Len(in.b) |-> in.a[n + m]]
  <2>1. in.a # <<>> =>
          (strcont(in.a, in.b) <=> \E n \in 0 .. Len(in.a) - Len(in.b) :
                                     in.b = [m \in 1 .. Len(in.b) |-> in.a[n + m]])
    BY <1>3, StrcontRight, Zenon
  <2>2. strcont(in.a, in.b) \in BOOLEAN
    BY Zenon DEF strcont
  <2> QED
    BY <1>4, <2>1, <2>2, Zenon
<1>8. ASSUME NEW n \in 1 .. Len(in.a) + 1
      PROVE  \/ out.lengths[n] = n /\ n <= Len(in.a)
             \/ out.lengths[n] = Len(in.a) /\ Len(in.a) <= n
  <2>1. out.lengths[n] = string_ca_max(in.a, n).length
    BY <1>4, Zenon
  <2>2. string_ca_max(in.a, n).length = compute_length(in.a, n)
    BY Zenon DEF string_ca_max
  <2>3. Len(in.a) \in Nat
    BY <1>3
  <2> QED
    BY <2>1, <2>2, <2>3 DEF compute_length
<1> QED
  BY <1>6, <1>7, <1>8, Zenon

(***************************************************************************)
(* A call of the string functions has returned what they compute of two    *)
(* of the texts.                                                           *)
(***************************************************************************)
THEOREM StringsInvariant == StringsSpec => []StringsInv
<1>1. CallsInit => StringsInv
  <2>1. SUFFICES ASSUME call = [fn |-> "none", in |-> 0, out |-> 0, over |-> TRUE]
                 PROVE  StringsInv
    BY Zenon DEF CallsInit, None
  <2>2. call.fn = "none" /\ call.over = TRUE
    BY <2>1, Zenon
  <2>3. call.fn \notin {"compare"}
    BY <2>2, Zenon
  <2> QED
    BY <2>2, <2>3, Zenon DEF StringsInv
<1>2. ASSUME StringsInv, Compare \/ Return
      PROVE  StringsInv'
  <2>1. CASE Compare
    <3>1. PICK a \in Texts, b \in Texts :
            Compute("compare", [a |-> a, b |-> b], Compared(a, b))
      BY <2>1, Zenon DEF Compare, Compared
    <3>2. PICK i, o : i = [a |-> a, b |-> b] /\ o = Compared(a, b)
      BY Zenon
    <3>3. i.a = a /\ i.b = b
      BY <3>2, Zenon
    <3>4. call' = [fn |-> "compare", in |-> i, out |-> o, over |-> TRUE]
      BY <3>1, <3>2, Zenon DEF Compute
    <3>5. call'.fn = "compare" /\ in' = i /\ out' = o /\ call'.over = TRUE
      BY <3>4, Zenon DEF in, out
    <3> QED
      BY <3>2, <3>3, <3>4, <3>5, Zenon DEF StringsInv, in, out
  <2>2. CASE Return
    BY <2>2, Zenon DEF Return, StringsInv, None
  <2> QED
    BY <1>2, <2>1, <2>2, Zenon
<1>3. ASSUME StringsInv, UNCHANGED call
      PROVE  StringsInv'
  BY <1>3, Zenon DEF StringsInv, in, out
<1> QED
  BY <1>1, <1>2, <1>3, PTL DEF StringsSpec

(***************************************************************************)
(* string_equals is equality, strcont finds every part, string_ca_max      *)
(* stops at both limits, for strings of any length.                        *)
(***************************************************************************)
THEOREM StringsAreCompared == StringsSpec => []StringsCompared
<1>1. StringsInv => StringsCompared
  BY StringsRight
<1> QED
  BY <1>1, StringsInvariant, PTL
=============================================================================
