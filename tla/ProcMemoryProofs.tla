-------------------------- MODULE ProcMemoryProofs --------------------------
(***************************************************************************)
(* Proofs about ProcMemory for every page and block size, image, RAM and   *)
(* set of request sizes: pages are handed out once and mapped as asked,    *)
(* mmu_init's map is kept, and the search leaves no holes.                 *)
(***************************************************************************)
EXTENDS ProcMemory, FiniteSetTheorems, SequenceTheorems, TLAPS

------------------------------------------------------------------------------
(* Division by a table's or a page's size.                                 *)

(***************************************************************************)
(* The quotient, bounded by its multiples.                                 *)
(***************************************************************************)
LEMMA DivBounds ==
    ASSUME NEW a \in Int, NEW b \in Nat \ {0}
    PROVE  a \div b \in Int /\ (a \div b) * b <= a /\ a < (a \div b) * b + b
  OBVIOUS

(***************************************************************************)
(* The quotient of a multiple.                                             *)
(***************************************************************************)
LEMMA DivMultiple ==
    ASSUME NEW k \in Int, NEW b \in Nat \ {0}
    PROVE  (k * b) \div b = k
  OBVIOUS

(***************************************************************************)
(* Division keeps the order.                                               *)
(***************************************************************************)
LEMMA DivMonotone ==
    ASSUME NEW a \in Int, NEW c \in Int, NEW b \in Nat \ {0}, a <= c
    PROVE  a \div b <= c \div b
  OBVIOUS

(***************************************************************************)
(* One divisor more is one more in the quotient.                           *)
(***************************************************************************)
LEMMA DivStep ==
    ASSUME NEW a \in Int, NEW b \in Nat \ {0}
    PROVE  (a + b) \div b = (a \div b) + 1
  OBVIOUS

(***************************************************************************)
(* Below a multiple the quotient is smaller.                               *)
(***************************************************************************)
LEMMA DivLess ==
    ASSUME NEW a \in Int, NEW k \in Int, NEW b \in Nat \ {0}, a < k * b
    PROVE  a \div b < k
  OBVIOUS

------------------------------------------------------------------------------
(* The layout.                                                             *)

(***************************************************************************)
(* User RAM starts right where the image ends and ends within the RAM, and *)
(* the section of shared code lies between the last kernel block and it.   *)
(***************************************************************************)
LEMMA Layout ==
    /\ kcode_end \in Nat /\ kernel_start <= kcode_end
    /\ shared_start = kcode_end + BLOCK
    /\ kfull_end \in Nat /\ shared_start + SharedPages <= kfull_end
    /\ user_ram_start = kfull_end
    /\ user_ram_end \in Nat /\ user_ram_end <= RamEnd
<1> USE LayoutAssumption
<1>1. ASSUME NEW v \in Nat
      PROVE  Align(v) \in Nat /\ v <= Align(v) /\ \E k \in Nat : Align(v) = k * BLOCK
  <2> DEFINE q == (v + BLOCK - 1) \div BLOCK
  <2>1. q \in Int /\ q * BLOCK <= v + BLOCK - 1 /\ v + BLOCK - 1 < q * BLOCK + BLOCK
    BY DivBounds
  <2>2. q \in Nat
    OBVIOUS
  <2> HIDE DEF q
  <2>3. Align(v) = q * BLOCK
    BY DEF Align, q
  <2>4. q * BLOCK \in Nat
    BY <2>2
  <2> QED
    BY <2>1, <2>2, <2>3, <2>4
<1>2. kcode_end \in Nat /\ kernel_start <= kcode_end
  BY <1>1 DEF kcode_end
<1>3. shared_start = kcode_end + BLOCK /\ shared_start + SharedPages \in Nat
  BY <1>2 DEF shared_start
<1>4. kfull_end \in Nat /\ shared_start + SharedPages <= kfull_end
  BY <1>1, <1>3 DEF kfull_end
<1>5. user_ram_start = kfull_end
  <2>1. PICK k \in Nat : kfull_end = k * BLOCK
    BY <1>1, <1>3, Zenon DEF kfull_end
  <2>2. kfull_end \div BLOCK = k
    BY <2>1, DivMultiple
  <2> QED
    BY <2>1, <2>2 DEF user_ram_start
<1>6. user_ram_end \in Nat /\ user_ram_end <= RamEnd
  <2>1. RamEnd \div BLOCK \in Nat
    OBVIOUS
  <2>2. (RamEnd \div BLOCK) * BLOCK <= RamEnd
    BY DivBounds
  <2> QED
    BY <2>1, <2>2 DEF user_ram_end
<1> QED
  BY <1>2, <1>3, <1>4, <1>5, <1>6

(***************************************************************************)
(* Two runs of pages of which the second starts where the first ends are   *)
(* one run.                                                                *)
(***************************************************************************)
LEMMA Adjoined ==
    ASSUME NEW a \in Nat, NEW u \in Nat, NEW n \in Nat
    PROVE  (a .. a + u - 1) \cup (a + u .. a + u + n - 1) = a .. a + (u + n) - 1
OBVIOUS

(***************************************************************************)
(* The 2MB blocks of the kernel hold no device page, no page of the shared *)
(* section and no page of user RAM.                                        *)
(***************************************************************************)
LEMMA OutsideBlocks ==
    ASSUME NEW v \in Nat, v < kernel_start \/ v >= shared_start
    PROVE  v \div BLOCK \notin KernelBlocks
<1> USE LayoutAssumption
<1>0. v \div BLOCK \in Int /\ kernel_start \div BLOCK \in Int /\ kcode_end \div BLOCK \in Int
  BY DivBounds, Layout
<1>1. CASE v < kernel_start
  <2>1. kernel_start = (kernel_start \div BLOCK) * BLOCK
    OBVIOUS
  <2>2. v \div BLOCK < kernel_start \div BLOCK
    <3> DEFINE k == kernel_start \div BLOCK
    <3>1. k \in Int /\ v < k * BLOCK
      BY <1>0, <1>1, <2>1
    <3> HIDE DEF k
    <3>2. v \div BLOCK < k
      BY <3>1, DivLess
    <3> QED
      BY <3>2 DEF k
  <2> QED
    BY <1>0, <2>2 DEF KernelBlocks
<1>2. CASE v >= shared_start
  <2>0. kcode_end \in Int /\ kcode_end + BLOCK \in Int /\ kcode_end + BLOCK <= v
    BY <1>2, Layout
  <2>1. (kcode_end + BLOCK) \div BLOCK = (kcode_end \div BLOCK) + 1
    BY <2>0, DivStep, Zenon
  <2>2. (kcode_end + BLOCK) \div BLOCK <= v \div BLOCK
    BY <2>0, DivMonotone
  <2> QED
    BY <1>0, <2>1, <2>2 DEF KernelBlocks
<1> QED
  BY <1>1, <1>2

------------------------------------------------------------------------------
(* The tables.                                                             *)

\* The fields of a table.
Shaped(t) == t = [tables |-> t.tables, blocks |-> t.blocks, leaf |-> t.leaf]

(***************************************************************************)
(* What mmu_map_4kb does to a table: it enters the pages that lie in no    *)
(* block, with descriptors for the level, and leaves the others alone.     *)
(***************************************************************************)
LEMMA Map4kb ==
    ASSUME NEW t, Shaped(t), NEW vs, NEW level, NEW r, r = mmu_map_4kb(t, vs, level)
    PROVE  /\ Shaped(r) /\ r.blocks = t.blocks
           /\ DOMAIN r.leaf = DOMAIN t.leaf \cup {v \in vs : v \div BLOCK \notin t.blocks}
           /\ \A v \in vs : v \div BLOCK \notin t.blocks => r.leaf[v] = Descriptor(v, level)
           /\ \A v \in DOMAIN t.leaf : v \notin vs \/ v \div BLOCK \in t.blocks
                                       => r.leaf[v] = t.leaf[v]
           /\ r.tables = t.tables \cup
                         UNION {Path(v) : v \in {w \in vs : w \div BLOCK \notin t.blocks}}
<1> DEFINE free == {v \in vs : v \div BLOCK \notin t.blocks}
           new == [v \in free |-> Descriptor(v, level)]
<1>1. r = [tables |-> t.tables \cup UNION {Path(v) : v \in free}, blocks |-> t.blocks,
           leaf |-> Stored(new, t.leaf)]
  BY Zenon DEF mmu_map_4kb, Shaped
<1>2. Shaped(r) /\ r.blocks = t.blocks /\ r.leaf = Stored(new, t.leaf)
      /\ r.tables = t.tables \cup UNION {Path(v) : v \in free}
  BY <1>1 DEF Shaped
<1>3. DOMAIN Stored(new, t.leaf) = free \cup DOMAIN t.leaf
  BY DEF Stored
<1>4. \A v \in free : Stored(new, t.leaf)[v] = Descriptor(v, level)
  BY DEF Stored
<1>5. \A v \in DOMAIN t.leaf : v \notin free => Stored(new, t.leaf)[v] = t.leaf[v]
  BY DEF Stored
<1> QED
  BY <1>2, <1>3, <1>4, <1>5, Zenon

(***************************************************************************)
(* What proc_map_4kb does to its table: it enters the pages.               *)
(***************************************************************************)
LEMMA ProcMap4kb ==
    ASSUME NEW t, Shaped(t), NEW vs, NEW r, r = proc_map_4kb(t, vs)
    PROVE  /\ Shaped(r) /\ DOMAIN r.leaf = DOMAIN t.leaf \cup vs
           /\ r.tables = t.tables \cup UNION {Path(v) : v \in vs}
<1> DEFINE new == [v \in vs |-> v]
<1>1. r = [tables |-> t.tables \cup UNION {Path(v) : v \in vs}, blocks |-> t.blocks,
           leaf |-> Stored(new, t.leaf)]
  BY Zenon DEF proc_map_4kb, Shaped
<1>2. Shaped(r) /\ r.leaf = Stored(new, t.leaf)
      /\ r.tables = t.tables \cup UNION {Path(v) : v \in vs}
  BY <1>1 DEF Shaped
<1>3. DOMAIN Stored(new, t.leaf) = vs \cup DOMAIN t.leaf
  BY DEF Stored
<1> QED
  BY <1>2, <1>3, Zenon

------------------------------------------------------------------------------
(* The inductive invariant.                                                *)

\* Every leaf has its tables, and a 2MB entry is a block or a table.
Reached(t) == Shaped(t) /\ \A v \in DOMAIN t.leaf : Path(v) \subseteq t.tables
Apart(t) == \A b \in t.blocks : <<1, b>> \notin t.tables

Levels(t) == \A v \in DOMAIN t.leaf : t.leaf[v].level \in Level

Tables == Reached(mem_table) /\ Reached(page_table) /\ Apart(page_table) /\ Levels(page_table)

\* What mmu_init mapped.
BootMap ==
    /\ page_table.blocks = KernelBlocks
    /\ DevicePages \cup SharedRange \subseteq DOMAIN page_table.leaf

\* The pages handed out are the first n of user RAM.
Filled(n) ==
    /\ DOMAIN mem_table.leaf = user_ram_start .. user_ram_start + n - 1
    /\ n # 0 => user_ram_start + n <= user_ram_end
Dense == \E n \in Nat : Filled(n)

Grant == [va : Nat, size : Nat \ {0}, level : Level]

Grants ==
    /\ given \in Seq(Grant)
    /\ \A i \in 1 .. Len(given) : PagesHeld(given[i]) \subseteq DOMAIN mem_table.leaf
    /\ \A i, j \in 1 .. Len(given) : i # j => PagesHeld(given[i]) \cap PagesHeld(given[j]) = {}

MemInv ==
    /\ Tables /\ Dense /\ Grants /\ GivenMapped /\ FailsOnlyWhenFull
    /\ mapped => BootMap
    /\ ~mapped => given = <<>>

(***************************************************************************)
(* The tables on the walk to a page include one L4 table, its own.         *)
(***************************************************************************)
LEMMA PathFact ==
    ASSUME NEW v, NEW b, <<1, b>> \in Path(v)
    PROVE  b = v \div BLOCK
  BY DEF Path

(***************************************************************************)
(* mmu_map_4kb keeps the shape of a table.                                 *)
(***************************************************************************)
LEMMA Map4kbKeeps ==
    ASSUME NEW t, Reached(t), Apart(t), Levels(t), NEW vs, NEW level \in Level
    PROVE  LET r == mmu_map_4kb(t, vs, level) IN Reached(r) /\ Apart(r) /\ Levels(r)
<1> DEFINE r == mmu_map_4kb(t, vs, level)
           free == {v \in vs : v \div BLOCK \notin t.blocks}
<1>1. /\ Shaped(r) /\ r.blocks = t.blocks
      /\ DOMAIN r.leaf = DOMAIN t.leaf \cup free
      /\ \A v \in free : r.leaf[v] = Descriptor(v, level)
      /\ \A v \in DOMAIN t.leaf : v \notin free => r.leaf[v] = t.leaf[v]
      /\ r.tables = t.tables \cup UNION {Path(v) : v \in free}
  BY Map4kb DEF Reached
<1> HIDE DEF r
<1>2. Reached(r)
  BY <1>1 DEF Reached
<1>3. Apart(r)
  <2>1. ASSUME NEW b \in t.blocks, NEW v \in free PROVE <<1, b>> \notin Path(v)
    BY PathFact
  <2>2. \A b \in t.blocks : <<1, b>> \notin UNION {Path(v) : v \in free}
    BY <2>1
  <2> HIDE DEF free
  <2> QED
    BY <1>1, <2>2, Zenon DEF Apart
<1>4. Levels(r)
  <2> SUFFICES ASSUME NEW v \in DOMAIN r.leaf PROVE r.leaf[v].level \in Level
    BY DEF Levels
  <2>1. CASE v \in free
    <3>1. r.leaf[v] = Descriptor(v, level)
      BY <1>1, <2>1
    <3> QED
      BY <3>1 DEF Descriptor
  <2>2. CASE v \in DOMAIN t.leaf /\ v \notin free
    BY <1>1, <2>2 DEF Levels
  <2> QED
    BY <1>1, <2>1, <2>2
<1> QED
  BY <1>2, <1>3, <1>4 DEF r

------------------------------------------------------------------------------
(* The search of alloc_proc_mem.                                           *)

(***************************************************************************)
(* The pages of a request: none for an empty one, else those of its bytes. *)
(***************************************************************************)
LEMMA PagesOfFacts ==
    ASSUME NEW size \in Nat
    PROVE  /\ PagesOf(size) \in Nat
           /\ size # 0 => PagesOf(size) = ((size - 1) \div PAGE) + 1
<1> USE LayoutAssumption
<1>1. CASE size = 0
  <2>1. PAGE - 1 \in Nat /\ PAGE \in Nat \ {0}
    OBVIOUS
  <2>2. (PAGE - 1) \div PAGE \in Nat
    <3> DEFINE p == PAGE - 1
    <3> HIDE DEF p
    <3>1. p \in Nat
      BY <2>1 DEF p
    <3>2. p \div PAGE \in Nat
      BY <2>1, <3>1
    <3> QED
      BY <3>2 DEF p
  <2>3. size + PAGE - 1 = PAGE - 1
    BY <1>1
  <2> QED
    <3>1. PagesOf(size) = (PAGE - 1) \div PAGE
      BY <2>3, Zenon DEF PagesOf
    <3> QED
      BY <1>1, <2>2, <3>1, Zenon
<1>2. CASE size # 0
  <2> DEFINE last == size - 1
  <2>1. last \in Nat /\ size + PAGE - 1 = last + PAGE /\ PAGE \in Nat \ {0}
    BY <1>2
  <2>2. PagesOf(size) = (last + PAGE) \div PAGE
    BY <2>1, Zenon DEF PagesOf
  <2> HIDE DEF last
  <2>3. (last + PAGE) \div PAGE = (last \div PAGE) + 1
    <3>1. last \in Int
      BY <2>1
    <3> QED
      BY <2>1, <3>1, DivStep, Zenon
  <2>4. last \div PAGE \in Nat
    BY <2>1
  <2>5. (last \div PAGE) + 1 \in Nat
    BY <2>4
  <2> QED
    BY <2>2, <2>3, <2>5, Zenon DEF last
<1> QED
  BY <1>1, <1>2

(***************************************************************************)
(* The search finds room when there is room after the pages handed out,    *)
(* and then takes the next of them.                                        *)
(***************************************************************************)
LEMMA Search ==
    ASSUME NEW n \in Nat, NEW used \in Nat, Filled(used)
    PROVE  /\ Free(n) = {} => used + n > user_ram_end - user_ram_start
           /\ Free(n) # {} => /\ Min(Free(n)) = user_ram_start + (IF n = 0 THEN 0 ELSE used)
                             /\ Min(Free(n)) + n <= user_ram_end
<1> DEFINE first == user_ram_start + (IF n = 0 THEN 0 ELSE used)
<1>0. user_ram_start \in Nat /\ user_ram_end \in Nat /\ first \in Nat
  BY Layout
<1>1. ASSUME NEW va \in Free(n) PROVE va \in Int /\ first <= va /\ va + n <= user_ram_end
  <2>1. /\ va \in Int /\ user_ram_start <= va /\ va + n <= user_ram_end
        /\ va .. va + n - 1 \cap user_ram_start .. user_ram_start + used - 1 = {}
    BY <1>0, <1>1 DEF Free, Filled
  <2>2. CASE n # 0
    <3>1. va \in va .. va + n - 1
      BY <2>1, <2>2
    <3>2. va \notin user_ram_start .. user_ram_start + used - 1
      BY <2>1, <3>1
    <3> QED
      BY <1>0, <2>1, <2>2, <3>2
  <2> QED
    BY <1>0, <2>1, <2>2
<1>2. first + n <= user_ram_end => first \in Free(n)
  <2> SUFFICES ASSUME first + n <= user_ram_end PROVE first \in Free(n)
    OBVIOUS
  <2>1. first .. first + n - 1 \cap user_ram_start .. user_ram_start + used - 1 = {}
    BY <1>0
  <2>2. first \in user_ram_start .. user_ram_end - n
    BY <1>0
  <2> QED
    BY <2>1, <2>2 DEF Free, Filled
<1>3. Free(n) = {} => used + n > user_ram_end - user_ram_start
  BY <1>0, <1>2
<1>4. ASSUME Free(n) # {} PROVE Min(Free(n)) = first /\ first + n <= user_ram_end
  <2>1. PICK place : place \in Free(n)
    BY <1>4
  <2>2. first + n <= user_ram_end
    BY <1>0, <1>1, <2>1
  <2>3. first \in Free(n) /\ \A va \in Free(n) : first <= va
    BY <1>1, <1>2, <2>2
  <2> HIDE DEF first
  <2>4. Min(Free(n)) \in Free(n) /\ \A va \in Free(n) : Min(Free(n)) <= va
    BY <2>3 DEF Min
  <2>5. Min(Free(n)) <= first /\ first <= Min(Free(n)) /\ Min(Free(n)) \in Int
    BY <1>1, <2>3, <2>4
  <2> QED
    BY <1>0, <2>2, <2>5
<1> QED
  BY <1>3, <1>4

------------------------------------------------------------------------------
(* Every step keeps the invariant.                                         *)

(***************************************************************************)
(* At first nothing is mapped or handed out.                               *)
(***************************************************************************)
LEMMA InitMem == Init => MemInv
<1> SUFFICES ASSUME Init PROVE MemInv
  OBVIOUS
<1>e. DOMAIN <<>> = {} /\ Len(<<>>) = 0 /\ <<>> \in Seq(Grant)
  BY EmptySeq
<1>1. /\ Shaped(mem_table) /\ DOMAIN mem_table.leaf = {}
      /\ Shaped(page_table) /\ DOMAIN page_table.leaf = {} /\ page_table.blocks = {}
  BY <1>e DEF Init, EmptyTable, Shaped
<1>2. Tables
  BY <1>1 DEF Tables, Reached, Apart, Levels
<1>3. Filled(0)
  BY <1>1, Layout DEF Filled
<1>4. Grants /\ GivenMapped /\ given = <<>>
  BY <1>e DEF Init, Grants, GivenMapped
<1>5. result.va # 0
  BY Layout, LayoutAssumption DEF Init
<1> QED
  BY <1>2, <1>3, <1>4, <1>5 DEF MemInv, Dense, FailsOnlyWhenFull, Init

(***************************************************************************)
(* mmu_init maps the kernel, the devices and the shared section.           *)
(***************************************************************************)
LEMMA MmuInitKeeps ==
    ASSUME MemInv, mmu_init
    PROVE  MemInv'
<1> DEFINE t1 == mmu_map_2mb(EmptyTable, KernelBlocks)
           t2 == mmu_map_4kb(t1, DevicePages, "EL1")
           t3 == mmu_map_4kb(t2, SharedRange, "shared")
<1>e. DOMAIN <<>> = {} /\ Len(<<>>) = 0
  BY EmptySeq
<1>1. /\ Shaped(t1) /\ DOMAIN t1.leaf = {} /\ t1.blocks = KernelBlocks
      /\ Apart(t1)
  <2> DEFINE made == UNION {Path(b * BLOCK) : b \in KernelBlocks}
             gone == {<<1, b>> : b \in KernelBlocks}
  <2>1. t1 = [tables |-> ({} \cup made) \ gone, blocks |-> {} \cup KernelBlocks, leaf |-> <<>>]
    <3> DEFINE e == [tables |-> {}, blocks |-> {}, leaf |-> <<>>]
    <3>1. t1 = [e EXCEPT !.blocks = @ \cup KernelBlocks, !.tables = (@ \cup made) \ gone]
      BY Zenon DEF mmu_map_2mb, EmptyTable
    <3> HIDE DEF made, gone
    <3> QED
      BY <3>1, Zenon
  <2>2. \A b \in KernelBlocks : <<1, b>> \in gone
    OBVIOUS
  <2> HIDE DEF made, gone, t1
  <2> QED
    BY <1>e, <2>1, <2>2 DEF Shaped, Apart
<1> HIDE DEF t1
<1>2. Reached(t1) /\ Apart(t1) /\ Levels(t1)
  BY <1>1 DEF Reached, Levels
<1>3. Reached(t2) /\ Apart(t2) /\ Levels(t2)
  BY <1>2, Map4kbKeeps DEF Level
<1>4. /\ t2.blocks = KernelBlocks
      /\ {v \in DevicePages : v \div BLOCK \notin KernelBlocks} \subseteq DOMAIN t2.leaf
  <2>1. /\ t2.blocks = t1.blocks
        /\ DOMAIN t2.leaf = DOMAIN t1.leaf \cup {v \in DevicePages : v \div BLOCK \notin t1.blocks}
    BY <1>1, Map4kb
  <2> QED
    BY <1>1, <2>1
<1> HIDE DEF t2
<1>5. Reached(t3) /\ Apart(t3) /\ Levels(t3)
  BY <1>3, Map4kbKeeps DEF Level
<1>6. /\ t3.blocks = KernelBlocks
      /\ DOMAIN t2.leaf \subseteq DOMAIN t3.leaf
      /\ {v \in SharedRange : v \div BLOCK \notin KernelBlocks} \subseteq DOMAIN t3.leaf
  BY <1>3, <1>4, Map4kb DEF Reached
<1>7. \A v \in DevicePages \cup SharedRange : v \div BLOCK \notin KernelBlocks
  <2>1. \A v \in DevicePages : v \in Nat /\ v < kernel_start
    BY LayoutAssumption
  <2>2. \A v \in SharedRange : v \in Nat /\ v >= shared_start
    BY Layout, LayoutAssumption DEF SharedRange
  <2> QED
    BY <2>1, <2>2, OutsideBlocks, Zenon
<1> HIDE DEF t3
<1>8. /\ page_table' = t3 /\ UNCHANGED <<mem_table, result, given>> /\ mapped' /\ given = <<>>
  BY DEF mmu_init, MemInv, t1, t2, t3
<1>9. Tables' /\ BootMap'
  BY <1>4, <1>5, <1>6, <1>7, <1>8 DEF Tables, BootMap, MemInv, Reached, Shaped, Apart, Levels
<1>10. Dense' /\ Grants' /\ FailsOnlyWhenFull'
  BY <1>8 DEF MemInv, Dense, Filled, Grants, FailsOnlyWhenFull
<1>11. GivenMapped'
  BY <1>8, <1>e DEF GivenMapped
<1> QED
  BY <1>8, <1>9, <1>10, <1>11 DEF MemInv

(***************************************************************************)
(* A request that finds no room changes nothing, and there was none.       *)
(***************************************************************************)
LEMMA AllocFails ==
    ASSUME MemInv, NEW size \in Sizes, NEW kernel \in BOOLEAN,
           alloc_proc_mem(size, kernel), Free(PagesOf(size)) = {}
    PROVE  MemInv'
<1> DEFINE n == PagesOf(size)
<1>1. n \in Nat
  BY PagesOfFacts, LayoutAssumption
<1>2. result' = [pages |-> n, va |-> 0] /\ UNCHANGED <<mapped, mem_table, page_table, given>>
  BY DEF alloc_proc_mem
<1>3. PICK used \in Nat : Filled(used)
  BY DEF MemInv, Dense
<1>4. used + n > user_ram_end - user_ram_start
  BY <1>1, <1>3, Search
<1>5. Cardinality(DOMAIN mem_table.leaf) = used
  <2>1. user_ram_start \in Int /\ user_ram_start + used - 1 \in Int
    BY Layout
  <2>2. Cardinality(user_ram_start .. user_ram_start + used - 1)
          = IF user_ram_start > user_ram_start + used - 1 THEN 0
            ELSE (user_ram_start + used - 1) - user_ram_start + 1
    BY <2>1, FS_Interval, Zenon
  <2> QED
    BY <1>3, <2>1, <2>2 DEF Filled
<1> HIDE DEF n
<1>6. FailsOnlyWhenFull'
  BY <1>2, <1>4, <1>5 DEF FailsOnlyWhenFull
<1>7. Tables' /\ Dense' /\ Grants' /\ GivenMapped'
  BY <1>2, ZenonT(40) DEF MemInv, Tables, Reached, Shaped, Apart, Levels, Dense, Filled, Grants, GivenMapped
<1> QED
  BY <1>2, <1>6, <1>7 DEF MemInv, BootMap

(***************************************************************************)
(* A request that finds room takes pages nobody has, and maps them.        *)
(***************************************************************************)
LEMMA AllocSucceeds ==
    ASSUME MemInv, NEW size \in Sizes, NEW kernel \in BOOLEAN,
           alloc_proc_mem(size, kernel), Free(PagesOf(size)) # {}
    PROVE  /\ MemInv'
           /\ page_table'.blocks = page_table.blocks
           /\ \A v \in DOMAIN page_table.leaf :
                v < user_ram_start => /\ v \in DOMAIN page_table'.leaf
                                      /\ page_table'.leaf[v] = page_table.leaf[v]
<1> DEFINE n == PagesOf(size)
           level == IF kernel THEN "EL1" ELSE "EL0"
           va == Min(Free(n))
           vs == va .. va + n - 1
           g == [va |-> va, size |-> size, level |-> level]
<1>1. n \in Nat /\ size \in Nat /\ level \in Level
  BY PagesOfFacts, LayoutAssumption DEF Level
<1>2. /\ mapped /\ UNCHANGED mapped /\ result' = [pages |-> n, va |-> va]
      /\ mem_table' = proc_map_4kb(mem_table, vs)
      /\ page_table' = mmu_map_4kb(page_table, vs, level)
      /\ given' = IF size = 0 THEN given ELSE Append(given, g)
  BY Zenon DEF alloc_proc_mem
<1>3. PICK used \in Nat : Filled(used)
  BY DEF MemInv, Dense
<1>4. va = user_ram_start + (IF n = 0 THEN 0 ELSE used) /\ va + n <= user_ram_end
  BY <1>1, <1>3, Search
<1>m. size # 0 => n = ((size - 1) \div PAGE) + 1
  BY <1>1, PagesOfFacts
<1> HIDE DEF n, va, level, vs
<1>5. user_ram_start \in Nat /\ user_ram_end \in Nat /\ va \in Nat /\ user_ram_start <= va
  BY <1>1, <1>4, Layout
<1>6. vs \cap DOMAIN mem_table.leaf = {} /\ \A v \in vs : v \in Nat /\ v >= user_ram_start
  BY <1>1, <1>3, <1>4, <1>5 DEF Filled, vs
<1>7. Reached(mem_table') /\ DOMAIN mem_table'.leaf = DOMAIN mem_table.leaf \cup vs
  <2>1. /\ Shaped(mem_table') /\ DOMAIN mem_table'.leaf = DOMAIN mem_table.leaf \cup vs
        /\ mem_table'.tables = mem_table.tables \cup UNION {Path(v) : v \in vs}
    BY <1>2, ProcMap4kb, Zenon DEF MemInv, Tables, Reached
  <2> QED
    BY <2>1 DEF MemInv, Tables, Reached
<1>8. Reached(page_table') /\ Apart(page_table') /\ Levels(page_table')
  BY <1>1, <1>2, Map4kbKeeps, Zenon DEF MemInv, Tables
<1>9. \A v \in vs : v \div BLOCK \notin page_table.blocks
  <2>1. \A v \in vs : v \in Nat /\ v >= shared_start
    BY <1>6, Layout, LayoutAssumption
  <2>2. page_table.blocks = KernelBlocks
    BY <1>2, Zenon DEF MemInv, BootMap
  <2> QED
    BY <2>1, <2>2, OutsideBlocks
<1>10. /\ page_table'.blocks = page_table.blocks
       /\ DOMAIN page_table'.leaf = DOMAIN page_table.leaf \cup vs
       /\ \A v \in vs : page_table'.leaf[v] = Descriptor(v, level)
       /\ \A v \in DOMAIN page_table.leaf : v \notin vs => page_table'.leaf[v] = page_table.leaf[v]
  <2>1. Shaped(page_table)
    BY Zenon DEF MemInv, Tables, Reached
  <2> QED
    BY <1>2, <1>9, <2>1, Map4kb, SMTT(30)
<1>11. Filled(IF n = 0 THEN used ELSE used + n)'
  <2>1. CASE n = 0
    BY <1>3, <1>5, <1>7, <2>1, SMTT(30) DEF Filled, vs
  <2>2. CASE n # 0
    <3>1. DOMAIN mem_table'.leaf = user_ram_start .. user_ram_start + (used + n) - 1
      <4>1. DOMAIN mem_table.leaf = user_ram_start .. user_ram_start + used - 1
        BY <1>3, Zenon DEF Filled
      <4>2. vs = user_ram_start + used .. user_ram_start + used + n - 1
        BY <1>4, <2>2, Zenon DEF vs
      <4>3. (user_ram_start .. user_ram_start + used - 1)
                \cup (user_ram_start + used .. user_ram_start + used + n - 1)
              = user_ram_start .. user_ram_start + (used + n) - 1
        BY ONLY <1>1, <1>5, used \in Nat, Adjoined
      <4> QED
        BY <1>7, <4>1, <4>2, <4>3, Zenon
    <3> QED
      BY <1>1, <1>4, <1>5, <2>2, <3>1, SMTT(30) DEF Filled
  <2> QED
    BY <2>1, <2>2
<1>12. Dense'
  <2>1. (IF n = 0 THEN used ELSE used + n) \in Nat
    BY <1>1
  <2> QED
    BY <1>11, <2>1, Zenon DEF Dense, Filled
<1>13. size # 0 => PagesHeld(g) = vs /\ g \in Grant
  <2> SUFFICES ASSUME size # 0 PROVE PagesHeld(g) = vs /\ g \in Grant
    OBVIOUS
  <2> DEFINE q == (size - 1) \div PAGE
  <2>1. PagesHeld(g) = va .. va + q
    BY Zenon DEF PagesHeld
  <2>2. n = q + 1 /\ n \in Nat
    BY <1>1, <1>m, Zenon
  <2>3. q \in Int
    BY <1>1, LayoutAssumption
  <2> HIDE DEF q
  <2>4. va .. va + q = va .. va + n - 1
    BY <1>5, <2>2, <2>3
  <2> QED
    BY <1>1, <1>5, <2>1, <2>4, SMTT(30) DEF vs, Grant
<1> HIDE DEF g
<1>14. /\ given' \in Seq(Grant)
       /\ \A i \in 1 .. Len(given') :
            \/ i \in 1 .. Len(given) /\ given'[i] = given[i]
            \/ size # 0 /\ i = Len(given) + 1 /\ given'[i] = g
  <2>1. given \in Seq(Grant)
    BY DEF MemInv, Grants
  <2>2. CASE size = 0
    BY <1>2, <2>1, <2>2, Zenon
  <2>3. CASE size # 0
    <3>1. /\ given' \in Seq(Grant) /\ Len(given') = Len(given) + 1
          /\ \A i \in 1 .. Len(given) : given'[i] = given[i]
          /\ given'[Len(given) + 1] = g
      BY <1>2, <1>13, <2>1, <2>3, AppendProperties
    <3>2. Len(given) \in Nat
      BY <2>1, LenProperties
    <3> QED
      BY <2>3, <3>1, <3>2
  <2> QED
    BY <2>2, <2>3, Zenon
<1>15. Len(given) \in Nat
  BY LenProperties, SMTT(30) DEF MemInv, Grants
<1>16. Grants'
  <2>1. ASSUME NEW i \in 1 .. Len(given') PROVE PagesHeld(given'[i]) \subseteq DOMAIN mem_table'.leaf
    BY <1>7, <1>13, <1>14, Zenon DEF MemInv, Grants
  <2>2. ASSUME NEW i \in 1 .. Len(given'), NEW j \in 1 .. Len(given'), i # j
        PROVE  PagesHeld(given'[i]) \cap PagesHeld(given'[j]) = {}
    <3>1. CASE i \in 1 .. Len(given) /\ j \in 1 .. Len(given)
      <4>1. given'[i] = given[i] /\ given'[j] = given[j]
        BY <1>14, <1>15, <3>1
      <4> QED
        BY <2>2, <3>1, <4>1, Zenon DEF MemInv, Grants
    <3>2. CASE i \in 1 .. Len(given) /\ j \notin 1 .. Len(given)
      <4>1. given'[i] = given[i] /\ given'[j] = g /\ size # 0
        BY <1>14, <1>15, <3>2, Zenon
      <4> QED
        BY <1>6, <1>13, <3>2, <4>1, Zenon DEF MemInv, Grants
    <3>3. CASE i \notin 1 .. Len(given) /\ j \in 1 .. Len(given)
      <4>1. given'[j] = given[j] /\ given'[i] = g /\ size # 0
        BY <1>14, <1>15, <3>3, Zenon
      <4> QED
        BY <1>6, <1>13, <3>3, <4>1, Zenon DEF MemInv, Grants
    <3>4. i \in 1 .. Len(given) \/ j \in 1 .. Len(given)
      BY <1>14, <1>15, <2>2
    <3> QED
      BY <3>1, <3>2, <3>3, <3>4
  <2> QED
    BY <1>14, <2>1, <2>2, Zenon DEF Grants, PagesHeld
<1>17. GivenMapped'
  <2> SUFFICES ASSUME NEW i \in 1 .. Len(given'), NEW v \in PagesHeld(given'[i])
               PROVE  /\ v \in DOMAIN page_table'.leaf
                      /\ page_table'.leaf[v].level = given'[i].level
                      /\ given'[i].level = "EL0" => page_table'.leaf[v].out = v
    BY Zenon DEF GivenMapped, PagesHeld
  <2>1. CASE i \in 1 .. Len(given) /\ given'[i] = given[i]
    <3>1. v \in DOMAIN page_table.leaf /\ v \notin vs
      BY <1>6, <2>1, Zenon DEF MemInv, Grants, GivenMapped
    <3> QED
      BY <1>10, <2>1, <3>1, SMTT(30) DEF MemInv, GivenMapped
  <2>2. CASE size # 0 /\ given'[i] = g
    <3>1. v \in vs /\ g.level = level
      BY <1>13, <2>2, Zenon DEF g
    <3>2. page_table'.leaf[v] = [out |-> Output(v, level), level |-> level, uxn |-> FALSE]
      BY <1>10, <3>1, Zenon DEF Descriptor
    <3>3. level = "EL0" => Output(v, level) = v
      BY DEF Output
    <3> QED
      BY <1>10, <2>2, <3>1, <3>2, <3>3, SMTT(30)
  <2> QED
    BY <1>14, <2>1, <2>2, Zenon
<1>18. FailsOnlyWhenFull'
  BY <1>2, <1>5, Layout, LayoutAssumption, SMTT(30) DEF FailsOnlyWhenFull
<1>19. Tables' /\ BootMap'
  BY <1>2, <1>7, <1>8, <1>10, Zenon DEF MemInv, Tables, BootMap, Reached, Shaped, Apart, Levels
<1>20. MemInv'
  BY <1>2, <1>12, <1>16, <1>17, <1>18, <1>19, Zenon DEF MemInv
<1> QED
  BY <1>5, <1>6, <1>10, <1>20

------------------------------------------------------------------------------
(* The theorems.                                                           *)

(***************************************************************************)
(* However the loaders ask for memory, the pages handed out are the first  *)
(* of user RAM, without a hole, held once and mapped as they were asked.   *)
(***************************************************************************)
THEOREM MemInvariant == Spec => []MemInv
<1>1. ASSUME MemInv, [Next]_vars PROVE MemInv'
  <2>1. CASE mmu_init
    BY <1>1, <2>1, MmuInitKeeps
  <2>2. ASSUME NEW size \in Sizes, NEW kernel \in BOOLEAN, alloc_proc_mem(size, kernel)
        PROVE  MemInv'
    BY <1>1, <2>2, AllocFails, AllocSucceeds, Zenon
  <2>3. CASE UNCHANGED vars
    BY <1>1, <2>3, ZenonT(40)
    DEF vars, MemInv, Tables, Reached, Shaped, Apart, Levels, Dense, Filled, Grants, GivenMapped,
        FailsOnlyWhenFull, BootMap
  <2> QED
    BY <1>1, <2>1, <2>2, <2>3 DEF Next
<1> QED
  BY <1>1, InitMem, PTL DEF Spec

(***************************************************************************)
(* The tables keep their shape: every leaf is reached through tables, and  *)
(* a 2MB entry is never a block and a table.                               *)
(***************************************************************************)
THEOREM MemTypeCorrect == Spec => []TypeOK
<1> DEFINE Flags == mapped \in BOOLEAN /\ shift22 \in BOOLEAN
<1>1. Init => Flags
  BY Zenon DEF Init
<1>2. Flags /\ [Next]_vars => Flags'
  BY Zenon DEF Next, vars, mmu_init, alloc_proc_mem
<1>3. MemInv /\ Flags => TypeOK
  BY Zenon DEF MemInv, Tables, Reached, Apart, Levels, TypeOK
<1>4. Spec => []Flags
  BY <1>1, <1>2, PTL DEF Spec
<1> QED
  BY <1>3, <1>4, MemInvariant, PTL

(***************************************************************************)
(* alloc_proc_mem hands out no page twice, none of the image, none outside *)
(* the RAM and none that the kernel's blocks map.                          *)
(***************************************************************************)
THEOREM PagesApart == Spec => []PagesOwnedOnce
<1>1. ASSUME MemInv PROVE PagesOwnedOnce
  <2>1. PICK n \in Nat : Filled(n)
    BY <1>1 DEF MemInv, Dense
  <2>2. ASSUME NEW i \in 1 .. Len(given), NEW v \in PagesHeld(given[i])
        PROVE  v >= kfull_end /\ v < RamEnd /\ v \div BLOCK \notin page_table.blocks
    <3>1. v \in user_ram_start .. user_ram_start + n - 1
      BY <1>1, <2>1 DEF MemInv, Grants, Filled
    <3>2. v \in Nat /\ v >= kfull_end /\ v < user_ram_end
      BY <2>1, <3>1, Layout DEF Filled
    <3>3. v \div BLOCK \notin KernelBlocks
      <4>1. v >= shared_start
        BY <3>2, Layout, LayoutAssumption
      <4> QED
        BY <3>2, <4>1, OutsideBlocks
    <3>4. given # <<>>
      BY EmptySeq
    <3>5. page_table.blocks = KernelBlocks
      BY <1>1, <3>4 DEF MemInv, BootMap
    <3> QED
      BY <3>2, <3>3, <3>5, Layout, LayoutAssumption
  <2>3. \A i, j \in 1 .. Len(given) : i # j => PagesHeld(given[i]) \cap PagesHeld(given[j]) = {}
    BY <1>1, Zenon DEF MemInv, Grants
  <2> QED
    BY <2>2, <2>3, Zenon DEF PagesOwnedOnce
<1> QED
  BY <1>1, MemInvariant, PTL

(***************************************************************************)
(* Every page handed out is mapped at the level its loader asked for.      *)
(***************************************************************************)
THEOREM PagesMapped == Spec => []GivenMapped
<1>1. MemInv => GivenMapped
  BY DEF MemInv
<1> QED
  BY <1>1, MemInvariant, PTL

(***************************************************************************)
(* alloc_proc_mem returns 0 only when fewer pages are left than asked for. *)
(***************************************************************************)
THEOREM RefusedOnlyWhenFull == Spec => []FailsOnlyWhenFull
<1>1. MemInv => FailsOnlyWhenFull
  BY DEF MemInv
<1> QED
  BY <1>1, MemInvariant, PTL

(***************************************************************************)
(* No allocation changes what mmu_init mapped.                             *)
(***************************************************************************)
THEOREM BootMapStays == Spec => BootMapKept
<1> DEFINE Kept == mapped => /\ page_table'.blocks = page_table.blocks
                            /\ \A v \in DevicePages \cup SharedRange :
                                 /\ v \in DOMAIN page_table.leaf \cap DOMAIN page_table'.leaf
                                 /\ page_table'.leaf[v] = page_table.leaf[v]
<1>1. ASSUME MemInv, [Next]_vars, mapped PROVE Kept
  <2>1. DevicePages \cup SharedRange \subseteq DOMAIN page_table.leaf
    BY <1>1 DEF MemInv, BootMap
  <2>2. \A v \in DevicePages \cup SharedRange : v < user_ram_start
    BY Layout, LayoutAssumption DEF SharedRange
  <2>3. ASSUME NEW size \in Sizes, NEW kernel \in BOOLEAN, alloc_proc_mem(size, kernel)
        PROVE  Kept
    <3>1. CASE Free(PagesOf(size)) = {}
      BY <2>1, <2>3, <3>1, Zenon DEF alloc_proc_mem
    <3>2. CASE Free(PagesOf(size)) # {}
      BY <1>1, <2>1, <2>2, <2>3, <3>2, AllocSucceeds, Zenon
    <3> QED
      BY <3>1, <3>2
  <2>4. CASE UNCHANGED vars
    BY <2>1, <2>4 DEF vars
  <2>5. ~mmu_init
    BY <1>1 DEF mmu_init
  <2> QED
    BY <1>1, <2>3, <2>4, <2>5 DEF Next
<1>2. MemInv /\ [Next]_vars => [Kept]_vars
  BY <1>1
<1> QED
  BY <1>2, MemInvariant, PTL DEF Spec, BootMapKept
=============================================================================
