----------------------------- MODULE ProcMemory -----------------------------
(***************************************************************************)
(* The memory of processes: the map mmu_init builds over the image laid    *)
(* out by linker.ld, and alloc_proc_mem, which takes the lowest free pages *)
(* of the RAM above the image, records them in its own table (mem_table)   *)
(* and maps them one to one in the table the MMU walks (page_table).       *)
(*                                                                         *)
(* Addresses are page numbers.  A four-level table is the set of the       *)
(* tables below its root, the 2MB blocks and the 4KB leaves; the walk of   *)
(* proc_map_4kb shifts by 39 and the one of mmu_map_4kb by 37 for the      *)
(* first index, which is 0 either way below 2^37.  All callers run before  *)
(* start_scheduler, so a call is one step.  palloc, which yields a page    *)
(* per new table, is the subject of TempHeap and does not overflow here.   *)
(*                                                                         *)
(* given is a history variable: the non-empty ranges handed out, in order. *)
(***************************************************************************)
EXTENDS Integers, Sequences, FiniteSets, FiniteSetsExt

CONSTANTS
    PAGE,            \* bytes of a page
    BLOCK,           \* entries of a table, and pages of a 2MB block
    kernel_start,    \* first page of the image
    KernelPages,     \* pages up to the last process section
    SharedPages,     \* pages of .shared, which ends inside its last page
    RamEnd,          \* page after the last one of the device tree's RAM
    DevicePages,     \* UART, GIC, device tree and disk
    Sizes            \* bytes a loader may ask for

Align(v) == ((v + BLOCK - 1) \div BLOCK) * BLOCK

\* The symbols of linker.ld.
kcode_end == Align(kernel_start + KernelPages)
shared_start_NoGap == kcode_end           \* mutant: no gap after the code
shared_start == kcode_end + BLOCK
kfull_end == Align(shared_start + SharedPages)

ASSUME LayoutAssumption ==
    /\ PAGE \in Nat \ {0} /\ BLOCK \in Nat \ {0, 1}
    /\ kernel_start \in Nat /\ kernel_start % BLOCK = 0
    /\ KernelPages \in Nat \ {0} /\ SharedPages \in Nat \ {0} /\ RamEnd \in Nat
    /\ DevicePages \subseteq 0 .. kernel_start - 1
    /\ Sizes \subseteq Nat

VARIABLES
    mapped,          \* mmu_init has run
    mem_table, page_table,
    result,          \* pages asked for by the last call, and what it returned
    given,
    shift22          \* what the compiler made of (level == 1) << 54 in an int

vars == <<mapped, mem_table, page_table, result, given, shift22>>

Level == {"EL0", "EL1", "shared"}
SharedRange == shared_start .. shared_start + SharedPages - 1

\* calc_ram: both ends of user RAM are aligned down to 2MB.
user_ram_start == (kfull_end \div BLOCK) * BLOCK
user_ram_end == (RamEnd \div BLOCK) * BLOCK

EmptyTable == [tables |-> {}, blocks |-> {}, leaf |-> <<>>]

Init ==
    /\ mapped = FALSE
    /\ mem_table = EmptyTable /\ page_table = EmptyTable
    /\ result = [pages |-> 0, va |-> user_ram_start]
    /\ given = <<>>
    /\ shift22 \in BOOLEAN

------------------------------------------------------------------------------
(* The tables.                                                             *)

\* Tables on the walk to page v: its L4 table (depth 1), L3 and L2.
Path(v) == {<<1, v \div BLOCK>>, <<2, v \div (BLOCK * BLOCK)>>,
            <<3, v \div (BLOCK * BLOCK * BLOCK)>>}

\* The address bits a level adds to a descriptor: the shift count 54 is
\* undefined for an int; taken modulo 32 it sets bit 22, or nothing is set.
Output(v, level) ==
    IF level = "EL1" /\ shift22 /\ (v \div (2 * BLOCK)) % 2 = 0 THEN v + 2 * BLOCK ELSE v

Descriptor(v, level) == [out |-> Output(v, level), level |-> level, uxn |-> FALSE]

\* The entries e stored over those of an L4 table.
Stored(e, leaf) ==
    [v \in DOMAIN e \cup DOMAIN leaf |-> IF v \in DOMAIN e THEN e[v] ELSE leaf[v]]

\* Mutant: an L4 table is made for a block, too.
mmu_map_2mb_Table(t, bs) ==
    [t EXCEPT !.blocks = @ \cup bs,
              !.tables = @ \cup UNION {Path(b * BLOCK) : b \in bs}]

\* mmu_map_2mb, for each of the blocks in bs.
mmu_map_2mb(t, bs) ==
    [t EXCEPT !.blocks = @ \cup bs,
              !.tables = (@ \cup UNION {Path(b * BLOCK) : b \in bs}) \ {<<1, b>> : b \in bs}]

\* Mutant: the descriptor ignores the level asked for.
mmu_map_4kb_Level(t, vs, level) ==
    [t EXCEPT !.tables = @ \cup UNION {Path(v) : v \in vs},
              !.leaf = Stored([v \in vs |-> Descriptor(v, "EL1")], @)]

\* mmu_map_4kb, for each of the pages in vs: refused inside a 2MB block, and
\* replacing the descriptor of a page already mapped.
mmu_map_4kb(t, vs, level) ==
    LET free == {v \in vs : v \div BLOCK \notin t.blocks}
    IN  [t EXCEPT !.tables = @ \cup UNION {Path(v) : v \in free},
                  !.leaf = Stored([v \in free |-> Descriptor(v, level)], @)]

\* Mutant: an L4 table is made anew although there is one.
proc_map_4kb_Fresh(t, vs) ==
    [t EXCEPT !.tables = @ \cup UNION {Path(v) : v \in vs},
              !.leaf = Stored([v \in vs |-> v],
                              [w \in {u \in DOMAIN @ : \A v \in vs : u \div BLOCK # v \div BLOCK}
                                 |-> @[w]])]

\* proc_map_4kb, for each of the pages in vs.
proc_map_4kb(t, vs) ==
    [t EXCEPT !.tables = @ \cup UNION {Path(v) : v \in vs},
              !.leaf = Stored([v \in vs |-> v], @)]

------------------------------------------------------------------------------
(* Operations.                                                             *)

\* The loop over the kernel includes kcode_end itself, and so one more block.
KernelBlocks == kernel_start \div BLOCK .. kcode_end \div BLOCK

mmu_init ==
    /\ ~mapped /\ mapped' = TRUE
    /\ page_table' =
         mmu_map_4kb(mmu_map_4kb(mmu_map_2mb(EmptyTable, KernelBlocks), DevicePages, "EL1"),
                     SharedRange, "shared")
    /\ UNCHANGED <<mem_table, result, given, shift22>>

PagesOf(size) == (size + PAGE - 1) \div PAGE

\* Mutant: the search starts at the next 2MB boundary that has no table.
Free_Aligned(n) ==
    {va \in user_ram_start .. user_ram_end - n : <<1, va \div BLOCK>> \notin mem_table.tables}

\* Places where n pages in a row have no leaf in mem_table.
Free(n) ==
    {va \in user_ram_start .. user_ram_end - n : va .. va + n - 1 \cap DOMAIN mem_table.leaf = {}}

\* va is page 0 where the code returns a null pointer.
alloc_proc_mem(size, kernel) ==
    LET n == PagesOf(size)
        level == IF kernel THEN "EL1" ELSE "EL0"
        va == Min(Free(n))
        vs == va .. va + n - 1
    IN  /\ mapped
        /\ IF Free(n) = {}
           THEN /\ result' = [pages |-> n, va |-> 0]
                /\ UNCHANGED <<mem_table, page_table, given>>
           ELSE /\ result' = [pages |-> n, va |-> va]
                /\ mem_table' = proc_map_4kb(mem_table, vs)
                /\ page_table' = mmu_map_4kb(page_table, vs, level)
                /\ given' = IF size = 0 THEN given
                            ELSE Append(given, [va |-> va, size |-> size, level |-> level])
        /\ UNCHANGED <<mapped, shift22>>

Next == mmu_init \/ \E size \in Sizes, kernel \in BOOLEAN : alloc_proc_mem(size, kernel)

Spec == Init /\ [][Next]_vars

------------------------------------------------------------------------------
(* Properties.                                                             *)

\* The pages that hold the bytes of a range that was handed out.
PagesHeld(g) == g.va .. g.va + (g.size - 1) \div PAGE

(***************************************************************************)
(* Shape of the state; a leaf is reached through tables of every level,    *)
(* and a 2MB entry of the MMU's table is a block or a table, never both.   *)
(***************************************************************************)
TypeOK ==
    /\ mapped \in BOOLEAN /\ shift22 \in BOOLEAN
    /\ \A t \in {mem_table, page_table} : \A v \in DOMAIN t.leaf : Path(v) \subseteq t.tables
    /\ \A b \in page_table.blocks : <<1, b>> \notin page_table.tables
    /\ \A v \in DOMAIN page_table.leaf : page_table.leaf[v].level \in Level

(***************************************************************************)
(* alloc_proc_mem never hands out a page twice, nor one of the image, of   *)
(* the shared section or outside the RAM of the device tree, whatever      *)
(* sizes the loaders ask for.                                              *)
(***************************************************************************)
PagesOwnedOnce ==
    /\ \A i, j \in 1 .. Len(given) : i # j => PagesHeld(given[i]) \cap PagesHeld(given[j]) = {}
    /\ \A i \in 1 .. Len(given) : \A v \in PagesHeld(given[i]) :
         /\ v >= kfull_end /\ v < RamEnd
         /\ v \div BLOCK \notin page_table.blocks

(***************************************************************************)
(* Every byte of a range that was handed out can be reached at the level   *)
(* the loader asked for: mmu_map_4kb refused none of its pages for lying   *)
(* in a block, and no later call changed them.  EL0 pages map one to one.  *)
(***************************************************************************)
GivenMapped ==
    \A i \in 1 .. Len(given) : \A v \in PagesHeld(given[i]) :
        /\ v \in DOMAIN page_table.leaf
        /\ page_table.leaf[v].level = given[i].level
        /\ given[i].level = "EL0" => page_table.leaf[v].out = v

(***************************************************************************)
(* What mmu_init is there to map (kernel blocks, devices, shared code) is  *)
(* mapped and keeps its descriptors while processes are created.           *)
(***************************************************************************)
BootMapKept ==
    [][mapped => /\ page_table'.blocks = page_table.blocks
                 /\ \A v \in DevicePages \cup SharedRange :
                      /\ v \in DOMAIN page_table.leaf \cap DOMAIN page_table'.leaf
                      /\ page_table'.leaf[v] = page_table.leaf[v]]_vars

(***************************************************************************)
(* alloc_proc_mem returns 0 only when the pages left really are too few:   *)
(* the search leaves no holes between the ranges, whatever their sizes.    *)
(***************************************************************************)
FailsOnlyWhenFull ==
    result.va = 0 =>
        Cardinality(DOMAIN mem_table.leaf) + result.pages
            > user_ram_end - user_ram_start
=============================================================================
