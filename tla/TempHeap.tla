------------------------------ MODULE TempHeap ------------------------------
(***************************************************************************)
(* The kernel heap of ram_e.c: talloc and temp_free (bump pointer plus a   *)
(* first-fit free list that neither splits nor joins blocks) and palloc    *)
(* (bump pointer) above temp_start.  Each call is one step: kprintf_args   *)
(* masks IRQs around its calls, the rest run before start_scheduler or in  *)
(* the one process kernel_main creates, which no other can interleave.     *)
(*                                                                         *)
(* held and perm are history variables: what the callers own.  peak is the *)
(* largest number of one-page blocks they ever owned at once, wide the     *)
(* bytes of the larger blocks, which are never freed (the console's rows). *)
(***************************************************************************)
EXTENDS Integers, Sequences, FiniteSets, FiniteSetsExt

CONSTANTS
    PAGE,          \* 4096
    heap_bottom, temp_start, heap_limit,
    FreedSizes,    \* request sizes whose caller calls temp_free (2, 18, 256)
    KeptSizes,     \* request sizes that are never freed (console: 384, 6144)
    PermSizes      \* request sizes of palloc

ASSUME PageAssumption == PAGE \in Nat \ {0}
ASSUME RegionAssumption ==
    /\ heap_bottom \in Nat /\ temp_start \in Nat /\ heap_limit \in Nat
    /\ heap_bottom <= temp_start /\ temp_start <= heap_limit
ASSUME SizesAssumption ==
    /\ FreedSizes \subseteq Nat \ {0}
    /\ KeptSizes \subseteq Nat \ {0}
    /\ PermSizes \subseteq Nat \ {0}

VARIABLES
    temp_free_list,                  \* from its head on
    next_free_temp_memory,
    next_free_perm_memory,
    panicked,                        \* an allocator called panic_with_info
    held, perm, peak, wide

vars == <<temp_free_list, next_free_temp_memory, next_free_perm_memory,
          panicked, held, perm, peak, wide>>

FreeBlock == [addr : Nat, size : Nat]
HeldBlock == [addr : Nat, size : Nat, freed : BOOLEAN]

\* (size + 0xFFF) & ~0xFFF
RoundUp(size) == ((size + PAGE - 1) \div PAGE) * PAGE

Init ==
    /\ temp_free_list = <<>>
    /\ next_free_temp_memory = heap_bottom
    /\ next_free_perm_memory = temp_start
    /\ panicked = FALSE
    /\ held = {} /\ perm = {} /\ peak = 0 /\ wide = 0

------------------------------------------------------------------------------
\* Mutant: the search wants a block larger than the request.
Fits_Strict(size) == {i \in 1 .. Len(temp_free_list) : temp_free_list[i].size > size}

\* Positions of the free list whose block the search loop of talloc takes.
Fits(size) == {i \in 1 .. Len(temp_free_list) : temp_free_list[i].size >= size}

\* Mutant: the block after the chosen one is unlinked.
Unlink_Next(list, i) == [j \in 1 .. Len(list) - 1 |-> IF j <= i THEN list[j] ELSE list[j + 1]]

\* *curr = (*curr)->next
Unlink(list, i) == [j \in 1 .. Len(list) - 1 |-> IF j < i THEN list[j] ELSE list[j + 1]]

Pages(blocks) == {b \in blocks : b.size = PAGE}

Own(block) ==
    /\ held' = held \cup {block}
    /\ peak' = IF Cardinality(Pages(held')) > peak THEN Cardinality(Pages(held')) ELSE peak
    /\ wide' = IF block.size > PAGE THEN wide + block.size ELSE wide

\* The caller owns size bytes of the block it gets; a larger block is not split.
Reuse(size, freed) ==
    /\ Fits(size) # {}
    /\ LET i == Min(Fits(size)) IN
         /\ temp_free_list' = Unlink(temp_free_list, i)
         /\ Own([addr |-> temp_free_list[i].addr, size |-> size, freed |-> freed])
    /\ UNCHANGED <<next_free_temp_memory, next_free_perm_memory, panicked, perm>>

\* Mutant: without the check against temp_start.
Bump_Unchecked(size, freed) ==
    /\ Fits(size) = {}
    /\ next_free_temp_memory' = next_free_temp_memory + size
    /\ Own([addr |-> next_free_temp_memory, size |-> size, freed |-> freed])
    /\ UNCHANGED <<temp_free_list, next_free_perm_memory, panicked, perm>>

Bump(size, freed) ==
    /\ Fits(size) = {}
    /\ next_free_temp_memory + size <= temp_start
    /\ next_free_temp_memory' = next_free_temp_memory + size
    /\ Own([addr |-> next_free_temp_memory, size |-> size, freed |-> freed])
    /\ UNCHANGED <<temp_free_list, next_free_perm_memory, panicked, perm>>

\* panic_with_info does not return; what other callers do goes on.
Overflow(size) ==
    /\ Fits(size) = {}
    /\ next_free_temp_memory + size > temp_start
    /\ panicked' = TRUE
    /\ UNCHANGED <<temp_free_list, next_free_temp_memory, next_free_perm_memory,
                   held, perm, peak, wide>>

talloc(size, freed) ==
    \/ Reuse(RoundUp(size), freed)
    \/ Bump(RoundUp(size), freed)
    \/ Overflow(RoundUp(size))

\* Mutant: the block is pushed without linking the rest of the list.
temp_free_Unlinked(b) ==
    /\ temp_free_list' = <<[addr |-> b.addr, size |-> b.size]>>
    /\ held' = held \ {b}
    /\ UNCHANGED <<next_free_temp_memory, next_free_perm_memory, panicked,
                   perm, peak, wide>>

\* Callers pass the size they asked for, so the block that goes back on the
\* list has the rounded size of the request, not the one talloc found.
temp_free(b) ==
    /\ temp_free_list' = <<[addr |-> b.addr, size |-> b.size]>> \o temp_free_list
    /\ held' = held \ {b}
    /\ UNCHANGED <<next_free_temp_memory, next_free_perm_memory, panicked,
                   perm, peak, wide>>

palloc(size) ==
    LET start == RoundUp(next_free_perm_memory) IN
    /\ IF start + RoundUp(size) > heap_limit
       THEN /\ panicked' = TRUE
            /\ next_free_perm_memory' = start
            /\ UNCHANGED perm
       ELSE /\ next_free_perm_memory' = start + RoundUp(size)
            /\ perm' = perm \cup {[addr |-> start, size |-> RoundUp(size)]}
            /\ UNCHANGED panicked
    /\ UNCHANGED <<temp_free_list, next_free_temp_memory, held, peak, wide>>

Next ==
    \/ \E size \in FreedSizes : talloc(size, TRUE)
    \/ \E size \in KeptSizes : talloc(size, FALSE)
    \/ \E b \in held : b.freed /\ temp_free(b)
    \/ \E size \in PermSizes : palloc(size)

Spec == Init /\ [][Next]_vars

------------------------------------------------------------------------------
(* Properties.                                                             *)

(***************************************************************************)
(* Shape of the allocator state; both bump pointers stay in their region   *)
(* (the overflow checks of talloc and palloc).                             *)
(***************************************************************************)
TypeOK ==
    /\ temp_free_list \in Seq(FreeBlock)
    /\ next_free_temp_memory \in heap_bottom .. temp_start
    /\ next_free_perm_memory \in Nat
    /\ panicked \in BOOLEAN
    /\ held \subseteq HeldBlock
    /\ perm \subseteq FreeBlock
    /\ peak \in Nat /\ wide \in Nat

Overlap(a, b) == a.addr < b.addr + b.size /\ b.addr < a.addr + a.size

Within(b, low, high) == low <= b.addr /\ b.addr + b.size <= high

(***************************************************************************)
(* No byte has two owners: the blocks handed out by talloc, the blocks on  *)
(* the free list (whose FreeBlock headers live in them) and the blocks     *)
(* handed out by palloc are pairwise disjoint and in their region, after   *)
(* any sequence of talloc, temp_free and palloc.                           *)
(***************************************************************************)
NoByteOwnedTwice ==
    /\ \A a, b \in held : a # b => ~Overlap(a, b)
    /\ \A i, j \in 1 .. Len(temp_free_list) :
         i # j => ~Overlap(temp_free_list[i], temp_free_list[j])
    /\ \A a \in held : \A i \in 1 .. Len(temp_free_list) : ~Overlap(a, temp_free_list[i])
    /\ \A a, b \in perm : a # b => ~Overlap(a, b)
    /\ \A a \in held : Within(a, heap_bottom, next_free_temp_memory)
    /\ \A i \in 1 .. Len(temp_free_list) :
         Within(temp_free_list[i], heap_bottom, next_free_temp_memory)
    /\ \A a \in perm : Within(a, temp_start, heap_limit)

(***************************************************************************)
(* Nothing is lost: every byte below the bump pointer is owned by a caller *)
(* or on the free list.  temp_free stores the size of the request, so this *)
(* depends on all freed requests rounding to one page, as those of         *)
(* kstring.c, kio.c and bootscreen.c do.                                   *)
(***************************************************************************)
NothingLost ==
    \A a \in heap_bottom .. next_free_temp_memory - 1 :
        \/ \E b \in held : b.addr <= a /\ a < b.addr + b.size
        \/ \E i \in 1 .. Len(temp_free_list) :
             /\ temp_free_list[i].addr <= a
             /\ a < temp_free_list[i].addr + temp_free_list[i].size

(***************************************************************************)
(* The kernel can print for ever: beside the blocks of several pages that  *)
(* are kept (row_data of KernelConsole::resize), the temporary region is   *)
(* never larger than the pages callers owned at once at some time, however *)
(* many talloc/temp_free pairs have happened.                              *)
(***************************************************************************)
FootprintBounded == next_free_temp_memory - heap_bottom <= wide + peak * PAGE
=============================================================================
