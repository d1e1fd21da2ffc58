------------------------------ MODULE Relocate ------------------------------
(***************************************************************************)
(* relocate_code: a program copied to another place, with the branches and *)
(* the ADRPs of it that would miss their target changed.                   *)
(*                                                                         *)
(* Addresses are counted in instructions.  An instruction is what it is    *)
(* ("b" for B and BL, "cond" for B.cond, "adrp" or "other") and its        *)
(* immediate field as an unsigned number (immhi:immlo for ADRP).  Fields,  *)
(* pages and the int32_t are narrower than in the source, where the        *)
(* constants have the values given with them.                              *)
(***************************************************************************)
EXTENDS Calls, Integers, Sequences

CONSTANTS
    BRange,       \* 2^26: field of B and BL
    CondRange,    \* 2^19: field of B.cond
    AdrpRange,    \* 2^21: field of ADRP, in pages
    AdrpWindow,   \* 2^9: pages whose offset the shift by 43 keeps
    PageSize,     \* 2^10: instructions of a page
    RelRange,     \* 2^30: the int32_t of a conditional branch, in instructions
    Loads         \* programs with the places they and their data are moved to

ASSUME FieldAssumption ==
    /\ {BRange, CondRange, AdrpRange, AdrpWindow, PageSize, RelRange} \subseteq Nat \ {0}
    /\ CondRange <= RelRange
    /\ AdrpWindow % 2 = 0 /\ AdrpRange % AdrpWindow = 0

\* A field of range r as a signed number.
Signed(field, r) == IF field < r \div 2 THEN field ELSE field - r

PageOf(address) == (address \div PageSize) * PageSize
In(address, base, size) == base <= address /\ address < base + size

Instr(kind, imm) == [kind |-> kind, imm |-> imm]

\* Mutant: every target is taken for an external one.
Branch_AllExternal(imm, src, dst, src_base, size) ==
    (src + Signed(imm, BRange) - dst) % BRange

\* B and BL: a target in the program moves with it.
Branch(imm, src, dst, src_base, size) ==
    LET target == src + Signed(imm, BRange)
    IN  IF In(target, src_base, size) THEN imm ELSE (target - dst) % BRange

\* B.cond: the field is masked, so shifting it up and down by 6 leaves it
\* unsigned, and a branch back counts as one far ahead.
CondBranch(imm, src, dst, src_base, size) ==
    LET target == src + imm
    IN  IF In(target, src_base, size) THEN imm
        ELSE Signed((target - dst) % RelRange, RelRange) % CondRange

\* ADRP: a page of the data moves with the data; any other is left as it is.
Adrp(imm, src, dst, data) ==
    LET target == PageOf(src) + Signed(imm % AdrpWindow, AdrpWindow) * PageSize
    IN  IF In(target, data.src, data.size)
        THEN ((data.dst + target - data.src - PageOf(dst)) \div PageSize) % AdrpRange
        ELSE imm

\* code is the sequence of instructions; data has its two places and its size.
relocate_code(code, src_base, dst_base, data) ==
    LET size == Len(code) IN
    [n \in 1 .. size |->
        LET instr == code[n]
            src == src_base + n - 1
            dst == dst_base + n - 1
        IN  CASE instr.kind = "b" ->
                   Instr("b", Branch(instr.imm, src, dst, src_base, size))
              [] instr.kind = "cond" ->
                   Instr("cond", CondBranch(instr.imm, src, dst, src_base, size))
              [] instr.kind = "adrp" -> Instr("adrp", Adrp(instr.imm, src, dst, data))
              [] OTHER -> instr]

------------------------------------------------------------------------------
(* What the CPU makes of an instruction at an address, and where it should *)
(* lead after the move.                                                    *)

Target(instr, address) ==
    CASE instr.kind = "b" -> address + Signed(instr.imm, BRange)
      [] instr.kind = "cond" -> address + Signed(instr.imm, CondRange)
      [] instr.kind = "adrp" -> PageOf(address) + Signed(instr.imm, AdrpRange) * PageSize

Moved(target, from, size, to) ==
    IF In(target, from, size) THEN to + (target - from) ELSE target

\* The field of a range reaches from one address to the other.
Reaches(from, to, r) == -(r \div 2) <= to - from /\ to - from < r \div 2

------------------------------------------------------------------------------
(* Calls.                                                                  *)

Instructions ==
    {Instr("other", 0)} \cup {Instr("b", n) : n \in 0 .. BRange - 1}
      \cup {Instr("cond", n) : n \in 0 .. CondRange - 1}
      \cup {Instr("adrp", n) : n \in 0 .. AdrpRange - 1}

ASSUME LoadsAssumption ==
    \A l \in Loads : /\ l.code \in Seq(Instructions) /\ l.src \in Nat /\ l.dst \in Nat
                     /\ l.data \in [src : Nat, dst : Nat, size : Nat]

Relocation ==
    Free /\ \E l \in Loads : Compute("relocate", l, relocate_code(l.code, l.src, l.dst, l.data))

(***************************************************************************)
(* The copied code does what the original did: a branch within it leads to *)
(* the copy of its target, a branch out of it to the same target, an ADRP  *)
(* of a page that starts in the data to the page its start was copied to,  *)
(* wherever the new field can reach.  Excepted are a conditional branch    *)
(* back, whose offset is not sign-extended, and an ADRP further than the   *)
(* decoded offset keeps.                                                   *)
(***************************************************************************)
RelocatedTargets ==
    Returned("relocate") =>
        \A n \in 1 .. Len(in.code) :
            LET instr == in.code[n]
                src == in.src + n - 1
                dst == in.dst + n - 1
                target == Target(instr, src)
                moved == Moved(target, in.src, Len(in.code), in.dst)
                data == Moved(target, in.data.src, in.data.size, in.data.dst)
            IN  CASE instr.kind = "b" ->
                       Reaches(dst, moved, BRange) => Target(out[n], dst) = moved
                  [] instr.kind = "cond" ->
                       target >= src /\ Reaches(dst, moved, CondRange)
                         => Target(out[n], dst) = moved
                  [] instr.kind = "adrp" ->
                       (/\ In(target, in.data.src, in.data.size)
                        /\ Reaches(PageOf(src), target, AdrpWindow * PageSize)
                        /\ Reaches(PageOf(dst), PageOf(data), AdrpRange * PageSize))
                         => Target(out[n], dst) = PageOf(data)
                  [] OTHER -> out[n] = instr

RelocationSpec == CallsInit /\ [][Relocation \/ Return]_call
=============================================================================
