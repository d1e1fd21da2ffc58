----------------------------- MODULE BootProofs -----------------------------
(***************************************************************************)
(* Proofs about Boot for every machine: where kernel_main is, what it has  *)
(* read of the tree, how deep its prints nest, and where it ends.          *)
(***************************************************************************)
EXTENDS Boot, DeviceTreeProofs

(* kernel_main: which statement stands where.                              *)

D == 18 + MapLines
E == D + DtbLines

Statements == {"kprintf", "kprintf_raw", "get_total_ram", "gpu_init", "set_exception_vectors",
               "gic_init", "init_disk", "dtb_addresses", "enable_mmu", "get_total_user_ram",
               "get_user_ram_start", "get_user_ram_end", "alloc_proc_mem",
               "create_kernel_process", "start_scheduler"}

(* The numbers of printed lines are naturals, and the tree is listed on at *)
(* least one screen.                                                       *)
LEMMA Sizes == /\ MapLines \in Nat /\ DtbLines \in Nat /\ D \in Nat /\ E \in Nat
               /\ 18 <= D /\ D <= E /\ rows \in Nat \ {0} /\ rows <= DtbLines
BY BootAssumption, RowsAssumption DEF D, E

Joined(u, s, a, t, b) ==
    /\ u \in Seq(Statements) /\ Len(u) = a + b
    /\ \A i \in 1 .. a : u[i] = s[i]
    /\ \A i \in 1 .. b : u[a + i] = t[i]

(* Where the elements of two joined sequences of statements stand.         *)
LEMMA ConcatAt ==
    ASSUME NEW s \in Seq(Statements), NEW t \in Seq(Statements), NEW u, u = s \o t
    PROVE  Joined(u, s, Len(s), t, Len(t))
BY Concatenated DEF Joined

(* A statement repeated k times is a sequence of k statements.             *)
LEMMA Repeated ==
    ASSUME NEW k \in Nat, NEW x \in Statements
    PROVE  /\ [n \in 1 .. k |-> x] \in Seq(Statements) /\ Len([n \in 1 .. k |-> x]) = k
           /\ \A i \in 1 .. k : [n \in 1 .. k |-> x][i] = x
OBVIOUS

Before == <<"kprintf", "get_total_ram", "kprintf", "kprintf", "kprintf",
            "gpu_init", "kprintf", "kprintf", "kprintf",
            "kprintf", "set_exception_vectors", "kprintf", "kprintf",
            "gic_init", "kprintf", "kprintf", "init_disk">>
Mapped == <<"kprintf", "kprintf_raw", "enable_mmu", "kprintf_raw">>
After == <<"kprintf", "kprintf", "kprintf", "get_total_user_ram", "kprintf", "kprintf">>
Finish == <<"kprintf", "start_scheduler">>

(* The statement kernel_main has at each line.                             *)
LEMMA Program ==
    /\ \A i \in 1 .. 17 : kernel_main[i] = Before[i]
    /\ \A i \in 1 .. MapLines : kernel_main[17 + i] = "kprintf_raw"
    /\ kernel_main[D] = "dtb_addresses"
    /\ \A i \in 1 .. DtbLines : kernel_main[D + i] = "kprintf_raw"
    /\ \A i \in 1 .. 4 : kernel_main[E + i] = Mapped[i]
    /\ \A i \in 1 .. 6 : kernel_main[E + 4 + i] = After[i]
    /\ \A i \in 1 .. 5 : kernel_main[E + 10 + i] = start_bootscreen[i]
    /\ \A i \in 1 .. 2 : kernel_main[E + 15 + i] = Finish[i]
<1>1. PICK raw : raw = "kprintf_raw"
  OBVIOUS
<1> DEFINE B == [n \in 1 .. MapLines |-> raw]
           C == <<"dtb_addresses">>
           F == [n \in 1 .. DtbLines |-> raw]
<1>2. /\ B \in Seq(Statements) /\ Len(B) = MapLines /\ \A i \in 1 .. MapLines : B[i] = raw
      /\ F \in Seq(Statements) /\ Len(F) = DtbLines /\ \A i \in 1 .. DtbLines : F[i] = raw
  <2>1. raw \in Statements
    BY <1>1 DEF Statements
  <2> QED
    BY <2>1, Repeated, Sizes, Zenon
<1>3. /\ Before \in Seq(Statements) /\ Len(Before) = 17
      /\ C \in Seq(Statements) /\ Len(C) = 1 /\ C[1] = "dtb_addresses"
      /\ Mapped \in Seq(Statements) /\ Len(Mapped) = 4
      /\ After \in Seq(Statements) /\ Len(After) = 6
      /\ start_bootscreen \in Seq(Statements) /\ Len(start_bootscreen) = 5
      /\ Finish \in Seq(Statements) /\ Len(Finish) = 2
  BY DEF Before, Mapped, After, start_bootscreen, Finish, Statements
<1>4. /\ mmu_init = B \o C \o F \o Mapped
      /\ kernel_main = Before \o mmu_init \o After \o start_bootscreen \o Finish
  BY <1>1, Zenon DEF mmu_init, kernel_main, Before, Mapped, After, Finish
<1> HIDE DEF B, C, F
<1>5. /\ B \o C \in Seq(Statements) /\ Len(B \o C) = MapLines + 1
      /\ \A i \in 1 .. MapLines : (B \o C)[i] = raw
      /\ (B \o C)[MapLines + 1] = "dtb_addresses"
  <2>1. /\ B \o C \in Seq(Statements) /\ Len(B \o C) = MapLines + 1
        /\ \A i \in 1 .. MapLines : (B \o C)[i] = B[i]
        /\ \A i \in 1 .. 1 : (B \o C)[MapLines + i] = C[i]
    <3>1. Joined(B \o C, B, MapLines, C, 1)
      BY <1>2, <1>3, ConcatAt, Zenon
    <3> QED
      BY <3>1, Zenon DEF Joined
  <2>2. 1 \in 1 .. 1
    OBVIOUS
  <2> QED
    BY <1>2, <1>3, <2>1, <2>2, Zenon
<1>6. PICK s1 : s1 = B \o C
  BY Zenon
<1>7. PICK s2 : s2 = s1 \o F
  BY Zenon
<1>8. PICK s3 : s3 = s2 \o Mapped
  BY Zenon
<1>9. /\ s2 \in Seq(Statements) /\ Len(s2) = MapLines + 1 + DtbLines
      /\ \A i \in 1 .. MapLines + 1 : s2[i] = s1[i]
      /\ \A i \in 1 .. DtbLines : s2[MapLines + 1 + i] = raw
  <2>1. Joined(s2, s1, MapLines + 1, F, DtbLines)
    BY <1>2, <1>5, <1>6, <1>7, ConcatAt, Zenon
  <2> QED
    BY <1>2, <2>1, Zenon DEF Joined
<1>10. /\ s3 \in Seq(Statements) /\ Len(s3) = MapLines + 1 + DtbLines + 4
       /\ \A i \in 1 .. MapLines + 1 + DtbLines : s3[i] = s2[i]
       /\ \A i \in 1 .. 4 : s3[MapLines + 1 + DtbLines + i] = Mapped[i]
  <2>1. Joined(s3, s2, MapLines + 1 + DtbLines, Mapped, 4)
    BY <1>3, <1>8, <1>9, ConcatAt, Zenon
  <2> QED
    BY <2>1, Zenon DEF Joined
<1>11. PICK k1 : k1 = Before \o s3
  BY Zenon
<1>12. PICK k2 : k2 = k1 \o After
  BY Zenon
<1>13. PICK k3 : k3 = k2 \o start_bootscreen
  BY Zenon
<1>14. kernel_main = k3 \o Finish
  BY <1>4, <1>6, <1>7, <1>8, <1>11, <1>12, <1>13, Zenon
<1>15. /\ k1 \in Seq(Statements) /\ Len(k1) = 17 + (MapLines + 1 + DtbLines + 4)
       /\ \A i \in 1 .. 17 : k1[i] = Before[i]
       /\ \A i \in 1 .. MapLines + 1 + DtbLines + 4 : k1[17 + i] = s3[i]
  <2>1. Joined(k1, Before, 17, s3, MapLines + 1 + DtbLines + 4)
    BY <1>3, <1>10, <1>11, ConcatAt, Zenon
  <2> QED
    BY <2>1, Zenon DEF Joined
<1>16. 17 + (MapLines + 1 + DtbLines + 4) = E + 4 /\ E + 4 + 6 = E + 10 /\ E + 10 + 5 = E + 15
  BY Sizes DEF D, E
<1>17. /\ k2 \in Seq(Statements) /\ Len(k2) = E + 10
       /\ \A i \in 1 .. E + 4 : k2[i] = k1[i]
       /\ \A i \in 1 .. 6 : k2[E + 4 + i] = After[i]
  <2>1. Joined(k2, k1, E + 4, After, 6)
    <3>1. Len(k1) = E + 4
      BY <1>15, <1>16, Zenon
    <3> QED
      BY <1>3, <1>12, <1>15, <3>1, ConcatAt, Zenon
  <2> QED
    BY <2>1, <1>16, Zenon DEF Joined
<1>18. /\ k3 \in Seq(Statements) /\ Len(k3) = E + 15
       /\ \A i \in 1 .. E + 10 : k3[i] = k2[i]
       /\ \A i \in 1 .. 5 : k3[E + 10 + i] = start_bootscreen[i]
  <2>1. Joined(k3, k2, E + 10, start_bootscreen, 5)
    BY <1>3, <1>13, <1>16, <1>17, ConcatAt, Zenon
  <2> QED
    BY <2>1, <1>16, Zenon DEF Joined
<1>19. /\ \A i \in 1 .. E + 15 : kernel_main[i] = k3[i]
       /\ \A i \in 1 .. 2 : kernel_main[E + 15 + i] = Finish[i]
  <2>1. Joined(kernel_main, k3, E + 15, Finish, 2)
    BY <1>3, <1>14, <1>18, ConcatAt, Zenon
  <2> QED
    BY <2>1, Zenon DEF Joined
<1>20. \A i \in 1 .. E + 4 : kernel_main[i] = k1[i]
  <2>1. \A i \in 1 .. E + 4 : i \in 1 .. E + 10 /\ i \in 1 .. E + 15
    BY Sizes
  <2> QED
    BY <1>17, <1>18, <1>19, <2>1, Zenon
<1>21. \A i \in 1 .. 17 : kernel_main[i] = Before[i]
  <2>1. \A i \in 1 .. 17 : i \in 1 .. E + 4
    BY Sizes
  <2> QED
    BY <1>15, <1>20, <2>1, Zenon
<1>22. \A i \in 1 .. MapLines + 1 + DtbLines + 4 : kernel_main[17 + i] = s3[i]
  <2>1. \A i \in 1 .. MapLines + 1 + DtbLines + 4 : 17 + i \in 1 .. E + 4
    BY Sizes DEF D, E
  <2> QED
    BY <1>15, <1>20, <2>1, Zenon
<1>23. \A i \in 1 .. MapLines : kernel_main[17 + i] = "kprintf_raw"
  <2>1. \A i \in 1 .. MapLines : /\ i \in 1 .. MapLines + 1 + DtbLines + 4
                                 /\ i \in 1 .. MapLines + 1 + DtbLines /\ i \in 1 .. MapLines + 1
    BY Sizes
  <2>2. \A i \in 1 .. MapLines : s1[i] = "kprintf_raw"
    BY <1>1, <1>5, <1>6, Zenon
  <2>3. \A i \in 1 .. MapLines : s3[i] = s2[i] /\ s2[i] = s1[i] /\ kernel_main[17 + i] = s3[i]
    BY <1>9, <1>10, <1>22, <2>1, Zenon
  <2> QED
    BY <2>2, <2>3, Zenon
<1>24. kernel_main[D] = "dtb_addresses"
  <2>1. /\ MapLines + 1 \in 1 .. MapLines + 1 + DtbLines + 4
        /\ MapLines + 1 \in 1 .. MapLines + 1 + DtbLines /\ MapLines + 1 \in 1 .. MapLines + 1
        /\ 17 + (MapLines + 1) = D
    BY Sizes DEF D
  <2> QED
    BY <1>5, <1>6, <1>9, <1>10, <1>22, <2>1, Zenon
<1>25. \A i \in 1 .. DtbLines : kernel_main[D + i] = "kprintf_raw"
  <2>1. \A i \in 1 .. DtbLines : /\ MapLines + 1 + i \in 1 .. MapLines + 1 + DtbLines + 4
                                 /\ MapLines + 1 + i \in 1 .. MapLines + 1 + DtbLines
                                 /\ 17 + (MapLines + 1 + i) = D + i
    BY Sizes DEF D
  <2> QED
    BY <1>1, <1>9, <1>10, <1>22, <2>1, ZenonT(40)
<1>26. \A i \in 1 .. 4 : kernel_main[E + i] = Mapped[i]
  <2>1. \A i \in 1 .. 4 : /\ MapLines + 1 + DtbLines + i \in 1 .. MapLines + 1 + DtbLines + 4
                          /\ 17 + (MapLines + 1 + DtbLines + i) = E + i
    BY Sizes DEF D, E
  <2> QED
    BY <1>10, <1>22, <2>1, Zenon
<1>27. \A i \in 1 .. 6 : kernel_main[E + 4 + i] = After[i]
  <2>1. \A i \in 1 .. 6 : E + 4 + i \in 1 .. E + 10 /\ E + 4 + i \in 1 .. E + 15
    BY Sizes
  <2> QED
    BY <1>17, <1>18, <1>19, <2>1, ZenonT(40)
<1>28. \A i \in 1 .. 5 : kernel_main[E + 10 + i] = start_bootscreen[i]
  <2>1. \A i \in 1 .. 5 : E + 10 + i \in 1 .. E + 15
    BY Sizes
  <2> QED
    BY <1>18, <1>19, <2>1, Zenon
<1> QED
  BY <1>19, <1>21, <1>23, <1>24, <1>25, <1>26, <1>27, <1>28, Zenon

(***************************************************************************)
(* The statements that happen once, and the prints of the tree's pages.    *)
(***************************************************************************)
LEMMA Positions ==
    /\ kernel_main[7] = "kprintf"
    /\ \A l \in D + 1 .. E : kernel_main[l] = "kprintf_raw"
    /\ \A l \in 1 .. E + 17 :
         /\ kernel_main[l] = "get_total_ram" => l = 2
         /\ kernel_main[l] = "gpu_init" => l = 6
         /\ kernel_main[l] = "init_disk" => l = 17
         /\ kernel_main[l] = "dtb_addresses" <=> l = D
         /\ kernel_main[l] = "enable_mmu" => l = E + 3
         /\ kernel_main[l] = "get_total_user_ram" => l = E + 8
         /\ kernel_main[l] = "get_user_ram_start" => l = E + 11
         /\ kernel_main[l] = "get_user_ram_end" <=> l = E + 12
         /\ kernel_main[l] = "alloc_proc_mem" <=> l = E + 13
         /\ kernel_main[l] = "create_kernel_process" <=> l = E + 15
         /\ kernel_main[l] = "start_scheduler" <=> l = E + 17
<1>1. kernel_main[7] = "kprintf"
  <2>1. kernel_main[7] = Before[7]
    BY Program
  <2> QED
    BY <2>1 DEF Before
<1>2. ASSUME NEW l \in D + 1 .. E
      PROVE  kernel_main[l] = "kprintf_raw"
  <2>1. l - D \in 1 .. DtbLines /\ D + (l - D) = l
    BY Sizes DEF E
  <2> QED
    BY <2>1, Program, ZenonT(40)
<1>3. ASSUME NEW l \in 1 .. E + 17
      PROVE  /\ kernel_main[l] = "get_total_ram" => l = 2
             /\ kernel_main[l] = "gpu_init" => l = 6
             /\ kernel_main[l] = "init_disk" => l = 17
             /\ kernel_main[l] = "dtb_addresses" <=> l = D
             /\ kernel_main[l] = "enable_mmu" => l = E + 3
             /\ kernel_main[l] = "get_total_user_ram" => l = E + 8
             /\ kernel_main[l] = "get_user_ram_start" => l = E + 11
             /\ kernel_main[l] = "get_user_ram_end" <=> l = E + 12
             /\ kernel_main[l] = "alloc_proc_mem" <=> l = E + 13
             /\ kernel_main[l] = "create_kernel_process" <=> l = E + 15
             /\ kernel_main[l] = "start_scheduler" <=> l = E + 17
  <2>1. CASE l \in 1 .. 17
    <3>1. kernel_main[l] = Before[l]
      BY <2>1, Program, Zenon
    <3> QED
      BY <2>1, <3>1, Sizes DEF Before
  <2>2. CASE l \in 18 .. D - 1
    <3>1. l - 17 \in 1 .. MapLines /\ 17 + (l - 17) = l
      BY <2>2, Sizes DEF D
    <3>2. kernel_main[l] = "kprintf_raw"
      BY <3>1, Program, ZenonT(40)
    <3> QED
      BY <2>2, <3>2, Sizes
  <2>3. CASE l = D
    BY <2>3, Program, Sizes
  <2>4. CASE l \in D + 1 .. E
    BY <1>2, <2>4, Sizes
  <2>5. CASE l \in E + 1 .. E + 4
    <3>1. PICK i \in 1 .. 4 : l = E + i
      <4>1. l - E \in 1 .. 4 /\ E + (l - E) = l
        BY <2>5, Sizes
      <4> QED
        BY <4>1
    <3>2. kernel_main[l] = Mapped[i]
      BY <3>1, Program, Zenon
    <3> QED
      BY <3>1, <3>2, Sizes DEF Mapped
  <2>6. CASE l \in E + 5 .. E + 10
    <3>1. PICK i \in 1 .. 6 : l = E + 4 + i
      <4>1. l - E - 4 \in 1 .. 6 /\ E + 4 + (l - E - 4) = l
        BY <2>6, Sizes
      <4> QED
        BY <4>1
    <3>2. kernel_main[l] = After[i]
      BY <3>1, Program, Zenon
    <3> QED
      BY <3>1, <3>2, Sizes DEF After
  <2>7. CASE l \in E + 11 .. E + 15
    <3>1. PICK i \in 1 .. 5 : l = E + 10 + i
      <4>1. l - E - 10 \in 1 .. 5 /\ E + 10 + (l - E - 10) = l
        BY <2>7, Sizes
      <4> QED
        BY <4>1
    <3>2. kernel_main[l] = start_bootscreen[i]
      BY <3>1, Program, Zenon
    <3> QED
      BY <3>1, <3>2, Sizes DEF start_bootscreen
  <2>8. CASE l \in E + 16 .. E + 17
    <3>1. PICK i \in 1 .. 2 : l = E + 15 + i
      <4>1. l - E - 15 \in 1 .. 2 /\ E + 15 + (l - E - 15) = l
        BY <2>8, Sizes
      <4> QED
        BY <4>1
    <3>2. kernel_main[l] = Finish[i]
      BY <3>1, Program, Zenon
    <3> QED
      BY <3>1, <3>2, Sizes DEF Finish
  <2> QED
    BY <2>1, <2>2, <2>3, <2>4, <2>5, <2>6, <2>7, <2>8, Sizes
<1> QED
  BY <1>1, <1>2, <1>3, Zenon
------------------------------------------------------------------------------
(* Where execution is.                                                     *)

Later == {"process", "drawing", "panic_with_info", "halted", "aborting"}

AtLine ==
    /\ at \in {"kernel_main", "calc_ram", "init_disk"} \cup Later
    /\ line \in Nat /\ machine \in Machines
    /\ at = "kernel_main" => line \in 1 .. E + 17
    /\ at = "calc_ram" => line \in {3, E + 9, E + 12, E + 13}
    /\ at = "init_disk" => line = 18
    /\ at \in {"calc_ram", "init_disk"} => stack = <<>> /\ ~overflowed
    /\ at \in Later => line = E + 18
    /\ timer => at \in Later

HdrSet == hdr \in BOOLEAN /\ (hdr <=> D < line)

StackMapped ==
    /\ mmu => {"image", "uart", "dtb"} \subseteq mapped
    /\ stack_page # 0 => "stack page" \in mapped /\ E + 13 < line
    /\ loaded \in BOOLEAN /\ (loaded => stack_page # 0 /\ E + 15 < line)

Draws ==
    /\ randomNumber \in Nat
    /\ at \notin {"drawing", "panic_with_info", "halted"} => randomNumber = 0
    /\ at = "aborting" => ~loaded
    /\ at = "drawing" => loaded /\ randomNumber <= LoadLimit
    /\ at = "panic_with_info" => loaded
    /\ at = "halted" => loaded

Place == AtLine /\ HdrSet /\ StackMapped /\ Draws

(* The kernel starts at the first line of kernel_main.                     *)
LEMMA InitPlace == Init => Place
<1>1. 1 \in 1 .. E + 17 /\ ~(D < 1)
  BY Sizes
<1> SUFFICES ASSUME Init
             PROVE  Place
  OBVIOUS
<1>2. /\ at = "kernel_main" /\ line = 1 /\ machine \in Machines /\ hdr = FALSE /\ timer = FALSE
      /\ mmu = FALSE /\ loaded = FALSE /\ stack_page = 0 /\ randomNumber = 0
  BY DEF Init
<1>3. AtLine
  BY <1>1, <1>2 DEF AtLine, Later
<1>4. HdrSet
  BY <1>1, <1>2, Zenon DEF HdrSet
<1>5. StackMapped
  BY <1>2, Zenon DEF StackMapped
<1>6. Draws
  BY <1>2 DEF Draws
<1> QED
  BY <1>3, <1>4, <1>5, <1>6 DEF Place

(***************************************************************************)
(* What a statement of kernel_main does whatever its name.                 *)
(***************************************************************************)
LEMMA AtStatement ==
    ASSUME NEW name, Statement(name), Place
    PROVE  /\ at = "kernel_main" /\ line \in 1 .. E + 17 /\ kernel_main[line] = name
           /\ line' = line + 1 /\ stack = <<>> /\ ~overflowed /\ line' \in Nat
           /\ randomNumber = 0
           /\ name # "start_scheduler" => line' \in 1 .. E + 17
           /\ name = "start_scheduler" => line' = E + 18
           /\ name # "dtb_addresses" => (D < line <=> D < line')
           /\ name = "dtb_addresses" => D < line'
<1>1. /\ at = "kernel_main" /\ line \in 1 .. E + 17 /\ kernel_main[line] = name
      /\ line' = line + 1 /\ stack = <<>> /\ ~overflowed /\ randomNumber = 0
  BY DEF Statement, Idle, Place, AtLine, Draws
<1>2. /\ kernel_main[line] = "dtb_addresses" <=> line = D
      /\ kernel_main[line] = "start_scheduler" <=> line = E + 17
  BY <1>1, Positions, Zenon
<1> QED
  BY <1>1, <1>2, Sizes

\* What a statement that neither starts nor ends anything leaves as it is.
(* A statement that leaves a part of the state alone keeps what Place says *)
(* of it.                                                                  *)
LEMMA PlaceStays ==
    ASSUME NEW name, Statement(name), Place, UNCHANGED at
    PROVE  /\ name # "start_scheduler" /\ UNCHANGED <<machine, timer>> => AtLine'
           /\ name # "dtb_addresses" /\ UNCHANGED hdr => HdrSet'
           /\ UNCHANGED <<mmu, mapped, stack_page, loaded>> => StackMapped'
           /\ UNCHANGED <<randomNumber>> => Draws'
<1>1. /\ at = "kernel_main" /\ line' \in Nat /\ randomNumber = 0 /\ line \in 1 .. E + 17
      /\ kernel_main[line] = name /\ line' = line + 1
      /\ name # "start_scheduler" => line' \in 1 .. E + 17
      /\ name # "dtb_addresses" => (D < line <=> D < line')
  BY AtStatement, Zenon
<1>2. ASSUME name # "start_scheduler", UNCHANGED <<machine, timer>>
      PROVE  AtLine'
  BY <1>1, <1>2 DEF Place, AtLine, Later
<1>3. ASSUME name # "dtb_addresses", UNCHANGED hdr
      PROVE  HdrSet'
  BY <1>1, <1>3, Zenon DEF Place, HdrSet
<1>4. ASSUME UNCHANGED <<mmu, mapped, stack_page, loaded>>
      PROVE  StackMapped'
  <2>1. /\ E + 13 < line => E + 13 < line'
        /\ E + 15 < line => E + 15 < line'
    BY <1>1, Sizes
  <2> QED
    BY <1>4, <2>1, Zenon DEF Place, StackMapped
<1>5. ASSUME UNCHANGED randomNumber
      PROVE  Draws'
  BY <1>1, <1>5 DEF Place, Draws
<1> QED
  BY <1>2, <1>3, <1>4, <1>5

(* The prints and the device set-up of kernel_main keep Place.             *)
LEMMA StatementsKeepPlace ==
    ASSUME Place
    PROVE  /\ kprintf => Place'
           /\ kprintf_raw => Place'
           /\ gpu_init => Place'
           /\ set_exception_vectors => Place'
           /\ gic_init => Place'
<1>1. kprintf => Place'
  BY PlaceStays DEF kprintf, cpuVars, dataVars, Place
<1>2. kprintf_raw => Place'
  BY PlaceStays DEF kprintf_raw, cpuVars, dataVars, Place
<1>3. gpu_init => Place'
  BY PlaceStays DEF gpu_init, cpuVars, dataVars, Place
<1>4. set_exception_vectors => Place'
  BY PlaceStays DEF set_exception_vectors, dataVars, Place
<1>5. gic_init => Place'
  BY PlaceStays DEF gic_init, dataVars, Place
<1> QED
  BY <1>1, <1>2, <1>3, <1>4, <1>5

(***************************************************************************)
(* The statements that set at, hdr, the map or the process.                *)
(***************************************************************************)
LEMMA GetterPlace ==
    ASSUME Place, NEW name, NEW var, Getter(name, var),
           name \in {"get_total_ram", "get_total_user_ram", "get_user_ram_start",
                     "get_user_ram_end"}
    PROVE  Place'
<1>1. Statement(name) /\ name # "start_scheduler" /\ name # "dtb_addresses"
  BY DEF Getter
<1>2. /\ UNCHANGED <<machine, hdr, timer, mmu, mapped, loaded, stack_page, randomNumber, stack,
                     overflowed>>
      /\ (at' = "calc_ram" \/ at' = at)
  BY DEF Getter, calcvar, cpuVars, dataVars, printVars
<1>3. CASE at' = at
  BY <1>1, <1>2, <1>3, PlaceStays DEF Place
<1>4. CASE at' = "calc_ram"
  <2>1. /\ at = "kernel_main" /\ line \in 1 .. E + 17 /\ kernel_main[line] = name
        /\ line' = line + 1
        /\ stack = <<>> /\ ~overflowed /\ line' \in Nat /\ randomNumber = 0
        /\ D < line <=> D < line'
    BY <1>1, AtStatement
  <2>2. /\ kernel_main[line] = "get_total_ram" => line = 2
        /\ kernel_main[line] = "get_total_user_ram" => line = E + 8
        /\ kernel_main[line] = "get_user_ram_start" => line = E + 11
        /\ kernel_main[line] = "get_user_ram_end" <=> line = E + 12
    BY <2>1, Positions, Zenon
  <2>3. line \in {2, E + 8, E + 11, E + 12}
    BY <2>1, <2>2
  <2>4. line' \in {3, E + 9, E + 12, E + 13}
    BY <2>1, <2>3, Sizes
  <2>5. AtLine'
    BY <1>2, <1>4, <2>1, <2>4 DEF Place, AtLine, Later
  <2>6. HdrSet'
    BY <1>2, <2>1, Zenon DEF Place, HdrSet
  <2>7. /\ E + 13 < line => E + 13 < line'
        /\ E + 15 < line => E + 15 < line'
    BY <2>1, Sizes
  <2>8. StackMapped'
    BY <1>2, <2>7, Zenon DEF Place, StackMapped
  <2>9. Draws'
    BY <1>2, <1>4, <2>1 DEF Place, Draws
  <2> QED
    BY <2>5, <2>6, <2>8, <2>9 DEF Place
<1> QED
  BY <1>2, <1>3, <1>4

(* The returns of calc_ram and init_disk to kernel_main keep Place.        *)
LEMMA ReturnPlace ==
    ASSUME Place, at \in {"calc_ram", "init_disk"}, at' = "kernel_main",
           UNCHANGED <<machine, line, hdr, timer, mmu, mapped, loaded, stack_page, randomNumber>>
    PROVE  Place'
<1>1. line \in {3, E + 9, E + 12, E + 13, 18} /\ line \in Nat
  BY DEF Place, AtLine
<1>2. line \in 1 .. E + 17
  BY <1>1, Sizes
<1>3. AtLine'
  BY <1>1, <1>2 DEF Place, AtLine, Later
<1>4. HdrSet' /\ StackMapped'
  BY Zenon DEF Place, HdrSet, StackMapped
<1>5. Draws'
  BY DEF Place, Draws
<1> QED
  BY <1>3, <1>4, <1>5 DEF Place

(* The statements that change what Place is about keep it: the disk        *)
(* search, the header, the MMU, the stack page and the process.            *)
LEMMA OthersKeepPlace ==
    ASSUME Place
    PROVE  /\ init_disk => Place'
           /\ dtb_addresses => Place'
           /\ enable_mmu => Place'
           /\ alloc_proc_mem => Place'
           /\ create_kernel_process => Place'
           /\ start_scheduler => Place'
<1>1. ASSUME init_disk
      PROVE  Place'
  <2>1. /\ Statement("init_disk") /\ at' = "init_disk"
        /\ UNCHANGED <<machine, hdr, timer, mmu, mapped, loaded, stack_page, randomNumber,
                       stack, overflowed>>
    BY <1>1 DEF init_disk, cpuVars, dataVars, printVars
  <2>2. /\ at = "kernel_main" /\ line \in 1 .. E + 17 /\ kernel_main[line] = "init_disk"
        /\ line' = line + 1
        /\ stack = <<>> /\ ~overflowed /\ line' \in Nat /\ randomNumber = 0
        /\ D < line <=> D < line'
    BY <2>1, AtStatement
  <2>3. line = 17
    BY <2>2, Positions, Zenon
  <2>4. line' = 18
    BY <2>2, <2>3
  <2>5. AtLine'
    BY <2>1, <2>2, <2>4 DEF Place, AtLine, Later
  <2>6. HdrSet'
    BY <2>1, <2>2, Zenon DEF Place, HdrSet
  <2>7. /\ E + 13 < line => E + 13 < line'
        /\ E + 15 < line => E + 15 < line'
    BY <2>2, Sizes
  <2>8. StackMapped'
    BY <2>1, <2>7, Zenon DEF Place, StackMapped
  <2>9. Draws'
    BY <2>1, <2>2, Zenon DEF Place, Draws
  <2> QED
    BY <2>5, <2>6, <2>8, <2>9 DEF Place
<1>2. ASSUME dtb_addresses
      PROVE  Place'
  <2>1. /\ Statement("dtb_addresses") /\ hdr' = TRUE
        /\ UNCHANGED <<machine, at, timer, mmu, mapped, loaded, stack_page, randomNumber>>
    BY <1>2 DEF dtb_addresses, cpuVars
  <2>2. D < line'
    BY <2>1, AtStatement
  <2>3. HdrSet'
    BY <2>1, <2>2 DEF HdrSet
  <2> QED
    BY <2>1, <2>3, PlaceStays DEF Place
<1>3. ASSUME enable_mmu
      PROVE  Place'
  <2>1. /\ Statement("enable_mmu") /\ mapped' = BootMap
        /\ UNCHANGED <<machine, at, hdr, timer, loaded, stack_page, randomNumber>>
    BY <1>3 DEF enable_mmu, dataVars
  <2>2. line \in 1 .. E + 17 /\ kernel_main[line] = "enable_mmu"
    BY <2>1, AtStatement
  <2>3. line = E + 3
    BY <2>2, Positions, Zenon
  <2>4. ~(E + 15 < line) /\ ~(E + 13 < line)
    BY <2>3, Sizes
  <2>5. loaded = FALSE /\ stack_page = 0
    BY <2>4, Zenon DEF Place, StackMapped
  <2>6. StackMapped'
    BY <2>1, <2>5, Zenon DEF StackMapped, BootMap
  <2> QED
    BY <2>1, <2>6, PlaceStays DEF Place
<1>4. ASSUME alloc_proc_mem
      PROVE  Place'
  <2>1. /\ Statement("alloc_proc_mem")
        /\ UNCHANGED <<machine, at, hdr, timer, mmu, loaded, randomNumber>>
    BY <1>4, Zenon DEF alloc_proc_mem
  <2>2. \/ UNCHANGED <<stack_page, mapped>>
        \/ mapped' = mapped \cup {"stack page"}
    BY <1>4, Zenon DEF alloc_proc_mem
  <2>3. line \in 1 .. E + 17 /\ kernel_main[line] = "alloc_proc_mem" /\ line' = line + 1
    BY <2>1, AtStatement
  <2>4. line = E + 13
    BY <2>3, Positions, Zenon
  <2>5. E + 13 < line' /\ ~(E + 13 < line) /\ ~(E + 15 < line)
    BY <2>3, <2>4, Sizes
  <2>6. loaded = FALSE /\ stack_page = 0
    BY <2>5, Zenon DEF Place, StackMapped
  <2>7. /\ mmu => {"image", "uart", "dtb"} \subseteq mapped'
        /\ stack_page' # 0 => "stack page" \in mapped'
    BY <2>1, <2>6, <2>2, Zenon DEF Place, StackMapped
  <2>8. StackMapped'
    BY <2>1, <2>5, <2>6, <2>7, Zenon DEF StackMapped
  <2>9. AtLine' /\ HdrSet' /\ Draws'
    BY <2>1, PlaceStays, SMTT(30)
  <2> QED
    BY <2>8, <2>9 DEF Place
<1>5. ASSUME create_kernel_process
      PROVE  Place'
  <2>1. /\ Statement("create_kernel_process")
        /\ UNCHANGED <<machine, at, hdr, timer, mmu, mapped, stack_page, randomNumber>>
        /\ \/ UNCHANGED loaded
           \/ loaded' = TRUE /\ stack_page # 0
    BY <1>5 DEF create_kernel_process, cpuVars
  <2>2. line \in 1 .. E + 17 /\ kernel_main[line] = "create_kernel_process" /\ line' = line + 1
    BY <2>1, AtStatement
  <2>3. line = E + 15
    BY <2>2, Positions, Zenon
  <2>4. E + 13 < line' /\ E + 15 < line' /\ ~(E + 15 < line)
    BY <2>2, <2>3, Sizes
  <2>5. loaded = FALSE
    BY <2>4, Zenon DEF Place, StackMapped
  <2>6. StackMapped'
    BY <2>1, <2>4, <2>5, Zenon DEF Place, StackMapped
  <2> QED
    BY <2>1, <2>6, PlaceStays, SMTT(30) DEF Place
<1>6. ASSUME start_scheduler
      PROVE  Place'
  <2>1. /\ Statement("start_scheduler") /\ at' = "process"
        /\ UNCHANGED <<machine, hdr, mmu, mapped, loaded, stack_page, randomNumber>>
    BY <1>6 DEF start_scheduler, dataVars
  <2>2. /\ line' = E + 18 /\ line' \in Nat /\ randomNumber = 0 /\ line \in 1 .. E + 17
        /\ line' = line + 1 /\ (D < line <=> D < line')
    BY <2>1, AtStatement
  <2>3. AtLine'
    BY <2>1, <2>2, SMTT(30) DEF Place, AtLine, Later
  <2>4. HdrSet'
    BY <2>1, <2>2, Zenon DEF Place, HdrSet
  <2>5. E + 13 < line' /\ E + 15 < line'
    BY <2>2, Sizes
  <2>6. StackMapped'
    BY <2>1, <2>5, Zenon DEF Place, StackMapped
  <2>7. Draws'
    BY <2>1, <2>2 DEF Place, Draws
  <2> QED
    BY <2>3, <2>4, <2>6, <2>7 DEF Place
<1> QED
  BY <1>1, <1>2, <1>3, <1>4, <1>5, <1>6

\* After start_scheduler only at, the drawing and the panic change.
(* The boot screen, the aborts and the halt keep Place.                    *)
LEMMA LaterPlace ==
    ASSUME Place
    PROVE  /\ bootscreen => Place'
           /\ draw_step => Place'
           /\ sync_el1_handler => Place'
           /\ draw_panic_screen => Place'
           /\ halt => Place'
<1>1. ASSUME at \in Later, at' \in Later, Draws',
             UNCHANGED <<machine, line, hdr, mmu, mapped, stack_page, loaded>>
      PROVE  Place'
  <2>1. AtLine'
    BY <1>1 DEF Place, AtLine, Later
  <2>2. HdrSet' /\ StackMapped'
    BY <1>1, Zenon DEF Place, HdrSet, StackMapped
  <2> QED
    BY <1>1, <2>1, <2>2 DEF Place
<1>2. ASSUME bootscreen
      PROVE  Place'
  <2>1. /\ at = "process" /\ loaded /\ at' = "drawing"
        /\ UNCHANGED <<machine, line, hdr, mmu, mapped, stack_page, loaded, randomNumber>>
    BY <1>2, Zenon DEF bootscreen, cpuVars, dataVars
  <2>2. randomNumber = 0 /\ 0 <= LoadLimit
    BY <2>1, BootAssumption DEF Place, Draws
  <2>3. Draws'
    BY <2>1, <2>2, BootAssumption DEF Draws
  <2> QED
    BY <1>1, <2>1, <2>3 DEF Later
<1>3. ASSUME draw_step
      PROVE  Place'
  <2>1. /\ at = "drawing" /\ randomNumber' = randomNumber + 1
        /\ at' = IF randomNumber + 1 > LoadLimit THEN "panic_with_info"
                 ELSE IF randomNumber + 1 = Sweep THEN "pause" ELSE at
        /\ UNCHANGED <<machine, line, hdr, mmu, mapped, stack_page, loaded>>
    BY <1>3 DEF draw_step, cpuVars
  <2>2. randomNumber \in Nat /\ randomNumber <= LoadLimit /\ loaded
    BY <2>1 DEF Place, Draws
  <2>3. /\ randomNumber' \in Nat
        /\ \/ at' = "panic_with_info" /\ randomNumber' > LoadLimit
           \/ at' = "drawing" /\ randomNumber' <= LoadLimit
    BY <2>1, <2>2, BootAssumption, SMTT(30)
  <2>4. Draws'
    BY <2>1, <2>2, <2>3 DEF Draws
  <2> QED
    BY <1>1, <2>1, <2>3, <2>4, SMTT(30) DEF Later
<1>4. ASSUME sync_el1_handler
      PROVE  Place'
  <2>1. /\ at = "process" /\ ~loaded /\ at' = "aborting"
        /\ UNCHANGED <<machine, line, hdr, mmu, mapped, stack_page, loaded, randomNumber>>
    BY <1>4, Zenon DEF sync_el1_handler, cpuVars, dataVars
  <2>2. Draws'
    BY <2>1 DEF Place, Draws
  <2> QED
    BY <1>1, <2>1, <2>2 DEF Later
<1>5. ASSUME draw_panic_screen
      PROVE  Place'
  <2>1. /\ at = "panic_with_info"
        /\ UNCHANGED <<machine, at, line, hdr, mmu, mapped, stack_page, loaded, randomNumber>>
    BY <1>5 DEF draw_panic_screen, cpuVars
  <2>2. Draws'
    BY <2>1 DEF Place, Draws
  <2> QED
    BY <1>1, <2>1, <2>2 DEF Later
<1>6. ASSUME halt
      PROVE  Place'
  <2>1. /\ at = "panic_with_info" /\ at' = "halted"
        /\ UNCHANGED <<machine, line, hdr, mmu, mapped, stack_page, loaded, randomNumber>>
    BY <1>6 DEF halt, cpuVars, dataVars
  <2>2. Draws'
    BY <2>1 DEF Place, Draws
  <2> QED
    BY <1>1, <2>1, <2>2 DEF Later
<1> QED
  BY <1>2, <1>3, <1>4, <1>5, <1>6

(* Every step of Boot keeps Place.                                         *)
LEMMA NextPlace ==
    ASSUME Place, [Next]_vars
    PROVE  Place'
<1>1. CASE kprintf \/ kprintf_raw \/ gpu_init \/ set_exception_vectors \/ gic_init
  BY <1>1, StatementsKeepPlace
<1>2. CASE get_total_ram \/ get_total_user_ram \/ get_user_ram_start \/ get_user_ram_end
  BY <1>2, GetterPlace
     DEF get_total_ram, get_total_user_ram, get_user_ram_start, get_user_ram_end
<1>3. CASE init_disk \/ dtb_addresses \/ enable_mmu \/ alloc_proc_mem \/ create_kernel_process
             \/ start_scheduler
  BY <1>3, OthersKeepPlace
<1>4. CASE calc_ram \/ find_virtio_blk_return
  <2>1. /\ at \in {"calc_ram", "init_disk"} /\ at' = "kernel_main"
        /\ UNCHANGED <<machine, line, hdr, timer, mmu, mapped, loaded, stack_page, randomNumber>>
    BY <1>4, Zenon DEF calc_ram, find_virtio_blk_return, cpuVars
  <2> QED
    BY <2>1, ReturnPlace
<1>5. CASE bootscreen \/ draw_step \/ sync_el1_handler \/ draw_panic_screen \/ halt
  BY <1>5, LaterPlace
<1>6. CASE Walk \/ UNCHANGED vars
  <2>1. UNCHANGED <<machine, at, line, hdr, timer, mmu, mapped, loaded, stack_page,
                    randomNumber, stack, overflowed>>
    BY <1>6, Zenon DEF Walk, vars, bootVars, cpuVars, dataVars, printVars
  <2>2. AtLine' /\ HdrSet'
    BY <2>1, Zenon DEF Place, AtLine, HdrSet, Later
  <2>3. StackMapped' /\ Draws'
    BY <2>1, Zenon DEF Place, StackMapped, Draws
  <2> QED
    BY <2>2, <2>3 DEF Place
<1>7. CASE PrintStep /\ UNCHANGED bootVars
  <2>1. UNCHANGED <<machine, at, line, hdr, timer, mmu, mapped, loaded, stack_page,
                    randomNumber>>
    BY <1>7 DEF bootVars, cpuVars, dataVars
  <2>2. stack # <<>>
    BY <1>7, Zenon DEF PrintStep, SerialOnly, check_ready, clear, newline, scroll_return, Leave,
                Driver, In
  <2>3. AtLine' /\ HdrSet'
    BY <2>1, <2>2, Zenon DEF Place, AtLine, HdrSet, Later
  <2>4. StackMapped' /\ Draws'
    BY <2>1, Zenon DEF Place, StackMapped, Draws
  <2> QED
    BY <2>3, <2>4 DEF Place
<1> QED
  BY <1>1, <1>2, <1>3, <1>4, <1>5, <1>6, <1>7 DEF Next, Step, Spin

------------------------------------------------------------------------------
(* The walks kernel_main makes.                                            *)

WalkInv ==
    /\ Walks(scan, machine.tree)
    /\ at = "calc_ram" => scan.search = memory /\ scan.named = hdr
    /\ at = "init_disk" => scan.search = virtio_mmio /\ scan.named = hdr

(* No walk is under way when the kernel starts.                            *)
LEMMA InitWalk == Init => WalkInv
<1>1. NoScan = [dtb_scan(<<>>, FALSE, memory) EXCEPT !.ret = "false"]
  BY DEF NoScan, get_memory_region
<1>2. /\ IsScan(NoScan) /\ NoScan.search = memory /\ NoScan.named = FALSE
      /\ NoScan.match = NoMatch /\ NoScan.ret = "false"
  BY <1>1, Zenon DEF dtb_scan, IsScan
<1>3. ASSUME NEW tree
      PROVE  Walks(NoScan, tree)
  BY <1>2, NoMatchZeroed DEF Walks, Searches
<1> QED
  BY <1>3, Zenon DEF Init, WalkInv

(***************************************************************************)
(* A step either starts a walk, takes it a turn further or leaves it.      *)
(***************************************************************************)
LEMMA NextWalk ==
    ASSUME Place, WalkInv, [Next]_vars
    PROVE  WalkInv'
<1>1. machine \in Machines /\ hdr \in BOOLEAN
  BY DEF Place, AtLine, HdrSet
<1>2. IsTree(machine.tree)
  BY <1>1, BootAssumption
<1>3. memory \in Searches /\ virtio_mmio \in Searches
  BY DEF Searches
<1>4. CASE /\ UNCHANGED <<machine, scan>>
           /\ \/ at' \notin {"calc_ram", "init_disk"}
              \/ UNCHANGED <<at, hdr>>
  BY <1>4 DEF WalkInv
<1>5. CASE get_total_ram \/ get_total_user_ram \/ get_user_ram_start \/ get_user_ram_end
  <2>1. PICK var : calcvar(var) /\ at = "kernel_main" /\ UNCHANGED <<machine, hdr>>
    BY <1>5, Zenon DEF get_total_ram, get_total_user_ram, get_user_ram_start, get_user_ram_end, Getter,
                Statement, dataVars
  <2>2. CASE UNCHANGED <<at, scan>>
    BY <1>4, <2>1, <2>2
  <2>3. CASE at' = "calc_ram" /\ scan' = get_memory_region(machine.tree.words, hdr)
    <3>1. scan' = dtb_scan(machine.tree.words, hdr, memory)
      BY <2>3, SMTT(30) DEF get_memory_region
    <3>2. Walks(scan', machine.tree) /\ scan'.search = memory /\ scan'.named = hdr
      BY <1>1, <1>2, <1>3, <3>1, WalkStarts
    <3> QED
      BY <2>1, <2>3, <3>2, Zenon DEF WalkInv
  <2> QED
    BY <2>1, <2>2, <2>3, SMTT(30) DEF calcvar
<1>6. CASE init_disk
  <2>1. /\ at' = "init_disk" /\ scan' = dtb_scan(machine.tree.words, hdr, virtio_mmio)
        /\ UNCHANGED <<machine, hdr>>
    BY <1>6 DEF init_disk, find_virtio_blk, dataVars
  <2>2. Walks(scan', machine.tree) /\ scan'.search = virtio_mmio /\ scan'.named = hdr
    BY <1>1, <1>2, <1>3, <2>1, WalkStarts, SMTT(30)
  <2> QED
    BY <2>1, <2>2, Zenon DEF WalkInv
<1>7. CASE Walk
  <2>1. /\ scan.ret = "none" /\ scan' = Turn(scan) /\ UNCHANGED <<machine, at, hdr>>
    BY <1>7 DEF Walk, Scanning, dataVars
  <2>2. PICK tree : tree = machine.tree
    OBVIOUS
  <2>3. PICK s : s = scan
    OBVIOUS
  <2>4. PICK n : n = Turn(s)
    OBVIOUS
  <2>5. IsTree(tree) /\ Walks(s, tree) /\ s.ret = "none"
    BY <1>2, <2>1, <2>2, <2>3, SMTT(30) DEF WalkInv
  <2>6. Walks(n, tree) /\ n.search = s.search /\ n.named = s.named
    BY <2>4, <2>5, TurnWalks
  <2>7. scan' = n
    BY <2>1, <2>3, <2>4, SMTT(30)
  <2> QED
    BY <2>1, <2>2, <2>3, <2>6, <2>7, Zenon DEF WalkInv
<1>8. CASE calc_ram \/ find_virtio_blk_return
  BY <1>4, <1>8, Zenon DEF calc_ram, find_virtio_blk_return
<1>9. CASE kprintf \/ kprintf_raw \/ gpu_init \/ set_exception_vectors \/ gic_init
             \/ enable_mmu \/ alloc_proc_mem \/ create_kernel_process
  BY <1>4, <1>9, Zenon DEF kprintf, kprintf_raw, gpu_init, set_exception_vectors, gic_init, enable_mmu,
                    alloc_proc_mem, create_kernel_process, dataVars
<1>10. CASE dtb_addresses \/ start_scheduler
  <2>1. UNCHANGED <<machine, scan>> /\ at' \in {"kernel_main", "process"}
    BY <1>10, Zenon DEF dtb_addresses, start_scheduler, Statement
  <2> QED
    BY <1>4, <2>1, SMTT(30)
<1>11. CASE bootscreen \/ draw_step \/ sync_el1_handler \/ draw_panic_screen \/ halt
  <2>1. UNCHANGED <<machine, scan, hdr>>
    BY <1>11, Zenon DEF bootscreen, draw_step, sync_el1_handler, draw_panic_screen, halt, dataVars
  <2>2. at' \notin {"calc_ram", "init_disk"}
    BY <1>11, Zenon DEF bootscreen, draw_step, sync_el1_handler, draw_panic_screen, halt
  <2> QED
    BY <1>4, <2>1, <2>2
<1>12. CASE (PrintStep /\ UNCHANGED bootVars) \/ UNCHANGED vars
  BY <1>4, <1>12, Zenon DEF vars, bootVars, dataVars
<1> QED
  BY <1>5, <1>6, <1>7, <1>8, <1>9, <1>10, <1>11, <1>12, SMTT(30) DEF Next, Step, Spin

------------------------------------------------------------------------------
(* User memory.                                                            *)

(***************************************************************************)
(* ALIGN_DOWN on what calc_ram aligns.                                     *)
(***************************************************************************)
LEMMA Aligned ==
    /\ AlignDown(kfull_end) = kfull_end /\ AlignDown(0) = 0
    /\ \A page \in Nat : AlignDown(page) \in Nat
<1>1. BLOCK \in Nat \ {0} /\ kfull_end \in Nat /\ kfull_end % BLOCK = 0
  BY BootAssumption
<1>2. (kfull_end \div BLOCK) * BLOCK = kfull_end
  BY <1>1
<1>3. (0 \div BLOCK) * BLOCK = 0
  BY <1>1
<1>4. ASSUME NEW page \in Nat
      PROVE  (page \div BLOCK) * BLOCK \in Nat
  <2>1. page \div BLOCK \in Nat
    BY <1>1
  <2> QED
    BY <1>1, <2>1
<1> QED
  BY <1>2, <1>3, <1>4 DEF AlignDown

(***************************************************************************)
(* The end of RAM the tree describes is a page.                            *)
(***************************************************************************)
LEMMA RamEndPage ==
    ASSUME NEW tree, IsTree(tree)
    PROVE  RamEnd(tree.items) \in Nat
<1>1. PICK items : items = tree.items
  OBVIOUS
<1>2. items \in Seq(Items) /\ Len(items) \in Nat /\ Sized(items)
  BY <1>1, TreeShape, TreeSized, Zenon
<1>3. ASSUME NEW n \in 1 .. Len(items)
      PROVE  RegOf(items, n)[1] \in Nat /\ RegOf(items, n)[2] \in Nat
  <2>1. CASE RegsOf(items, n) = {}
    BY <2>1, SMTT(30) DEF RegOf
  <2>2. CASE RegsOf(items, n) # {}
    <3>1. PICK k : k = CHOOSE r \in RegsOf(items, n) : TRUE
      OBVIOUS
    <3>2. k \in RegsOf(items, n)
      BY <2>2, <3>1
    <3>3. k \in PropsOf(items, n) /\ items[k].len >= 16
      BY <3>2 DEF RegsOf, IsReg
    <3>4. k \in 1 .. Len(items) /\ items[k].kind = "prop"
      BY <1>2, <3>3 DEF PropsOf
    <3>5. Cell64(items[k].value, 1) \in Nat /\ Cell64(items[k].value, 3) \in Nat
      BY <1>2, <3>3, <3>4, CellsRead, Zenon DEF Sized
    <3>6. RegOf(items, n) = <<Cell64(items[k].value, 1), Cell64(items[k].value, 3)>>
      BY <2>2, <3>1 DEF RegOf
    <3> QED
      BY <3>5, <3>6
  <2> QED
    BY <2>1, <2>2
<1>4. CASE First(items, memory) = {}
  BY <1>1, <1>4 DEF RamEnd
<1>5. CASE First(items, memory) # {}
  <2>1. PICK n : n = CHOOSE f \in First(items, memory) : TRUE
    OBVIOUS
  <2>2. n \in 1 .. Len(items)
    BY <1>5, <2>1 DEF First
  <2>3. RegOf(items, n)[1] + RegOf(items, n)[2] \in Nat
    BY <1>3, <2>2
  <2>4. RamEnd(items) = AlignDown(RegOf(items, n)[1] + RegOf(items, n)[2])
    BY <1>5, <2>1 DEF RamEnd
  <2> QED
    BY <1>1, <2>3, <2>4, Aligned
<1> QED
  BY <1>4, <1>5

(***************************************************************************)
(* A walk for the memory that is over agrees with RamEnd.                  *)
(***************************************************************************)
LEMMA EndFound ==
    ASSUME NEW s, NEW items, Agrees(s, items), s.search = memory
    PROVE  /\ s.ret = "true" =>
                AlignDown(s.match.reg_base + s.match.reg_size) = RamEnd(items)
           /\ s.ret = "false" => RamEnd(items) = 0
<1>1. ASSUME s.ret = "true"
      PROVE  AlignDown(s.match.reg_base + s.match.reg_size) = RamEnd(items)
  <2>1. PICK n \in First(items, memory) :
               <<s.match.reg_base, s.match.reg_size>> = RegOf(items, n)
    BY <1>1 DEF Agrees
  <2>2. ASSUME NEW m \in First(items, memory)
        PROVE  m = n
    <3>1. /\ m \in 1 .. Len(items) /\ n \in 1 .. Len(items)
          /\ Wanted(items, memory, m) /\ \A k \in 1 .. m - 1 : ~Wanted(items, memory, k)
          /\ Wanted(items, memory, n) /\ \A k \in 1 .. n - 1 : ~Wanted(items, memory, k)
      BY Zenon DEF First
    <3>2. n \notin 1 .. m - 1 /\ m \notin 1 .. n - 1
      BY <3>1, Zenon
    <3> QED
      BY <3>1, <3>2
  <2>3. (CHOOSE k \in First(items, memory) : TRUE) = n
    BY <2>2
  <2>4. RamEnd(items) = AlignDown(RegOf(items, n)[1] + RegOf(items, n)[2])
    BY <2>1, <2>3, Zenon DEF RamEnd
  <2>5. RegOf(items, n)[1] = s.match.reg_base /\ RegOf(items, n)[2] = s.match.reg_size
    BY <2>1
  <2> QED
    BY <2>4, <2>5, Zenon
<1>2. s.ret = "false" => RamEnd(items) = 0
  BY Zenon DEF Agrees, RamEnd
<1> QED
  BY <1>1, <1>2, Zenon

(***************************************************************************)
(* What the variables of ram_e.c hold.  Before hdr is set calc_ram can     *)
(* only have cached an end of 0; so get_user_ram_end calculates it again.  *)
(***************************************************************************)
RamCached ==
    /\ ram.calculated_ram_start \in {0, kfull_end}
    /\ (ram.calculated_ram_start = 0 \/ hdr = FALSE) => ram.calculated_ram_end = 0
    /\ at = "calc_ram" /\ line = E + 13 => ram.calculated_ram_end = 0
    /\ Readable(machine.tree.items, memory) =>
         /\ ram.calculated_ram_end \in {0, RamEnd(machine.tree.items)}
         /\ at # "calc_ram" /\ E + 12 < line =>
              ram.calculated_ram_end = RamEnd(machine.tree.items)

\* The stack of the first process, and its slot, by what RAM there is.
StackTaken ==
    /\ stack_page # 0 => /\ stack_page = kfull_end
                         /\ kfull_end + 1 <= ram.calculated_ram_end
    /\ stack_page = 0 /\ E + 13 < line =>
         ~(ram.calculated_ram_start + 1 <= ram.calculated_ram_end)
    /\ E + 15 < line => (loaded <=> stack_page # 0)

MemoryInv == RamCached /\ StackTaken

(* No RAM is known and no stack is taken when the kernel starts.           *)
LEMMA InitMemory == Init => MemoryInv
<1> SUFFICES ASSUME Init
             PROVE  MemoryInv
  OBVIOUS
<1>1. /\ ram.calculated_ram_start = 0 /\ ram.calculated_ram_end = 0 /\ line = 1
      /\ at = "kernel_main" /\ stack_page = 0
  BY Zenon DEF Init
<1>2. ~(E + 12 < 1) /\ ~(E + 13 < 1) /\ ~(E + 15 < 1)
  BY Sizes
<1> QED
  BY <1>1, <1>2, SMTT(30) DEF MemoryInv, RamCached, StackTaken

\* Steps that leave what was calculated, and do not ask for it.
(* A step that neither finds RAM nor passes the getters keeps what is      *)
(* cached.                                                                 *)
LEMMA RamStays ==
    ASSUME RamCached, UNCHANGED <<machine, ram>>, hdr' = FALSE => hdr = FALSE,
           \/ UNCHANGED <<at, line>>
           \/ at # "calc_ram" /\ at' # "calc_ram" /\ (E + 12 < line' => E + 12 < line)
    PROVE  RamCached'
BY Zenon DEF RamCached

(***************************************************************************)
(* A statement passes the line of get_user_ram_end only by that getter.    *)
(***************************************************************************)
LEMMA StatementKeepsRam ==
    ASSUME Place, RamCached, NEW name, Statement(name), name # "get_user_ram_end",
           UNCHANGED <<machine, ram>>, hdr' = FALSE => hdr = FALSE, at' # "calc_ram"
    PROVE  RamCached'
<1>1. at = "kernel_main" /\ line \in 1 .. E + 17 /\ kernel_main[line] = name /\ line' = line + 1
  BY AtStatement, Zenon
<1>2. line # E + 12
  BY <1>1, Positions, Zenon
<1>3. E + 12 < line' => E + 12 < line
  BY <1>1, <1>2, Sizes
<1> QED
  BY <1>1, <1>3, RamStays, Zenon

(* A getter of ram_e.c caches the end of RAM or starts the walk that finds *)
(* it.                                                                     *)
LEMMA GetterKeepsRam ==
    ASSUME Place, RamCached, NEW name, NEW var, Getter(name, var),
           \/ name \in {"get_total_ram", "get_total_user_ram", "get_user_ram_start"}
           \/ name = "get_user_ram_end" /\ var = "calculated_ram_end"
    PROVE  RamCached'
<1>1. Statement(name) /\ calcvar(var) /\ UNCHANGED <<machine, ram, hdr>>
  BY DEF Getter, dataVars
<1>2. at = "kernel_main" /\ line \in 1 .. E + 17 /\ kernel_main[line] = name /\ line' = line + 1
  BY <1>1, AtStatement, Zenon
<1>3. CASE name # "get_user_ram_end"
  <2>1. line # E + 12
    BY <1>2, <1>3, Positions, Zenon
  <2>2. (E + 12 < line' => E + 12 < line) /\ line' # E + 13
    BY <1>2, <2>1, Sizes
  <2>3. at' = "calc_ram" \/ at' = at
    BY <1>1 DEF calcvar
  <2> QED
    BY <1>1, <1>2, <2>2, <2>3, Zenon DEF RamCached
<1>4. CASE name = "get_user_ram_end"
  <2>1. var = "calculated_ram_end" /\ ram[var] = ram.calculated_ram_end
    BY <1>4
  <2>2. CASE ram.calculated_ram_end = 0
    <3>1. at' = "calc_ram"
      BY <1>1, <2>1, <2>2 DEF calcvar
    <3> QED
      BY <1>1, <2>2, <3>1, Zenon DEF RamCached
  <2>3. CASE ram.calculated_ram_end # 0
    <3>1. at' = "kernel_main"
      BY <1>1, <1>2, <2>1, <2>3, Zenon DEF calcvar
    <3> QED
      BY <1>1, <2>3, <3>1, Zenon DEF RamCached
  <2> QED
    BY <2>2, <2>3
<1> QED
  BY <1>3, <1>4

(***************************************************************************)
(* calc_ram stores what the walk found.                                    *)
(***************************************************************************)
LEMMA CalcKeepsRam ==
    ASSUME Place, WalkInv, RamCached, calc_ram
    PROVE  RamCached'
<1>1. /\ at = "calc_ram" /\ at' = "kernel_main" /\ scan.ret # "none"
      /\ UNCHANGED <<machine, line, hdr>>
  BY DEF calc_ram, Scanning
<1>2. PICK tree, items : tree = machine.tree /\ items = tree.items
  OBVIOUS
<1>3. /\ scan.search = memory /\ scan.named = hdr /\ Walks(scan, tree)
  BY <1>1, <1>2 DEF WalkInv
<1>4. IsTree(tree)
  BY <1>2, BootAssumption, Zenon DEF Place, AtLine
<1>5. hdr \in BOOLEAN /\ (E + 12 < line => hdr = TRUE)
  <2>1. line \in Nat /\ hdr \in BOOLEAN /\ (hdr <=> D < line)
    BY Zenon DEF Place, AtLine, HdrSet
  <2>2. E + 12 < line => D < line
    BY <2>1, Sizes, SMTT(30)
  <2> QED
    BY <2>1, <2>2
<1>6. ASSUME hdr = TRUE, Readable(items, memory)
      PROVE  Agrees(scan, items)
  BY <1>1, <1>2, <1>3, <1>6, Zenon DEF Walks, Reads
<1>7. CASE scan.ret = "true"
  <2>1. PICK base, size : base = scan.match.reg_base /\ size = scan.match.reg_size
    OBVIOUS
  <2>2. ram' = Region(base, size)
    BY <1>7, <2>1, Zenon DEF calc_ram
  <2>3. /\ ram'.calculated_ram_start = kfull_end
        /\ ram'.calculated_ram_end = AlignDown(base + size)
    BY <2>2, Aligned, Zenon DEF Region
  <2>4. kfull_end # 0
    BY BootAssumption
  <2>5. hdr = FALSE => base = 0 /\ size = 0
    BY <1>3, <2>1, Zenon DEF Walks, Zeroed
  <2>6. hdr = FALSE => AlignDown(base + size) = 0
    BY <2>5, Aligned, SMTT(30)
  <2>7. hdr = TRUE /\ Readable(items, memory) => AlignDown(base + size) = RamEnd(items)
    BY <1>3, <1>6, <1>7, <2>1, EndFound, Zenon
  <2>8. RamCached'
    BY <1>1, <1>2, <1>5, <2>3, <2>4, <2>6, <2>7, Zenon DEF RamCached
  <2> QED
    BY <2>8
<1>8. CASE scan.ret # "true"
  <2>1. UNCHANGED ram
    BY <1>8 DEF calc_ram
  <2>2. E + 12 < line => ram.calculated_ram_end = 0
    <3>1. line \in {3, E + 9, E + 12, E + 13}
      BY <1>1 DEF Place, AtLine
    <3>2. E + 12 < line => line = E + 13
      BY <3>1, Sizes, SMTT(30)
    <3> QED
      BY <1>1, <3>2, SMTT(30) DEF RamCached
  <2>3. hdr = TRUE /\ Readable(items, memory) => RamEnd(items) = 0
    <3>1. scan.ret = "false"
      BY <1>1, <1>3, <1>8, SMTT(30) DEF Walks
    <3> QED
      BY <1>3, <1>6, <3>1, EndFound, Zenon
  <2> QED
    BY <1>1, <1>2, <1>5, <2>1, <2>2, <2>3, Zenon DEF RamCached
<1> QED
  BY <1>7, <1>8, SMTT(30)

\* Steps that leave the RAM, the stack and the slot, and pass no line of theirs.
(* A step that takes no page and passes neither statement keeps the stack. *)
LEMMA StackStays ==
    ASSUME StackTaken, UNCHANGED <<ram, stack_page, loaded>>,
           E + 13 < line' => E + 13 < line, E + 15 < line' => E + 15 < line
    PROVE  StackTaken'
BY DEF StackTaken

(* A statement other than the two that take a page and load it keeps the   *)
(* stack.                                                                  *)
LEMMA StatementKeepsStack ==
    ASSUME Place, StackTaken, NEW name, Statement(name), UNCHANGED <<ram, stack_page, loaded>>,
           name \notin {"alloc_proc_mem", "create_kernel_process"}
    PROVE  StackTaken'
<1>1. line \in 1 .. E + 17 /\ kernel_main[line] = name /\ line' = line + 1
  BY AtStatement, Zenon
<1>2. line # E + 13 /\ line # E + 15
  BY <1>1, Positions, Zenon
<1>3. (E + 13 < line' => E + 13 < line) /\ (E + 15 < line' => E + 15 < line)
  BY <1>1, <1>2, Sizes
<1> QED
  BY <1>3, StackStays

(***************************************************************************)
(* alloc_proc_mem takes the first page of user RAM if there is one, and    *)
(* create_kernel_process fills in the slot if there is a stack.            *)
(***************************************************************************)
LEMMA ProcessKeepsStack ==
    ASSUME Place, RamCached, StackTaken
    PROVE  /\ alloc_proc_mem => StackTaken'
           /\ create_kernel_process => StackTaken'
<1>1. ASSUME alloc_proc_mem
      PROVE  StackTaken'
  <2>1. Statement("alloc_proc_mem") /\ UNCHANGED <<ram, loaded>>
    BY <1>1, Zenon DEF alloc_proc_mem
  <2>2. line \in 1 .. E + 17 /\ kernel_main[line] = "alloc_proc_mem" /\ line' = line + 1
    BY <2>1, AtStatement, Zenon
  <2>3. line = E + 13
    BY <2>2, Positions, Zenon
  <2>4. ~(E + 13 < line) /\ ~(E + 15 < line')
    BY <2>2, <2>3, Sizes
  <2>5. stack_page = 0
    BY <2>4, Zenon DEF Place, StackMapped
  <2>6. CASE ram.calculated_ram_start + 1 <= ram.calculated_ram_end
    <3>1. stack_page' = ram.calculated_ram_start
      BY <1>1, <2>6, Zenon DEF alloc_proc_mem
    <3>2. ram.calculated_ram_start = kfull_end
      <4>1. ram.calculated_ram_start = 0 => ram.calculated_ram_end = 0
        BY DEF RamCached
      <4>2. ~(0 + 1 <= 0)
        OBVIOUS
      <4> QED
        BY <2>6, <4>1, <4>2, SMTT(30) DEF RamCached
    <3>3. kfull_end # 0
      BY BootAssumption
    <3> QED
      BY <2>1, <2>4, <2>6, <3>1, <3>2, <3>3, SMTT(30) DEF StackTaken
  <2>7. CASE ~(ram.calculated_ram_start + 1 <= ram.calculated_ram_end)
    <3>1. UNCHANGED stack_page
      BY <1>1, <2>7, Zenon DEF alloc_proc_mem
    <3> QED
      BY <2>1, <2>4, <2>5, <2>7, <3>1, SMTT(30) DEF StackTaken
  <2> QED
    BY <2>6, <2>7
<1>2. ASSUME create_kernel_process
      PROVE  StackTaken'
  <2>1. Statement("create_kernel_process") /\ UNCHANGED <<ram, stack_page>>
    BY <1>2, Zenon DEF create_kernel_process
  <2>2. line \in 1 .. E + 17 /\ kernel_main[line] = "create_kernel_process" /\ line' = line + 1
    BY <2>1, AtStatement, Zenon
  <2>3. line = E + 15
    BY <2>2, Positions, Zenon
  <2>4. E + 13 < line /\ ~(E + 15 < line)
    BY <2>2, <2>3, Sizes
  <2>5. loaded = FALSE
    BY <2>4, Zenon DEF Place, StackMapped
  <2>6. IF stack_page # 0 THEN loaded' = TRUE ELSE UNCHANGED loaded
    BY <1>2 DEF create_kernel_process
  <2>7. loaded' <=> stack_page # 0
    BY <2>5, <2>6, SMTT(30)
  <2> QED
    BY <2>1, <2>4, <2>7, Zenon DEF StackTaken
<1> QED
  BY <1>1, <1>2

(* Every step of Boot keeps MemoryInv.                                     *)
LEMMA NextMemory ==
    ASSUME Place, WalkInv, MemoryInv, [Next]_vars
    PROVE  MemoryInv'
<1> SUFFICES RamCached' /\ StackTaken'
  BY DEF MemoryInv
<1>1. RamCached /\ StackTaken
  BY DEF MemoryInv
<1>2. CASE kprintf \/ kprintf_raw \/ gpu_init \/ set_exception_vectors \/ gic_init
             \/ enable_mmu \/ init_disk \/ start_scheduler \/ dtb_addresses
  <2>1. PICK name :
           /\ Statement(name)
           /\ name \notin {"get_user_ram_end", "alloc_proc_mem", "create_kernel_process"}
           /\ at' # "calc_ram" /\ UNCHANGED <<machine, ram, stack_page, loaded>>
           /\ (hdr' = hdr \/ hdr' = TRUE)
    <3>1. CASE kprintf \/ kprintf_raw \/ gpu_init \/ set_exception_vectors \/ gic_init
                 \/ enable_mmu
      BY <3>1, Zenon DEF kprintf, kprintf_raw, gpu_init, set_exception_vectors, gic_init, enable_mmu,
                  dataVars, Statement
    <3>2. CASE init_disk \/ start_scheduler \/ dtb_addresses
      BY <3>2, Zenon DEF init_disk, start_scheduler, dtb_addresses, dataVars, Statement
    <3> QED
      BY <1>2, <3>1, <3>2, ZenonT(40)
  <2>2. RamCached'
    BY <1>1, <2>1, StatementKeepsRam, Zenon
  <2>3. StackTaken'
    BY <1>1, <2>1, StatementKeepsStack, SMTT(30)
  <2> QED
    BY <2>2, <2>3
<1>3. CASE get_total_ram \/ get_total_user_ram \/ get_user_ram_start \/ get_user_ram_end
  <2>1. RamCached'
    BY <1>1, <1>3, GetterKeepsRam
      , SMTT(30) DEF get_total_ram, get_total_user_ram, get_user_ram_start, get_user_ram_end
  <2>2. PICK name : /\ Statement(name) /\ UNCHANGED <<ram, stack_page, loaded>>
                    /\ name \notin {"alloc_proc_mem", "create_kernel_process"}
    BY <1>3 DEF get_total_ram, get_total_user_ram, get_user_ram_start, get_user_ram_end, Getter,
                dataVars
  <2> QED
    BY <1>1, <2>1, <2>2, StatementKeepsStack, Zenon
<1>4. CASE alloc_proc_mem \/ create_kernel_process
  <2>1. PICK name :
           /\ Statement(name) /\ name # "get_user_ram_end"
           /\ at' # "calc_ram" /\ UNCHANGED <<machine, ram, hdr>>
    BY <1>4, Zenon DEF alloc_proc_mem, create_kernel_process, Statement
  <2>2. RamCached'
    BY <1>1, <2>1, StatementKeepsRam, Zenon
  <2> QED
    BY <1>1, <1>4, <2>2, ProcessKeepsStack, SMTT(30)
<1>5. CASE calc_ram
  <2>1. RamCached'
    BY <1>1, <1>5, CalcKeepsRam, SMTT(30)
  <2>2. at = "calc_ram" /\ UNCHANGED <<line, stack_page, loaded>>
    BY <1>5, Zenon DEF calc_ram
  <2>3. line \in {3, E + 9, E + 12, E + 13}
    BY <2>2, Zenon DEF Place, AtLine
  <2>4. ~(E + 13 < line) /\ ~(E + 15 < line)
    BY <2>3, Sizes
  <2>5. stack_page = 0
    BY <2>4, Zenon DEF Place, StackMapped
  <2>6. StackTaken'
    BY <2>2, <2>4, <2>5, Zenon DEF StackTaken
  <2> QED
    BY <2>1, <2>6
<1>6. CASE find_virtio_blk_return
  <2>1. /\ at = "init_disk" /\ at' = "kernel_main"
        /\ UNCHANGED <<machine, hdr, ram, line, stack_page, loaded>>
    BY <1>6, Zenon DEF find_virtio_blk_return
  <2> QED
    BY <1>1, <2>1, RamStays, StackStays, Zenon
<1>7. CASE bootscreen \/ draw_step \/ sync_el1_handler \/ draw_panic_screen \/ halt
  <2>1. UNCHANGED <<machine, hdr, ram, line, stack_page, loaded>>
    BY <1>7, Zenon DEF bootscreen, draw_step, sync_el1_handler, draw_panic_screen, halt, dataVars
  <2>2. at # "calc_ram" /\ at' # "calc_ram"
    BY <1>7, Zenon DEF bootscreen, draw_step, sync_el1_handler, draw_panic_screen, halt
  <2> QED
    BY <1>1, <2>1, <2>2, RamStays, StackStays, Zenon
<1>8. CASE Walk \/ (PrintStep /\ UNCHANGED bootVars) \/ UNCHANGED vars
  <2>1. UNCHANGED <<machine, hdr, ram, at, line, stack_page, loaded>>
    BY <1>8, Zenon DEF Walk, vars, bootVars, dataVars
  <2> QED
    BY <1>1, <2>1, RamStays, StackStays, Zenon
<1> QED
  BY <1>2, <1>3, <1>4, <1>5, <1>6, <1>7, <1>8, Zenon DEF Next, Step, Spin

------------------------------------------------------------------------------
(* What booting guarantees about memory, for every machine.                *)

BootInv == Place /\ WalkInv /\ MemoryInv

(***************************************************************************)
(* Where kernel_main is, what the walk of the tree has read and what       *)
(* ram_e.c has cached fit together at every step.                          *)
(***************************************************************************)
THEOREM BootInvariant == Spec => []BootInv
<1>1. Init => BootInv
  BY InitPlace, InitWalk, InitMemory DEF BootInv
<1>2. BootInv /\ [Next]_vars => BootInv'
  BY NextPlace, NextWalk, NextMemory, Zenon DEF BootInv
<1> QED
  BY <1>1, <1>2, PTL DEF Spec

\* The last walk is over, went through hdr, and could read what it passed.
LookupOver ==
    /\ ~Scanning(scan) /\ scan.named = TRUE
    /\ Readable(machine.tree.items, scan.search)

(***************************************************************************)
(* Every walk of dtb_scan through hdr over a tree of any size that it can  *)
(* read up to the node it looks for, whatever stands behind that node,     *)
(* returns base and size of the first memory node, or of the first block   *)
(* device, or false if there is none.                                      *)
(***************************************************************************)
THEOREM LookupsAgree == Spec => [](LookupOver => Agrees(scan, machine.tree.items))
<1>1. BootInv => (LookupOver => Agrees(scan, machine.tree.items))
  BY Zenon DEF BootInv, WalkInv, Walks, Reads, Scanning, LookupOver
<1> QED
  BY <1>1, BootInvariant, PTL

(***************************************************************************)
(* alloc_proc_mem hands out a page above the image and inside the RAM the  *)
(* tree describes, whatever get_total_ram cached before hdr was set.       *)
(***************************************************************************)
THEOREM StackFromRam == Spec => []StackInRam
<1>1. ASSUME BootInv
      PROVE  StackInRam
  <2>1. ASSUME stack_page # 0
        PROVE  /\ kfull_end <= stack_page /\ stack_page + 1 <= ram.calculated_ram_end
               /\ Readable(machine.tree.items, memory) =>
                    ram.calculated_ram_end = RamEnd(machine.tree.items)
    <3>1. /\ stack_page = kfull_end /\ kfull_end + 1 <= ram.calculated_ram_end
          /\ E + 13 < line /\ line \in Nat
      BY <1>1, <2>1, Zenon DEF BootInv, MemoryInv, StackTaken, Place, StackMapped, AtLine
    <3>2. kfull_end <= kfull_end
      BY BootAssumption
    <3>3. E + 12 < line /\ line \notin {3, E + 9, E + 12, E + 13}
      BY <3>1, Sizes, SMTT(30)
    <3>4. at # "calc_ram"
      BY <1>1, <3>3, Zenon DEF BootInv, Place, AtLine
    <3> QED
      BY <1>1, <3>1, <3>2, <3>3, <3>4, Zenon DEF BootInv, MemoryInv, RamCached
  <2> QED
    BY <2>1, Zenon DEF StackInRam
<1> QED
  BY <1>1, BootInvariant, PTL

(***************************************************************************)
(* Booting that ends, ends in the panic of the boot screen on machines     *)
(* with a page of RAM above the image and in the half-made process on the  *)
(* others, for every tree dtb_scan can read as far as its memory node.     *)
(***************************************************************************)
THEOREM BootScreenByMemory == Spec => []BootScreenIffMemory
<1>1. ASSUME BootInv, at \in {"halted", "aborting"}, Readable(machine.tree.items, memory)
      PROVE  at = "halted" <=> RamEnd(machine.tree.items) > kfull_end
  <2>1. PICK end : end = RamEnd(machine.tree.items)
    OBVIOUS
  <2>2. line = E + 18 /\ machine \in Machines
    BY <1>1, Zenon DEF BootInv, Place, AtLine, Later
  <2>3. IsTree(machine.tree)
    BY <2>2, BootAssumption, Zenon
  <2>4. end \in Nat /\ kfull_end \in Nat \ {0}
    BY <2>1, <2>3, RamEndPage, BootAssumption, Zenon
  <2>5. E + 12 < line /\ E + 13 < line /\ E + 15 < line
    BY <2>2, Sizes, SMTT(30)
  <2>6. ram.calculated_ram_end = end
    BY <1>1, <2>1, <2>5, Zenon DEF BootInv, MemoryInv, RamCached
  <2>7. loaded <=> at = "halted"
    BY <1>1 DEF BootInv, Place, Draws
  <2>8. loaded <=> stack_page # 0
    BY <1>1, <2>5, Zenon DEF BootInv, MemoryInv, StackTaken
  <2>9. stack_page # 0 => kfull_end + 1 <= end
    BY <1>1, <2>6, Zenon DEF BootInv, MemoryInv, StackTaken
  <2>10. ASSUME stack_page = 0
         PROVE  ~(end > kfull_end)
    <3>1. ~(ram.calculated_ram_start + 1 <= end)
      BY <1>1, <2>5, <2>6, <2>10, Zenon DEF BootInv, MemoryInv, StackTaken
    <3>2. /\ ram.calculated_ram_start \in {0, kfull_end}
          /\ ram.calculated_ram_start = 0 => end = 0
      BY <1>1, <2>6, Zenon DEF BootInv, MemoryInv, RamCached
    <3> QED
      BY <2>4, <3>1, <3>2, SMTT(30)
  <2>11. end > kfull_end <=> stack_page # 0
    BY <2>4, <2>9, <2>10
  <2> QED
    BY <2>1, <2>7, <2>8, <2>11, Zenon
<1>2. BootInv => BootScreenIffMemory
  BY <1>1, Zenon DEF BootScreenIffMemory
<1> QED
  BY <1>2, BootInvariant, PTL

------------------------------------------------------------------------------
(* The prints.                                                             *)

VIRTIO == "VIRTIO_GPU_PCI"
Texts == [fn : {"kprintf"}, at : {"text", "cleared", "scrolled", "return"}, raw : BOOLEAN,
          left : {0}]
Clears == {Clearing(left) : left \in 0 .. 7}
Frames == Texts \cup Clears

\* IRQs are masked from timer_init on, but for the panic and the zero slot.
Undisturbed ==
    \/ timer = FALSE \/ masked = TRUE \/ at = "halted"
    \/ at = "process" /\ loaded = FALSE

\* Without the VirtIO GPU a print is alone on the stack, but for the gpu_clear
\* it calls, which prints nothing; and no process prints.
Quiet ==
    /\ \/ stack = <<>>
       \/ stack = <<Clearing(0)>>
       \/ \E f \in Texts : /\ stack = <<f>> \/ stack = <<f, Clearing(0)>>
                           /\ timer = FALSE
    /\ Undisturbed

\* With the VirtIO GPU, once a scroll has called vgp_clear with the cursor below
\* the rows: every print inside scrolls again.
Sunk ==
    /\ is_initialized = TRUE /\ cursor_y >= rows
    /\ \E b \in Seq(Frames), x \in Frames :
         /\ stack = Append(b, x)
         /\ x = Clearing(7) \/ (x \in Texts /\ x.at = "text")

\* The first print with the screen: line is already past it.
FirstPrint ==
    \/ \E f \in Texts : stack = <<f>> /\ f.at = "text"
    \/ /\ is_initialized = TRUE
       /\ \/ stack = <<>>
          \/ \E f \in Texts : stack = <<f>> /\ f.at \in {"cleared", "return"}
          \/ \E f \in Texts, c \in Clears : stack = <<f, c>> /\ f.at = "cleared"
          \/ \E f \in Texts, c \in Clears, g \in Texts :
               stack = <<f, c, g>> /\ f.at = "cleared" /\ g.at \in {"text", "return"}

\* The prints after it: each has moved the cursor down when it returns.
LaterPrint ==
    /\ is_initialized = TRUE
    /\ \/ stack = <<>> /\ cursor_y >= line - D - 1
       \/ \E f \in Texts : stack = <<f>> /\ f.at = "return" /\ cursor_y >= line - D - 1
       \/ \E f \in Texts : stack = <<f>> /\ f.at = "text" /\ cursor_y >= line - D - 2

Shallow ==
    /\ cursor_y < rows
    /\ line = 7 => stack = <<>> /\ is_initialized = FALSE
    /\ line = 8 => FirstPrint
    /\ line > 8 => LaterPrint

\* With the VirtIO GPU the prints of mmu_init, one for each page of the tree,
\* are as far as kernel_main gets.
Doomed ==
    /\ at \in {"kernel_main", "init_disk"} /\ line \in 7 .. E + 1
    /\ use_visual = TRUE /\ is_initialized \in BOOLEAN /\ cursor_y \in Nat
    /\ timer = FALSE
    /\ overflowed = TRUE \/ (overflowed = FALSE /\ (Sunk \/ Shallow))

\* Until gpu_init nothing is shown.
NoScreen ==
    /\ chosen_GPU = "NONE" /\ is_initialized = FALSE /\ cursor_y = 0 /\ use_visual = TRUE
    /\ \/ stack = <<>>
       \/ \E f \in Texts : stack = <<f>> /\ f.at \in {"text", "return"}

NestInv ==
    /\ overflowed \in BOOLEAN /\ timer \in BOOLEAN
    /\ line <= 6 => NoScreen
    /\ chosen_GPU = VIRTIO => Doomed
    /\ chosen_GPU # VIRTIO => Quiet

(***************************************************************************)
(* The frames of the call stack.                                           *)
(***************************************************************************)
LEMMA TextFrame ==
    /\ \A f \in Texts : f.fn = "kprintf" /\ f.raw \in BOOLEAN /\ f \in Frames
                        /\ f.at \in {"text", "cleared", "scrolled", "return"}
    /\ \A raw \in BOOLEAN, a \in {"text", "cleared", "scrolled", "return"} :
         /\ Printing(a, raw) \in Texts /\ Printing(a, raw) \in Frames
         /\ Printing(a, raw).at = a /\ Printing(a, raw).raw = raw
BY Zenon DEF Texts, Frames, Printing

(* The frame of a gpu_clear that has left prints to make, field by field.  *)
LEMMA ClearFrame ==
    \A left \in 0 .. 7 :
        /\ Clearing(left) \in Clears /\ Clearing(left) \in Frames
        /\ Clearing(left).fn = "gpu_clear" /\ Clearing(left).at = "print"
        /\ Clearing(left).left = left
BY Zenon DEF Clears, Frames, Clearing

(* Stacks of one, two and three frames are pushed frame by frame.          *)
LEMMA Stacks ==
    /\ <<>> \in Seq(Frames)
    /\ \A b \in Seq(Frames), x \in Frames : Append(b, x) \in Seq(Frames)
    /\ \A x, y, z \in Frames : /\ Append(<<>>, x) = <<x>> /\ Append(<<x>>, y) = <<x, y>>
                              /\ Append(<<x, y>>, z) = <<x, y, z>>
<1>1. <<>> \in Seq(Frames)
  OBVIOUS
<1>2. \A b \in Seq(Frames), x \in Frames : Append(b, x) \in Seq(Frames)
  OBVIOUS
<1>3. ASSUME NEW x \in Frames, NEW y \in Frames, NEW z \in Frames
      PROVE  /\ Append(<<>>, x) = <<x>> /\ Append(<<x>>, y) = <<x, y>>
             /\ Append(<<x, y>>, z) = <<x, y, z>>
  <2>1. Append(<<>>, x) = <<x>>
    OBVIOUS
  <2>2. Append(<<x>>, y) = <<x, y>>
    <3>1. <<x>> \in Seq(Frames) /\ Len(<<x>>) = 1
      OBVIOUS
    <3>2. PICK s, t : s = Append(<<x>>, y) /\ t = <<x, y>>
      BY Zenon
    <3>3. s \in Seq(Frames) /\ Len(s) = 2 /\ s[1] = x /\ s[2] = y
      BY <3>1, <3>2
    <3>4. t \in Seq(Frames) /\ Len(t) = 2 /\ t[1] = x /\ t[2] = y
      BY <3>2
    <3>5. \A i \in 1 .. Len(s) : s[i] = t[i]
      BY <3>3, <3>4
    <3> QED
      BY <3>2, <3>3, <3>4, <3>5, SameSequence, Zenon
  <2>3. Append(<<x, y>>, z) = <<x, y, z>>
    <3>1. <<x, y>> \in Seq(Frames) /\ Len(<<x, y>>) = 2
      OBVIOUS
    <3>2. PICK s, t : s = Append(<<x, y>>, z) /\ t = <<x, y, z>>
      BY Zenon
    <3>3. s \in Seq(Frames) /\ Len(s) = 3 /\ s[1] = x /\ s[2] = y /\ s[3] = z
      BY <3>1, <3>2
    <3>4. t \in Seq(Frames) /\ Len(t) = 3 /\ t[1] = x /\ t[2] = y /\ t[3] = z
      BY <3>2
    <3>5. \A i \in 1 .. Len(s) : s[i] = t[i]
      BY <3>3, <3>4
    <3> QED
      BY <3>2, <3>3, <3>4, <3>5, SameSequence, Zenon
  <2> QED
    BY <2>1, <2>2, <2>3, Zenon
<1> QED
  BY <1>1, <1>2, <1>3, Zenon

\* The top frame, and what is below it.
Stacked(b, x) == b \in Seq(Frames) /\ x \in Frames /\ stack = Append(b, x)

(* Top and Below of a stack with a known last frame.                       *)
LEMMA TopBelow ==
    ASSUME NEW b, NEW x, Stacked(b, x)
    PROVE  Top = x /\ Below = b /\ stack # <<>>
<1>1. b \in Seq(Frames) /\ x \in Frames /\ stack = Append(b, x) /\ Len(b) \in Nat
  BY DEF Stacked
<1>2. Len(stack) = Len(b) + 1 /\ stack[Len(b) + 1] = x /\ stack # <<>>
  BY <1>1
<1>3. SubSeq(stack, 1, Len(b)) = b
  BY <1>1
<1> QED
  BY <1>1, <1>2, <1>3 DEF Top, Below

\* A call: one frame more, or the end of the stack.
Pushed(frames, frame) ==
    \/ overflowed' = TRUE /\ stack' = stack
    \/ overflowed' = FALSE /\ stack' = Append(frames, frame)

(* A call pushes a frame or overflows the stack.                           *)
LEMMA PushPushes ==
    ASSUME NEW frames, NEW frame, Push(frames, frame), overflowed = FALSE
    PROVE  Pushed(frames, frame)
BY Zenon DEF Push, Pushed

Replaced(frames) == overflowed' = FALSE /\ stack' = frames

(***************************************************************************)
(* What a step does, by the top frame.                                     *)
(***************************************************************************)
LEMMA TextStep ==
    ASSUME NEW b, NEW x, Stacked(b, x), x \in Texts, x.at = "text", overflowed = FALSE, PrintStep
    PROVE  /\ UNCHANGED <<masked, use_visual, chosen_GPU>>
           /\ \/ ~Visible /\ Replaced(Append(b, Printing("return", x.raw)))
                 /\ UNCHANGED <<is_initialized, cursor_y>>
              \/ Visible /\ ~is_initialized /\ is_initialized' = TRUE /\ UNCHANGED cursor_y
                 /\ Pushed(Append(b, Printing("cleared", x.raw)), gpu_clear)
              \/ Visible /\ is_initialized /\ UNCHANGED is_initialized
                 /\ cursor_y' = cursor_y + 1
                 /\ IF cursor_y + 1 >= rows
                    THEN Pushed(Append(b, Printing("scrolled", x.raw)), gpu_clear)
                    ELSE Replaced(Append(b, Printing("return", x.raw)))
<1>1. Top = x /\ Below = b /\ x.fn = "kprintf"
  BY TopBelow, TextFrame, SMTT(30)
<1>2. SerialOnly \/ check_ready \/ newline
  BY <1>1, Zenon DEF PrintStep, clear, scroll_return, Leave, Driver, In
<1>3. CASE SerialOnly
  BY <1>1, <1>3, Zenon DEF SerialOnly, Now, Replaced, screen
<1>4. CASE check_ready
  <2>1. Push(Append(b, Printing("cleared", x.raw)), gpu_clear)
    BY <1>1, <1>4 DEF check_ready, Now
  <2>2. Pushed(Append(b, Printing("cleared", x.raw)), gpu_clear)
    BY <2>1, PushPushes, Zenon
  <2> QED
    BY <1>4, <2>2, Zenon DEF check_ready, screen
<1>5. CASE newline
  <2>1. IF cursor_y + 1 >= rows
        THEN Push(Append(b, Printing("scrolled", x.raw)), gpu_clear)
        ELSE Replaced(Append(b, Printing("return", x.raw)))
    BY <1>1, <1>5, Zenon DEF newline, Now, Replaced
  <2>2. IF cursor_y + 1 >= rows
        THEN Pushed(Append(b, Printing("scrolled", x.raw)), gpu_clear)
        ELSE Replaced(Append(b, Printing("return", x.raw)))
    BY <2>1, PushPushes, ZenonT(40)
  <2> QED
    BY <1>5, <2>2, Zenon DEF newline, screen
<1> QED
  BY <1>2, <1>3, <1>4, <1>5, Zenon

(* What a print does after its text: it clears the screen, has scrolled,   *)
(* or returns and unmasks.                                                 *)
LEMMA OtherStep ==
    ASSUME NEW b, NEW x, Stacked(b, x), x \in Texts, overflowed = FALSE, PrintStep
    PROVE  /\ x.at = "cleared" =>
                /\ Replaced(Append(b, Printing("text", x.raw))) /\ cursor_y' = 0
                /\ UNCHANGED <<masked, is_initialized, use_visual, chosen_GPU>>
           /\ x.at = "scrolled" =>
                /\ Replaced(Append(b, Printing("return", x.raw)))
                /\ UNCHANGED <<masked, is_initialized, use_visual, chosen_GPU>>
           /\ x.at = "return" =>
                /\ Replaced(b) /\ masked' = (x.raw /\ masked)
                /\ UNCHANGED <<cursor_y, is_initialized, use_visual, chosen_GPU>>
<1>1. Top = x /\ Below = b /\ x.fn = "kprintf"
  BY TopBelow, TextFrame, SMTT(30)
<1>2. CASE x.at = "cleared"
  <2>1. clear
    BY <1>1, <1>2, Zenon DEF PrintStep, SerialOnly, check_ready, newline, scroll_return, Leave, Driver,
                      In
  <2> QED
    BY <1>1, <1>2, <2>1, Zenon DEF clear, Now, Replaced, screen
<1>3. CASE x.at = "scrolled"
  <2>1. scroll_return
    BY <1>1, <1>3, Zenon DEF PrintStep, SerialOnly, check_ready, newline, clear, Leave, Driver, In
  <2> QED
    BY <1>1, <1>3, <2>1, Zenon DEF scroll_return, Now, Replaced, screen
<1>4. CASE x.at = "return"
  <2>1. Leave
    BY <1>1, <1>4, Zenon DEF PrintStep, SerialOnly, check_ready, newline, clear, scroll_return, Driver,
                      In
  <2> QED
    BY <1>1, <1>4, <2>1, Zenon DEF Leave, Replaced, screen
<1> QED
  BY <1>2, <1>3, <1>4, Zenon

(* What gpu_clear does: its debug prints one by one, and then its return.  *)
LEMMA ClearStep ==
    ASSUME NEW b, NEW left \in 0 .. 7, Stacked(b, Clearing(left)), overflowed = FALSE, PrintStep
    PROVE  /\ UNCHANGED <<cursor_y, is_initialized, use_visual, chosen_GPU>>
           /\ left > 0 => Pushed(Append(b, Clearing(left - 1)), Printing("text", FALSE))
           /\ left = 0 => Replaced(b) /\ UNCHANGED masked
<1>1. Top = Clearing(left) /\ Below = b
  BY TopBelow
<1>2. Clearing(left).fn = "gpu_clear" /\ Clearing(left).left = left
  BY ClearFrame, Zenon
<1>3. left > 0 \/ left = 0
  OBVIOUS
<1>4. ~(left > 0 /\ left = 0)
  BY SMTT(30)
<1>5. Driver
  BY <1>1, <1>2, Zenon DEF PrintStep, SerialOnly, check_ready, newline, clear, scroll_return, Leave, In
<1>6. PICK rest : rest = Append(b, Clearing(left - 1))
  BY Zenon
<1>7. CASE left > 0
  <2>1. Enter(Append(Below, Clearing(Top.left - 1)))
    BY <1>1, <1>2, <1>5, <1>7, Zenon DEF Driver
  <2>2. /\ Push(rest, Printing("text", FALSE))
        /\ UNCHANGED <<screen, is_initialized, cursor_y>>
    BY <1>1, <1>2, <1>6, <2>1, Zenon DEF Enter, Push
  <2>3. Pushed(rest, Printing("text", FALSE))
    BY <2>2, PushPushes, ZenonT(40)
  <2> QED
    BY <1>6, <1>7, <1>4, <2>2, <2>3, Zenon DEF screen
<1>8. CASE left = 0
  BY <1>1, <1>2, <1>5, <1>8, <1>4, Zenon DEF Driver, Replaced, screen
<1> QED
  BY <1>7, <1>8, <1>3, Zenon

(***************************************************************************)
(* Without the VirtIO GPU a print returns before the next one starts.      *)
(***************************************************************************)
LEMMA QuietPrint ==
    ASSUME Quiet, chosen_GPU # VIRTIO, overflowed = FALSE, PrintStep,
           UNCHANGED <<at, timer, loaded>>
    PROVE  Quiet' /\ UNCHANGED chosen_GPU /\ overflowed' \in BOOLEAN
<1>1. gpu_clear = Clearing(0) /\ 0 \in 0 .. 7
  BY DEF gpu_clear, VIRTIO
<1>2. Clearing(0) \in Frames
  BY <1>1, ClearFrame, Zenon
<1>3. stack # <<>>
  BY Zenon DEF PrintStep, SerialOnly, check_ready, clear, newline, scroll_return, Leave, Driver, In
<1>4. ASSUME NEW g \in Texts, stack' = <<g>> \/ stack' = <<g, Clearing(0)>>, timer = FALSE
      PROVE  Quiet'
  BY <1>4, Zenon DEF Quiet, Undisturbed
<1>5. ASSUME stack = <<Clearing(0)>>
      PROVE  Quiet' /\ UNCHANGED chosen_GPU /\ overflowed' \in BOOLEAN
  <2>1. Stacked(<<>>, Clearing(0))
    BY <1>2, <1>5, Stacks, Zenon DEF Stacked
  <2>2. UNCHANGED <<chosen_GPU, masked>> /\ Replaced(<<>>)
    BY <1>1, <2>1, ClearStep, Zenon
  <2> QED
    BY <2>2, Zenon DEF Replaced, Quiet, Undisturbed
<1>6. ASSUME NEW f \in Texts, stack = <<f, Clearing(0)>>, timer = FALSE
      PROVE  Quiet' /\ UNCHANGED chosen_GPU /\ overflowed' \in BOOLEAN
  <2>1. Stacked(<<f>>, Clearing(0))
    <3>1. f \in Frames
      BY TextFrame, Zenon
    <3>2. <<f>> \in Seq(Frames)
      BY <3>1
    <3>3. Append(<<f>>, Clearing(0)) = <<f, Clearing(0)>>
      BY <1>2, <3>1, Stacks, Zenon
    <3> QED
      BY <1>2, <1>6, <3>2, <3>3, Zenon DEF Stacked
  <2>2. UNCHANGED <<chosen_GPU, masked>> /\ Replaced(<<f>>)
    BY <1>1, <2>1, ClearStep, Zenon
  <2> QED
    BY <1>4, <1>6, <2>2, Zenon DEF Replaced
<1>7. ASSUME NEW f \in Texts, stack = <<f>>, timer = FALSE
      PROVE  Quiet' /\ UNCHANGED chosen_GPU /\ overflowed' \in BOOLEAN
  <2>1. /\ Stacked(<<>>, f) /\ f.raw \in BOOLEAN
        /\ f.at \in {"text", "cleared", "scrolled", "return"}
    BY <1>7, TextFrame, Stacks, Zenon DEF Stacked
  <2>2. ASSUME NEW a \in {"text", "cleared", "scrolled", "return"}, NEW g, g = Printing(a, f.raw)
        PROVE  /\ g \in Texts /\ g.raw = f.raw /\ Append(<<>>, g) = <<g>>
               /\ Append(<<g>>, Clearing(0)) = <<g, Clearing(0)>>
    <3>1. g \in Texts /\ g.raw = f.raw /\ g \in Frames
      BY <2>1, <2>2, TextFrame, ZenonT(40)
    <3> QED
      BY <1>2, <3>1, Stacks, Zenon
  <2>3. CASE f.at = "return"
    <3>1. Replaced(<<>>) /\ UNCHANGED chosen_GPU
      BY <2>1, <2>3, OtherStep, Zenon
    <3> QED
      BY <1>7, <3>1, Zenon DEF Replaced, Quiet, Undisturbed
  <2>4. CASE f.at \in {"cleared", "scrolled"}
    <3>1. PICK a \in {"text", "return"} :
             Replaced(Append(<<>>, Printing(a, f.raw))) /\ UNCHANGED <<masked, chosen_GPU>>
      BY <2>1, <2>4, OtherStep, Zenon
    <3> QED
      BY <1>4, <1>7, <2>2, <3>1, Zenon DEF Replaced
  <2>5. CASE f.at = "text"
    <3>1. /\ UNCHANGED <<masked, chosen_GPU>>
          /\ \/ \E a \in {"cleared", "scrolled"} :
                  Pushed(Append(<<>>, Printing(a, f.raw)), Clearing(0))
             \/ Replaced(Append(<<>>, Printing("return", f.raw)))
      BY <1>1, <2>1, <2>5, TextStep, Zenon
    <3>2. CASE Replaced(Append(<<>>, Printing("return", f.raw)))
      BY <1>4, <1>7, <2>2, <3>1, <3>2, Zenon DEF Replaced
    <3>3. ASSUME NEW a \in {"cleared", "scrolled"},
                 Pushed(Append(<<>>, Printing(a, f.raw)), Clearing(0))
          PROVE  Quiet' /\ overflowed' \in BOOLEAN
      <4>1. PICK g : g = Printing(a, f.raw)
        BY SMTT(30)
      <4>2. /\ g \in Texts /\ g.raw = f.raw /\ Append(<<>>, g) = <<g>>
            /\ Append(<<g>>, Clearing(0)) = <<g, Clearing(0)>>
        BY <2>2, <3>3, <4>1, Zenon
      <4>3. /\ overflowed' \in BOOLEAN
            /\ stack' = <<f>> \/ stack' = <<g, Clearing(0)>>
        BY <1>7, <3>3, <4>1, <4>2, Zenon DEF Pushed
      <4> QED
        BY <1>4, <1>7, <3>1, <4>2, <4>3, Zenon
    <3> QED
      BY <3>1, <3>2, <3>3, Zenon
  <2> QED
    BY <2>1, <2>3, <2>4, <2>5, Zenon
<1> QED
  BY <1>3, <1>5, <1>6, <1>7, Zenon DEF Quiet

(***************************************************************************)
(* A statement that prints, and one that clears the screen.                *)
(***************************************************************************)
LEMMA QuietPush ==
    ASSUME stack = <<>>, overflowed = FALSE, chosen_GPU # VIRTIO
    PROVE  /\ Push(stack, gpu_clear) /\ Undisturbed' => Quiet' /\ overflowed' \in BOOLEAN
           /\ Enter(stack) /\ timer' = FALSE => Quiet' /\ overflowed' \in BOOLEAN
           /\ EnterRaw(stack) /\ timer' = FALSE => Quiet' /\ overflowed' \in BOOLEAN
<1>1. gpu_clear = Clearing(0) /\ 0 \in 0 .. 7
  BY DEF gpu_clear, VIRTIO
<1>2. Clearing(0) \in Frames
  BY <1>1, ClearFrame, Zenon
<1>3. ASSUME NEW frame \in Frames, Push(stack, frame)
      PROVE  (stack' = <<>> \/ stack' = <<frame>>) /\ overflowed' \in BOOLEAN
  <2>1. Pushed(stack, frame)
    BY <1>3, PushPushes, Zenon
  <2> QED
    BY <1>3, <2>1, Stacks, Zenon DEF Pushed
<1>4. ASSUME Push(stack, gpu_clear), Undisturbed'
      PROVE  Quiet' /\ overflowed' \in BOOLEAN
  <2>1. (stack' = <<>> \/ stack' = <<Clearing(0)>>) /\ overflowed' \in BOOLEAN
    BY <1>1, <1>2, <1>3, <1>4, SMTT(30)
  <2> QED
    BY <1>4, <2>1, Zenon DEF Quiet
<1>5. ASSUME NEW raw \in BOOLEAN, Push(stack, Printing("text", raw)), timer' = FALSE
      PROVE  Quiet' /\ overflowed' \in BOOLEAN
  <2>1. PICK f : f = Printing("text", raw)
    OBVIOUS
  <2>2. f \in Texts /\ f \in Frames /\ f.raw = raw
    BY <2>1, TextFrame, Zenon
  <2>3. (stack' = <<>> \/ stack' = <<f>>) /\ overflowed' \in BOOLEAN
    BY <1>3, <1>5, <2>1, <2>2, Zenon
  <2> QED
    BY <1>5, <2>2, <2>3, Zenon DEF Quiet, Undisturbed
<1>6. ASSUME Enter(stack), timer' = FALSE
      PROVE  Quiet' /\ overflowed' \in BOOLEAN
  BY <1>5, <1>6, Zenon DEF Enter
<1>7. ASSUME EnterRaw(stack), timer' = FALSE
      PROVE  Quiet' /\ overflowed' \in BOOLEAN
  BY <1>5, <1>7, Zenon DEF EnterRaw
<1> QED
  BY <1>4, <1>6, <1>7, Zenon

(***************************************************************************)
(* With the VirtIO GPU a print either has a row left, or scrolls and is    *)
(* not done before the stack is full.                                      *)
(***************************************************************************)
LEMMA SinkOrReturn ==
    ASSUME NEW b, NEW x, Stacked(b, x), x \in Texts, x.at = "text", overflowed = FALSE, PrintStep,
           chosen_GPU = VIRTIO, use_visual = TRUE, is_initialized = TRUE, cursor_y \in Nat
    PROVE  /\ UNCHANGED <<use_visual, chosen_GPU>> /\ is_initialized' = TRUE
           /\ cursor_y' = cursor_y + 1
           /\ \/ overflowed' = TRUE
              \/ overflowed' = FALSE /\ Sunk'
              \/ /\ overflowed' = FALSE /\ cursor_y' < rows
                 /\ \E g \in Texts : g.at = "return" /\ stack' = Append(b, g)
<1>1. Visible /\ gpu_clear = Clearing(7)
  BY DEF Visible, gpu_clear, VIRTIO
<1>2. b \in Seq(Frames) /\ x.raw \in BOOLEAN /\ rows \in Nat
  BY TextFrame, RowsAssumption, Zenon DEF Stacked
<1>3. /\ UNCHANGED <<use_visual, chosen_GPU>> /\ is_initialized' = TRUE
      /\ cursor_y' = cursor_y + 1
      /\ IF cursor_y + 1 >= rows
         THEN Pushed(Append(b, Printing("scrolled", x.raw)), Clearing(7))
         ELSE Replaced(Append(b, Printing("return", x.raw)))
  BY <1>1, TextStep, Zenon
<1>4. CASE cursor_y + 1 >= rows
  <2>1. PICK f, d : f = Printing("scrolled", x.raw) /\ d = Append(b, f)
    BY Zenon
  <2>2. f \in Frames /\ Clearing(7) \in Frames
    BY <1>2, <2>1, TextFrame, ClearFrame, SMTT(30)
  <2>3. d \in Seq(Frames)
    BY <1>2, <2>1, <2>2
  <2>4. Pushed(d, Clearing(7))
    BY <1>3, <1>4, <2>1, Zenon
  <2>5. CASE overflowed' = TRUE
    BY <1>3, <2>5, Zenon
  <2>6. CASE overflowed' = FALSE /\ stack' = Append(d, Clearing(7))
    <3>1. Sunk'
      BY <1>3, <1>4, <2>2, <2>3, <2>6, Zenon DEF Sunk
    <3> QED
      BY <1>3, <2>6, <3>1, Zenon
  <2> QED
    BY <2>4, <2>5, <2>6, Zenon DEF Pushed
<1>5. CASE ~(cursor_y + 1 >= rows)
  <2>1. PICK g : g = Printing("return", x.raw)
    OBVIOUS
  <2>2. g \in Texts /\ g.at = "return"
    BY <1>2, <2>1, TextFrame, Zenon
  <2>3. overflowed' = FALSE /\ stack' = Append(b, g)
    BY <1>3, <1>5, <2>1, Zenon DEF Replaced
  <2>4. cursor_y' < rows
    BY <1>2, <1>3, <1>5
  <2> QED
    BY <1>3, <2>2, <2>3, <2>4, Zenon
<1> QED
  BY <1>4, <1>5, Zenon

(* Once a print of gpu_clear prints, on a virtio screen, the stack only    *)
(* gets deeper until it overflows.                                         *)
LEMMA SunkPrint ==
    ASSUME Sunk, overflowed = FALSE, PrintStep, chosen_GPU = VIRTIO, use_visual = TRUE,
           cursor_y \in Nat
    PROVE  /\ UNCHANGED <<use_visual, chosen_GPU>> /\ is_initialized' = TRUE /\ cursor_y' \in Nat
           /\ overflowed' = TRUE \/ (overflowed' = FALSE /\ Sunk')
<1>1. PICK b \in Seq(Frames), x \in Frames :
        /\ stack = Append(b, x)
        /\ x = Clearing(7) \/ (x \in Texts /\ x.at = "text")
  BY Zenon DEF Sunk
<1>2. Stacked(b, x) /\ is_initialized = TRUE /\ cursor_y >= rows /\ rows \in Nat
  BY <1>1, RowsAssumption, Zenon DEF Stacked, Sunk
<1>3. CASE x = Clearing(7)
  <2>1. 7 \in 0 .. 7 /\ 7 > 0 /\ 7 - 1 = 6 /\ 6 \in 0 .. 7
    OBVIOUS
  <2>2. /\ UNCHANGED <<cursor_y, is_initialized, use_visual, chosen_GPU>>
        /\ Pushed(Append(b, Clearing(6)), Printing("text", FALSE))
    BY <1>2, <1>3, <2>1, ClearStep, Zenon
  <2>3. PICK f, d : f = Printing("text", FALSE) /\ d = Append(b, Clearing(6))
    BY Zenon
  <2>4. f \in Texts /\ f \in Frames /\ f.at = "text" /\ Clearing(6) \in Frames
    BY <2>1, <2>3, TextFrame, ClearFrame, Zenon
  <2>5. d \in Seq(Frames)
    BY <2>3, <2>4
  <2>6. CASE overflowed' = TRUE
    BY <1>2, <2>2, <2>6, Zenon
  <2>7. CASE overflowed' = FALSE /\ stack' = Append(d, f)
    <3>1. Sunk'
      BY <1>2, <2>2, <2>4, <2>5, <2>7, Zenon DEF Sunk
    <3> QED
      BY <1>2, <2>2, <2>7, <3>1, Zenon
  <2> QED
    BY <2>2, <2>3, <2>6, <2>7, Zenon DEF Pushed
<1>4. CASE x \in Texts /\ x.at = "text"
  <2>1. /\ UNCHANGED <<use_visual, chosen_GPU>> /\ is_initialized' = TRUE
        /\ cursor_y' = cursor_y + 1
        /\ overflowed' = TRUE \/ (overflowed' = FALSE /\ (Sunk' \/ cursor_y' < rows))
    BY <1>2, <1>4, SinkOrReturn, Zenon
  <2>2. cursor_y' \in Nat /\ ~(cursor_y' < rows)
    BY <1>2, <2>1
  <2> QED
    BY <2>1, <2>2, Zenon
<1> QED
  BY <1>1, <1>3, <1>4, Zenon

(* The frames below the top of a stack of one, two or three frames.        *)
LEMMA Shapes ==
    ASSUME NEW f \in Frames, NEW c \in Frames, NEW g \in Frames
    PROVE  /\ stack = <<f>> => Stacked(<<>>, f)
           /\ stack = <<f, c>> => Stacked(<<f>>, c)
           /\ stack = <<f, c, g>> => Stacked(<<f, c>>, g)
<1>1. <<>> \in Seq(Frames) /\ <<f>> \in Seq(Frames) /\ <<f, c>> \in Seq(Frames)
  OBVIOUS
<1>2. /\ Append(<<>>, f) = <<f>> /\ Append(<<f>>, c) = <<f, c>>
      /\ Append(<<f, c>>, g) = <<f, c, g>>
  BY Stacks
<1> QED
  BY <1>1, <1>2, Zenon DEF Stacked

\* What a step keeps while the cursor has a row.
Kept ==
    /\ UNCHANGED <<use_visual, chosen_GPU>> /\ is_initialized' \in BOOLEAN /\ cursor_y' \in Nat
    /\ \/ overflowed' = TRUE
       \/ overflowed' = FALSE /\ (Sunk' \/ Shallow')

(***************************************************************************)
(* The first print clears the screen, through vgp_clear with its prints,   *)
(* and starts again at the top.                                            *)
(***************************************************************************)
LEMMA FirstPrintStep ==
    ASSUME FirstPrint, cursor_y < rows, line = 8, line' = line, overflowed = FALSE, PrintStep,
           chosen_GPU = VIRTIO, use_visual = TRUE, is_initialized \in BOOLEAN, cursor_y \in Nat
    PROVE  Kept
<1>1. ASSUME FirstPrint', cursor_y' < rows, overflowed' = FALSE,
             UNCHANGED <<use_visual, chosen_GPU>>, is_initialized' \in BOOLEAN, cursor_y' \in Nat
      PROVE  Kept
  <2>1. line' = 8 /\ ~(8 = 7) /\ ~(8 > 8)
    OBVIOUS
  <2>2. Shallow'
    BY <1>1, <2>1, Zenon DEF Shallow
  <2> QED
    BY <1>1, <2>2, Zenon DEF Kept
<1>2. ASSUME NEW f \in Texts, stack = <<f>>, f.at = "text", is_initialized = FALSE
      PROVE  Kept
  <2>1. Stacked(<<>>, f) /\ f.raw \in BOOLEAN
    BY <1>2, TextFrame, Shapes, Zenon
  <2>2. Visible /\ gpu_clear = Clearing(7) /\ 7 \in 0 .. 7
    BY DEF Visible, gpu_clear, VIRTIO
  <2>3. PICK g : g = Printing("cleared", f.raw)
    OBVIOUS
  <2>4. /\ UNCHANGED <<use_visual, chosen_GPU, cursor_y>> /\ is_initialized' = TRUE
        /\ Pushed(Append(<<>>, g), Clearing(7))
    BY <1>2, <2>1, <2>2, <2>3, TextStep, Zenon
  <2>5. g \in Texts /\ g \in Frames /\ g.at = "cleared" /\ Clearing(7) \in Clears
        /\ Clearing(7) \in Frames
    BY <2>1, <2>2, <2>3, TextFrame, ClearFrame, Zenon
  <2>6. Append(<<>>, g) = <<g>> /\ Append(<<g>>, Clearing(7)) = <<g, Clearing(7)>>
    BY <2>5, Stacks, Zenon
  <2>7. CASE overflowed' = TRUE
    BY <2>4, <2>7, Zenon DEF Kept
  <2>8. CASE overflowed' = FALSE /\ stack' = <<g, Clearing(7)>>
    <3>1. FirstPrint'
      BY <2>4, <2>5, <2>8, Zenon DEF FirstPrint
    <3> QED
      BY <1>1, <2>4, <2>8, <3>1, ZenonT(40)
  <2> QED
    BY <2>4, <2>6, <2>7, <2>8, ZenonT(40) DEF Pushed
<1>3. ASSUME NEW b, NEW f \in Texts, Stacked(b, f), f.at = "text", is_initialized = TRUE,
             \A g \in Texts : stack' = Append(b, g) /\ g.at = "return" /\ is_initialized' = TRUE
                                => FirstPrint'
      PROVE  Kept
  <2>1. /\ UNCHANGED <<use_visual, chosen_GPU>> /\ is_initialized' = TRUE
        /\ cursor_y' = cursor_y + 1
        /\ \/ overflowed' = TRUE
           \/ overflowed' = FALSE /\ Sunk'
           \/ /\ overflowed' = FALSE /\ cursor_y' < rows
              /\ \E g \in Texts : g.at = "return" /\ stack' = Append(b, g)
    BY <1>3, SinkOrReturn, Zenon
  <2>2. cursor_y' \in Nat
    BY <2>1, SMTT(30)
  <2>3. CASE overflowed' = TRUE \/ (overflowed' = FALSE /\ Sunk')
    BY <2>1, <2>3, <2>2, Zenon DEF Kept
  <2>4. CASE /\ overflowed' = FALSE /\ cursor_y' < rows
             /\ \E g \in Texts : g.at = "return" /\ stack' = Append(b, g)
    BY <1>1, <1>3, <2>1, <2>4, <2>2, Zenon
  <2> QED
    BY <2>1, <2>3, <2>4, Zenon
<1>4. ASSUME NEW f \in Texts, stack = <<f>>, f.at = "text", is_initialized = TRUE
      PROVE  Kept
  <2>1. Stacked(<<>>, f)
    BY <1>4, TextFrame, Shapes, Zenon
  <2>2. ASSUME NEW g \in Texts, stack' = Append(<<>>, g), g.at = "return", is_initialized' = TRUE
        PROVE  FirstPrint'
    <3>1. stack' = <<g>>
      BY <2>2, TextFrame, Stacks, Zenon
    <3> QED
      BY <2>2, <3>1, Zenon DEF FirstPrint
  <2> QED
    BY <1>3, <1>4, <2>1, <2>2, ZenonT(40)
<1>5. ASSUME NEW f \in Texts, stack = <<f>>, f.at = "cleared", is_initialized = TRUE
      PROVE  Kept
  <2>1. Stacked(<<>>, f) /\ f.raw \in BOOLEAN
    BY <1>5, TextFrame, Shapes, Zenon
  <2>2. PICK g : g = Printing("text", f.raw)
    BY Zenon
  <2>3. g \in Texts /\ g \in Frames /\ g.at = "text"
    BY <2>1, <2>2, TextFrame, Zenon
  <2>4. Append(<<>>, g) = <<g>>
    BY <2>3, Stacks
  <2>5. /\ UNCHANGED <<use_visual, chosen_GPU, is_initialized>> /\ cursor_y' = 0
        /\ overflowed' = FALSE /\ stack' = <<g>>
    BY <1>5, <2>1, <2>2, <2>4, OtherStep, ZenonT(40) DEF Replaced
  <2>6. FirstPrint'
    BY <2>3, <2>5, Zenon DEF FirstPrint
  <2>7. 0 < rows /\ 0 \in Nat
    BY RowsAssumption
  <2> QED
    BY <1>1, <1>5, <2>5, <2>6, <2>7, ZenonT(40)
<1>6. ASSUME NEW f \in Texts, stack = <<f>>, f.at = "return", is_initialized = TRUE
      PROVE  Kept
  <2>1. Stacked(<<>>, f)
    BY <1>6, TextFrame, Shapes, Zenon
  <2>2. /\ UNCHANGED <<use_visual, chosen_GPU, is_initialized, cursor_y>>
        /\ overflowed' = FALSE /\ stack' = <<>>
    BY <1>6, <2>1, OtherStep, ZenonT(40) DEF Replaced
  <2>3. FirstPrint'
    BY <1>6, <2>2, Zenon DEF FirstPrint
  <2> QED
    BY <1>1, <1>6, <2>2, <2>3, ZenonT(40)
<1>7. ASSUME NEW f \in Texts, NEW c \in Clears, stack = <<f, c>>, f.at = "cleared",
             is_initialized = TRUE
      PROVE  Kept
  <2>1. PICK left \in 0 .. 7 : c = Clearing(left)
    BY DEF Clears
  <2>2. f \in Frames /\ c \in Frames
    BY <2>1, TextFrame, ClearFrame, Zenon
  <2>3. Stacked(<<f>>, Clearing(left))
    BY <1>7, <2>1, <2>2, Shapes, Zenon
  <2>4. /\ UNCHANGED <<cursor_y, is_initialized, use_visual, chosen_GPU>>
        /\ left > 0 => Pushed(Append(<<f>>, Clearing(left - 1)), Printing("text", FALSE))
        /\ left = 0 => Replaced(<<f>>)
    BY <2>3, ClearStep, Zenon
  <2>5. CASE left = 0
    <3>1. overflowed' = FALSE /\ stack' = <<f>>
      BY <2>4, <2>5, Zenon DEF Replaced
    <3>2. FirstPrint'
      BY <1>7, <2>4, <3>1, Zenon DEF FirstPrint
    <3> QED
      BY <1>1, <1>7, <2>4, <3>1, <3>2, ZenonT(40)
  <2>6. CASE left > 0
    <3>1. PICK d, g : d = Clearing(left - 1) /\ g = Printing("text", FALSE)
      BY Zenon
    <3>2. left - 1 \in 0 .. 7
      BY <2>6
    <3>3. d \in Clears /\ d \in Frames /\ g \in Texts /\ g \in Frames /\ g.at = "text"
      BY <3>1, <3>2, TextFrame, ClearFrame, ZenonT(40)
    <3>4. Append(<<f>>, d) = <<f, d>> /\ Append(<<f, d>>, g) = <<f, d, g>>
      BY <2>2, <3>3, Stacks, Zenon
    <3>5. Pushed(Append(<<f>>, d), g)
      BY <2>4, <2>6, <3>1, ZenonT(40)
    <3>6. CASE overflowed' = TRUE
      BY <1>7, <2>4, <3>6, Zenon DEF Kept
    <3>7. CASE overflowed' = FALSE /\ stack' = <<f, d, g>>
      <4>1. FirstPrint'
        BY <1>7, <2>4, <3>3, <3>7, Zenon DEF FirstPrint
      <4> QED
        BY <1>1, <1>7, <2>4, <3>7, <4>1, ZenonT(40)
    <3> QED
      BY <3>4, <3>5, <3>6, <3>7, Zenon DEF Pushed
  <2>7. left = 0 \/ left > 0
    OBVIOUS
  <2> QED
    BY <2>5, <2>6, <2>7
<1>8. ASSUME NEW f \in Texts, NEW c \in Clears, NEW g \in Texts, stack = <<f, c, g>>,
             f.at = "cleared", g.at \in {"text", "return"}, is_initialized = TRUE
      PROVE  Kept
  <2>1. f \in Frames /\ g \in Frames /\ c \in Frames
    BY TextFrame, Zenon DEF Frames
  <2>2. Stacked(<<f, c>>, g)
    BY <1>8, <2>1, Shapes, Zenon
  <2>3. CASE g.at = "text"
    <3>1. ASSUME NEW h \in Texts, stack' = Append(<<f, c>>, h), h.at = "return",
                 is_initialized' = TRUE
          PROVE  FirstPrint'
      <4>1. h \in Frames
        BY TextFrame, Zenon
      <4>2. Append(<<f, c>>, h) = <<f, c, h>>
        BY <2>1, <4>1, Stacks, Zenon
      <4>3. stack' = <<f, c, h>>
        BY <3>1, <4>2, Zenon
      <4> QED
        BY <1>8, <3>1, <4>3, Zenon DEF FirstPrint
    <3> QED
      BY <1>3, <1>8, <2>2, <2>3, <3>1, Zenon
  <2>4. CASE g.at = "return"
    <3>1. /\ UNCHANGED <<use_visual, chosen_GPU, is_initialized, cursor_y>>
          /\ overflowed' = FALSE /\ stack' = <<f, c>>
      BY <2>2, <2>4, OtherStep, Zenon DEF Replaced
    <3>2. FirstPrint'
      BY <1>8, <3>1, Zenon DEF FirstPrint
    <3> QED
      BY <1>1, <1>8, <3>1, <3>2, Zenon
  <2> QED
    BY <1>8, <2>3, <2>4, Zenon
<1>9. stack # <<>>
  BY Zenon DEF PrintStep, SerialOnly, check_ready, clear, newline, scroll_return, Leave, Driver, In
<1>10. CASE \E f \in Texts : stack = <<f>> /\ f.at = "text"
  BY <1>2, <1>4, <1>10, Zenon
<1>11. CASE /\ is_initialized = TRUE
            /\ \/ \E f \in Texts : stack = <<f>> /\ f.at \in {"cleared", "return"}
               \/ \E f \in Texts, c \in Clears : stack = <<f, c>> /\ f.at = "cleared"
               \/ \E f \in Texts, c \in Clears, g \in Texts :
                    stack = <<f, c, g>> /\ f.at = "cleared" /\ g.at \in {"text", "return"}
  BY <1>5, <1>6, <1>7, <1>8, <1>11, Zenon
<1> QED
  BY <1>9, <1>10, <1>11, Zenon DEF FirstPrint

(***************************************************************************)
(* Every later print moves the cursor one row down.                        *)
(***************************************************************************)
LEMMA LaterPrintStep ==
    ASSUME LaterPrint, cursor_y < rows, line \in Nat, line > 8, line' = line, overflowed = FALSE,
           PrintStep, chosen_GPU = VIRTIO, use_visual = TRUE, cursor_y \in Nat
    PROVE  Kept
<1>1. ASSUME LaterPrint', cursor_y' < rows, overflowed' = FALSE,
             UNCHANGED <<use_visual, chosen_GPU>>, is_initialized' \in BOOLEAN, cursor_y' \in Nat
      PROVE  Kept
  <2>1. ~(line' = 7) /\ ~(line' = 8)
    OBVIOUS
  <2>2. Shallow'
    BY <1>1, <2>1, Zenon DEF Shallow
  <2> QED
    BY <1>1, <2>2, Zenon DEF Kept
<1>2. is_initialized = TRUE /\ D \in Nat
  BY Sizes, Zenon DEF LaterPrint
<1>3. stack # <<>>
  BY Zenon DEF PrintStep, SerialOnly, check_ready, clear, newline, scroll_return, Leave, Driver, In
<1>4. ASSUME NEW f \in Texts, stack = <<f>>, f.at = "return", cursor_y >= line - D - 1
      PROVE  Kept
  <2>1. Stacked(<<>>, f)
    BY <1>4, TextFrame, Shapes, Zenon
  <2>2. /\ UNCHANGED <<use_visual, chosen_GPU, is_initialized, cursor_y>>
        /\ overflowed' = FALSE /\ stack' = <<>>
    BY <1>4, <2>1, OtherStep, Zenon DEF Replaced
  <2>3. LaterPrint'
    BY <1>2, <1>4, <2>2, Zenon DEF LaterPrint
  <2> QED
    BY <1>1, <1>2, <2>2, <2>3, Zenon
<1>5. ASSUME NEW f \in Texts, stack = <<f>>, f.at = "text", cursor_y >= line - D - 2
      PROVE  Kept
  <2>1. Stacked(<<>>, f)
    BY <1>5, TextFrame, Shapes, Zenon
  <2>2. /\ UNCHANGED <<use_visual, chosen_GPU>> /\ is_initialized' = TRUE
        /\ cursor_y' = cursor_y + 1
        /\ \/ overflowed' = TRUE
           \/ overflowed' = FALSE /\ Sunk'
           \/ /\ overflowed' = FALSE /\ cursor_y' < rows
              /\ \E g \in Texts : g.at = "return" /\ stack' = Append(<<>>, g)
    BY <1>2, <1>5, <2>1, SinkOrReturn, Zenon
  <2>3. cursor_y' \in Nat /\ cursor_y' >= line - D - 1
    BY <1>2, <1>5, <2>2, SMTT(30)
  <2>4. CASE overflowed' = TRUE \/ (overflowed' = FALSE /\ Sunk')
    BY <2>2, <2>3, <2>4, Zenon DEF Kept
  <2>5. ASSUME overflowed' = FALSE, cursor_y' < rows, NEW g \in Texts, g.at = "return",
               stack' = Append(<<>>, g)
        PROVE  Kept
    <3>1. stack' = <<g>>
      BY <2>5, TextFrame, Stacks, Zenon
    <3>2. LaterPrint'
      BY <2>2, <2>3, <2>5, <3>1, Zenon DEF LaterPrint
    <3> QED
      BY <1>1, <2>2, <2>3, <2>5, <3>2, Zenon
  <2> QED
    BY <2>2, <2>4, <2>5, Zenon
<1> QED
  BY <1>3, <1>4, <1>5, Zenon DEF LaterPrint

(***************************************************************************)
(* What the steps of kernel_main do to the prints.                         *)
(***************************************************************************)
Silent(name) ==
    /\ UNCHANGED printVars
    /\ name \notin {"kprintf", "kprintf_raw", "gpu_init", "start_scheduler"}

StatementStep(name) ==
    /\ Statement(name) /\ UNCHANGED timer
    /\ \/ at' = "calc_ram" /\ name \in {"get_total_ram", "get_total_user_ram",
                                        "get_user_ram_start", "get_user_ram_end"}
       \/ at' \in {"kernel_main", "init_disk"}
    /\ \/ Silent(name)
       \/ Enter(stack) /\ name = "kprintf"
       \/ EnterRaw(stack)
          /\ name \in {"kprintf_raw", "alloc_proc_mem", "create_kernel_process"}

ReturnStep ==
    /\ at \in {"calc_ram", "init_disk"} /\ at' = "kernel_main" /\ UNCHANGED <<line, timer>>
    /\ UNCHANGED printVars \/ (at = "calc_ram" /\ Enter(stack))

LaterStep ==
    /\ at \in Later /\ line = E + 18 /\ UNCHANGED <<line, timer, chosen_GPU, loaded>>
    /\ stack = <<>> /\ overflowed = FALSE
    /\ \/ Push(stack, gpu_clear) /\ UNCHANGED <<masked, at>>
       \/ Push(stack, gpu_clear) /\ UNCHANGED masked /\ at = "process" /\ loaded
       \/ /\ UNCHANGED <<stack, overflowed>>
          /\ masked' = TRUE \/ at' = "halted" \/ (UNCHANGED masked /\ at = "drawing")

(* What a step of Boot can do to the prints and to the line kernel_main is *)
(* at.                                                                     *)
LEMMA Effects ==
    ASSUME Place, overflowed \in BOOLEAN, [Next]_vars
    PROVE  \/ \E name : StatementStep(name)
           \/ gpu_init \/ start_scheduler \/ ReturnStep \/ LaterStep
           \/ PrintStep /\ UNCHANGED <<at, line, timer, loaded>>
           \/ UNCHANGED <<printVars, at, line, timer, loaded>>
<1>1. CASE kprintf \/ kprintf_raw
  <2>1. StatementStep("kprintf") \/ StatementStep("kprintf_raw")
    BY <1>1, Zenon DEF kprintf, kprintf_raw, StatementStep, Statement, cpuVars
  <2> QED
    BY <2>1, Zenon
<1>2. CASE get_total_ram \/ get_total_user_ram \/ get_user_ram_start \/ get_user_ram_end
  <2>1. PICK name, var :
           /\ Getter(name, var)
           /\ name \in {"get_total_ram", "get_total_user_ram", "get_user_ram_start",
                        "get_user_ram_end"}
    BY <1>2, Zenon DEF get_total_ram, get_total_user_ram, get_user_ram_start, get_user_ram_end
  <2>2. /\ Statement(name) /\ at = "kernel_main" /\ UNCHANGED timer /\ UNCHANGED printVars
        /\ at' = "calc_ram" \/ at' = at
    BY <2>1, Zenon DEF Getter, calcvar, Statement, cpuVars
  <2>3. StatementStep(name)
    BY <2>1, <2>2, Zenon DEF StatementStep, Silent
  <2> QED
    BY <2>3, Zenon
<1>3. CASE set_exception_vectors \/ gic_init \/ init_disk \/ dtb_addresses \/ enable_mmu
  <2>1. PICK name \in {"set_exception_vectors", "gic_init", "init_disk", "dtb_addresses",
                       "enable_mmu"} :
           /\ Statement(name) /\ UNCHANGED timer /\ UNCHANGED printVars
           /\ at' \in {"kernel_main", "init_disk"}
    BY <1>3, Zenon DEF set_exception_vectors, gic_init, init_disk, dtb_addresses, enable_mmu, Statement,
                cpuVars
  <2>2. StatementStep(name)
    BY <2>1, Zenon DEF StatementStep, Silent
  <2> QED
    BY <2>2, Zenon
<1>4. CASE alloc_proc_mem \/ create_kernel_process
  <2>1. PICK name \in {"alloc_proc_mem", "create_kernel_process"} :
           /\ Statement(name) /\ UNCHANGED timer /\ at' = "kernel_main"
           /\ UNCHANGED printVars \/ EnterRaw(stack)
    BY <1>4, Zenon DEF alloc_proc_mem, create_kernel_process, Statement, cpuVars
  <2>2. StatementStep(name)
    BY <2>1, Zenon DEF StatementStep, Silent
  <2> QED
    BY <2>2, Zenon
<1>5. CASE calc_ram \/ find_virtio_blk_return
  <2>1. ReturnStep
    BY <1>5, Zenon DEF calc_ram, find_virtio_blk_return, ReturnStep, cpuVars
  <2> QED
    BY <2>1, Zenon
<1>6. CASE bootscreen \/ draw_step \/ sync_el1_handler \/ draw_panic_screen \/ halt
  <2>1. stack = <<>> /\ overflowed = FALSE
    BY <1>6, Zenon DEF bootscreen, draw_step, sync_el1_handler, draw_panic_screen, halt, Idle
  <2>2. at \in Later /\ line = E + 18
    <3>1. at \in Later
      BY <1>6, Zenon DEF bootscreen, draw_step, sync_el1_handler, draw_panic_screen, halt, Later
    <3> QED
      BY <3>1, Zenon DEF Place, AtLine
  <2>3. UNCHANGED <<line, timer, chosen_GPU, loaded>>
    BY <1>6, Zenon DEF bootscreen, draw_step, sync_el1_handler, draw_panic_screen, halt, cpuVars,
                dataVars, printVars, screen
  <2>4. \/ Push(stack, gpu_clear) /\ UNCHANGED <<masked, at>>
        \/ Push(stack, gpu_clear) /\ UNCHANGED masked /\ at = "process" /\ loaded
        \/ /\ UNCHANGED <<stack, overflowed>>
           /\ masked' = TRUE \/ at' = "halted" \/ (UNCHANGED masked /\ at = "drawing")
    <3>1. CASE bootscreen
      BY <3>1, Zenon DEF bootscreen
    <3>2. CASE draw_panic_screen
      BY <3>2, Zenon DEF draw_panic_screen
    <3>3. CASE draw_step
      BY <3>3, Zenon DEF draw_step, printVars
    <3>4. CASE sync_el1_handler \/ halt
      BY <3>4, Zenon DEF sync_el1_handler, halt
    <3> QED
      BY <1>6, <3>1, <3>2, <3>3, <3>4, Zenon
  <2>5. LaterStep
    BY <2>1, <2>2, <2>3, <2>4, ZenonT(40) DEF LaterStep
  <2> QED
    BY <2>5, Zenon
<1>7. CASE (PrintStep /\ UNCHANGED bootVars) \/ Walk \/ UNCHANGED vars
  BY <1>7, Zenon DEF Walk, vars, bootVars, cpuVars, dataVars
<1>8. CASE gpu_init \/ start_scheduler
  BY <1>8, Zenon
<1> QED
  BY <1>1, <1>2, <1>3, <1>4, <1>5, <1>6, <1>7, <1>8, Zenon DEF Next, Step, Spin

(* A print of kernel_main enters with one frame, or overflows at once.     *)
LEMMA PrintStatement ==
    ASSUME stack = <<>>, overflowed = FALSE, Enter(stack) \/ EnterRaw(stack)
    PROVE  /\ UNCHANGED <<use_visual, chosen_GPU, is_initialized, cursor_y>>
           /\ \/ overflowed' = TRUE /\ stack' = <<>>
              \/ overflowed' = FALSE /\ \E f \in Texts : f.at = "text" /\ stack' = <<f>>
<1>1. UNCHANGED <<use_visual, chosen_GPU, is_initialized, cursor_y>>
  BY Zenon DEF Enter, EnterRaw, screen
<1>2. PICK raw \in BOOLEAN : Push(stack, Printing("text", raw))
  BY Zenon DEF Enter, EnterRaw
<1>3. PICK f : f = Printing("text", raw)
  BY Zenon
<1>4. f \in Texts /\ f \in Frames /\ f.at = "text"
  BY <1>3, TextFrame, Zenon
<1>5. Pushed(stack, f)
  BY <1>2, <1>3, PushPushes, ZenonT(40)
<1>6. Append(<<>>, f) = <<f>>
  BY <1>4, Stacks, Zenon
<1> QED
  BY <1>1, <1>4, <1>5, <1>6, Zenon DEF Pushed

\* The stack while execution is between two prints of kernel_main.
(* kernel_main runs a statement only when no print is under way, none has  *)
(* overflowed and the timer is off.                                        *)
LEMMA IdleAt ==
    ASSUME Place, NestInv
    PROVE  /\ \A name : Statement(name) => stack = <<>> /\ overflowed = FALSE /\ timer = FALSE
           /\ ReturnStep => stack = <<>> /\ overflowed = FALSE /\ timer = FALSE
<1>1. overflowed \in BOOLEAN /\ timer \in BOOLEAN
  BY Zenon DEF NestInv
<1>2. at \in {"kernel_main", "calc_ram", "init_disk"} => timer = FALSE
  BY <1>1, Zenon DEF Place, AtLine, Later
<1>3. ASSUME NEW name, Statement(name)
      PROVE  stack = <<>> /\ overflowed = FALSE /\ timer = FALSE
  BY <1>1, <1>2, <1>3, Zenon DEF Statement, Idle
<1>4. ASSUME ReturnStep
      PROVE  stack = <<>> /\ overflowed = FALSE /\ timer = FALSE
  BY <1>1, <1>2, <1>4, Zenon DEF ReturnStep, Place, AtLine
<1> QED
  BY <1>3, <1>4, Zenon

(* gpu_init is the sixth statement of kernel_main.                         *)
LEMMA GpuLine ==
    ASSUME Place, gpu_init
    PROVE  line = 6 /\ line' = 7 /\ at = "kernel_main" /\ at' = at
<1>1. Statement("gpu_init") /\ at' = at
  BY Zenon DEF gpu_init
<1>2. /\ at = "kernel_main" /\ line \in 1 .. E + 17 /\ kernel_main[line] = "gpu_init"
      /\ line' = line + 1
  BY <1>1, AtStatement, Zenon
<1>3. line = 6
  BY <1>2, Positions, Zenon
<1> QED
  BY <1>1, <1>2, <1>3

(***************************************************************************)
(* Nothing is shown before gpu_init.                                       *)
(***************************************************************************)
LEMMA NextNoScreen ==
    ASSUME Place, NestInv, [Next]_vars, line' <= 6
    PROVE  NoScreen'
<1>1. overflowed \in BOOLEAN /\ line \in Nat /\ (line <= 6 => NoScreen)
  BY Zenon DEF NestInv, Place, AtLine
<1>2. ASSUME NoScreen, stack = <<>>, overflowed = FALSE, Enter(stack) \/ EnterRaw(stack)
      PROVE  NoScreen'
  <2>1. /\ UNCHANGED <<use_visual, chosen_GPU, is_initialized, cursor_y>>
        /\ \/ overflowed' = TRUE /\ stack' = <<>>
           \/ overflowed' = FALSE /\ \E f \in Texts : f.at = "text" /\ stack' = <<f>>
    BY <1>2, PrintStatement, Zenon
  <2> QED
    BY <1>2, <2>1, Zenon DEF NoScreen
<1>3. ASSUME NoScreen, UNCHANGED printVars
      PROVE  NoScreen'
  BY <1>3, Zenon DEF NoScreen, printVars
<1>4. ASSUME NEW name, StatementStep(name)
      PROVE  NoScreen'
  <2>1. Statement(name)
    BY <1>4, Zenon DEF StatementStep
  <2>2. line' = line + 1
    BY <2>1, Zenon DEF Statement
  <2>3. NoScreen
    BY <1>1, <2>2
  <2>4. stack = <<>> /\ overflowed = FALSE
    BY <2>1, IdleAt, Zenon
  <2> QED
    BY <1>2, <1>3, <1>4, <2>3, <2>4, Zenon DEF StatementStep, Silent
<1>5. CASE gpu_init
  BY <1>5, GpuLine, SMTT(30)
<1>6. CASE start_scheduler
  <2>1. line' = E + 18
    BY <1>6, AtStatement, Zenon DEF start_scheduler
  <2> QED
    BY <2>1, Sizes, SMTT(30)
<1>7. CASE ReturnStep
  <2>1. NoScreen /\ stack = <<>> /\ overflowed = FALSE
    BY <1>1, <1>7, IdleAt, ZenonT(40) DEF ReturnStep
  <2> QED
    BY <1>2, <1>3, <1>7, <2>1, Zenon DEF ReturnStep
<1>8. CASE LaterStep
  <2>1. line' = E + 18
    BY <1>8, Zenon DEF LaterStep
  <2> QED
    BY <2>1, Sizes, SMTT(30)
<1>9. CASE PrintStep /\ UNCHANGED <<at, line, timer, loaded>>
  <2>1. overflowed = FALSE /\ stack # <<>>
    BY <1>1, <1>9, Zenon DEF PrintStep, SerialOnly, check_ready, clear, newline, scroll_return, Leave,
                      Driver, In
  <2>2. NoScreen /\ ~Visible
    BY <1>1, <1>9, Zenon DEF NoScreen, Visible
  <2>3. PICK f \in Texts : stack = <<f>> /\ f.at \in {"text", "return"}
    BY <2>1, <2>2, Zenon DEF NoScreen
  <2>4. Stacked(<<>>, f) /\ f.raw \in BOOLEAN
    BY <2>3, TextFrame, Shapes, Zenon
  <2>5. CASE f.at = "text"
    <3>1. PICK g : g = Printing("return", f.raw)
      BY Zenon
    <3>2. g \in Texts /\ g \in Frames /\ g.at = "return"
      BY <2>4, <3>1, TextFrame, Zenon
    <3>3. /\ UNCHANGED <<use_visual, chosen_GPU, is_initialized, cursor_y>>
          /\ Replaced(Append(<<>>, g))
      BY <1>9, <2>1, <2>2, <2>4, <2>5, <3>1, TextStep, ZenonT(40)
    <3>4. stack' = <<g>>
      BY <3>2, <3>3, Stacks, Zenon DEF Replaced
    <3> QED
      BY <2>2, <3>2, <3>3, <3>4, Zenon DEF NoScreen
  <2>6. CASE f.at = "return"
    <3>1. UNCHANGED <<use_visual, chosen_GPU, is_initialized, cursor_y>> /\ Replaced(<<>>)
      BY <1>9, <2>1, <2>4, <2>6, OtherStep, ZenonT(40)
    <3> QED
      BY <2>2, <3>1, Zenon DEF NoScreen, Replaced
  <2> QED
    BY <2>3, <2>5, <2>6, Zenon
<1>10. CASE UNCHANGED <<printVars, at, line, timer, loaded>>
  BY <1>1, <1>3, <1>10, Zenon
<1> QED
  BY <1>1, <1>4, <1>5, <1>6, <1>7, <1>8, <1>9, <1>10, Effects, Zenon

(***************************************************************************)
(* Without the VirtIO GPU: every print, and every clearing of the screen,  *)
(* starts on an empty stack.                                               *)
(***************************************************************************)
LEMMA NextQuiet ==
    ASSUME Place, NestInv, [Next]_vars, chosen_GPU' # VIRTIO
    PROVE  Quiet' /\ overflowed' \in BOOLEAN
<1>1. overflowed \in BOOLEAN /\ timer \in BOOLEAN
  BY Zenon DEF NestInv
<1>2. CASE gpu_init
  <2>1. /\ stack' = stack /\ overflowed' = overflowed /\ timer' = timer
        /\ Statement("gpu_init")
    BY <1>2, Zenon DEF gpu_init, cpuVars
  <2>2. stack = <<>> /\ timer = FALSE
    BY <2>1, IdleAt, Zenon
  <2> QED
    BY <1>1, <2>1, <2>2, Zenon DEF Quiet, Undisturbed
<1>3. CASE start_scheduler
  <2>1. Statement("start_scheduler") /\ stack' = stack /\ overflowed' = overflowed
        /\ masked' = loaded /\ at' = "process" /\ loaded' = loaded
    BY <1>3, Zenon DEF start_scheduler, dataVars
  <2>2. stack = <<>>
    BY <2>1, IdleAt, ZenonT(40)
  <2>3. loaded = TRUE \/ loaded = FALSE
    BY DEF Place, StackMapped
  <2>4. Undisturbed'
    BY <2>1, <2>3, Zenon DEF Undisturbed
  <2> QED
    BY <1>1, <2>1, <2>2, <2>4, Zenon DEF Quiet
<1>4. ASSUME NEW name, StatementStep(name)
      PROVE  Quiet' /\ overflowed' \in BOOLEAN
  <2>1. Statement(name) /\ timer' = timer
    BY <1>4, Zenon DEF StatementStep
  <2>2. stack = <<>> /\ overflowed = FALSE /\ timer = FALSE
    BY <2>1, IdleAt, ZenonT(40)
  <2>3. CASE UNCHANGED printVars
    BY <1>1, <2>1, <2>2, <2>3, Zenon DEF Quiet, Undisturbed, printVars
  <2>4. CASE Enter(stack) \/ EnterRaw(stack)
    <3>1. chosen_GPU # VIRTIO
      BY <2>4, Zenon DEF Enter, EnterRaw, screen
    <3> QED
      BY <2>1, <2>2, <2>4, <3>1, QuietPush, Zenon
  <2> QED
    BY <1>4, <2>3, <2>4, Zenon DEF StatementStep, Silent
<1>5. CASE ReturnStep
  <2>1. stack = <<>> /\ overflowed = FALSE /\ timer = FALSE /\ timer' = timer
    BY <1>5, IdleAt, Zenon DEF ReturnStep
  <2>2. CASE UNCHANGED printVars
    BY <2>1, <2>2, Zenon DEF Quiet, Undisturbed, printVars
  <2>3. CASE Enter(stack)
    <3>1. chosen_GPU # VIRTIO
      BY <2>3, Zenon DEF Enter, screen
    <3> QED
      BY <2>1, <2>3, <3>1, QuietPush, Zenon
  <2> QED
    BY <1>5, <2>2, <2>3, Zenon DEF ReturnStep
<1>6. CASE LaterStep
  <2>1. UNCHANGED <<timer, chosen_GPU, loaded>> /\ stack = <<>> /\ overflowed = FALSE
    BY <1>6, Zenon DEF LaterStep
  <2>2. Undisturbed
    BY <2>1, Zenon DEF NestInv, Quiet
  <2>3. CASE /\ Push(stack, gpu_clear)
             /\ UNCHANGED <<masked, at>> \/ (UNCHANGED masked /\ at = "process" /\ loaded)
    <3>1. Undisturbed'
      BY <2>1, <2>2, <2>3, Zenon DEF Undisturbed
    <3> QED
      BY <2>1, <2>3, <3>1, QuietPush, ZenonT(40)
  <2>4. CASE /\ UNCHANGED <<stack, overflowed>>
             /\ masked' = TRUE \/ at' = "halted" \/ (UNCHANGED masked /\ at = "drawing")
    <3>1. Undisturbed'
      BY <2>1, <2>2, <2>4, Zenon DEF Undisturbed
    <3> QED
      BY <1>1, <2>1, <2>4, <3>1, Zenon DEF Quiet
  <2> QED
    BY <1>6, <2>3, <2>4, Zenon DEF LaterStep
<1>7. CASE PrintStep /\ UNCHANGED <<at, line, timer, loaded>>
  <2>1. overflowed = FALSE /\ UNCHANGED chosen_GPU
    BY <1>1, <1>7, Zenon DEF PrintStep, SerialOnly, check_ready, clear, newline, scroll_return, Leave,
                      Driver, Enter, In, screen
  <2>2. Quiet
    BY <2>1, SMTT(30) DEF NestInv
  <2> QED
    BY <1>7, <2>1, <2>2, QuietPrint, Zenon
<1>8. CASE UNCHANGED <<printVars, at, line, timer, loaded>>
  BY <1>1, <1>8, Zenon DEF NestInv, Quiet, Undisturbed, printVars
<1> QED
  BY <1>1, <1>2, <1>3, <1>4, <1>5, <1>6, <1>7, <1>8, Effects, Zenon

(***************************************************************************)
(* With the VirtIO GPU: between two prints the cursor has a row, which it  *)
(* cannot have after DtbLines prints.                                      *)
(***************************************************************************)
LEMMA DoomedIdle ==
    ASSUME Place, Doomed, NEW name, Statement(name)
    PROVE  /\ at = "kernel_main" /\ line \in 7 .. E /\ line' = line + 1
           /\ stack = <<>> /\ overflowed = FALSE /\ cursor_y < rows
           /\ line = 7 => name = "kprintf"
           /\ line > D => name = "kprintf_raw"
           /\ line > 7 => is_initialized = TRUE /\ cursor_y >= line - D - 1
           /\ name \notin {"get_total_ram", "get_total_user_ram", "get_user_ram_start",
                           "get_user_ram_end", "enable_mmu", "start_scheduler",
                           "alloc_proc_mem", "create_kernel_process", "gpu_init"}
<1>1. /\ at = "kernel_main" /\ line \in 1 .. E + 17 /\ kernel_main[line] = name
      /\ line' = line + 1 /\ stack = <<>> /\ ~overflowed
  BY AtStatement, Zenon
<1>2. line \in 7 .. E + 1 /\ cursor_y \in Nat /\ line \in Nat /\ D \in Nat /\ E \in Nat
  BY Sizes, SMTT(30) DEF Doomed
<1>3. ~Sunk
  <2> SUFFICES ASSUME NEW b \in Seq(Frames), NEW x \in Frames, stack = Append(b, x)
               PROVE  FALSE
    BY DEF Sunk
  <2>1. Stacked(b, x)
    BY DEF Stacked
  <2> QED
    BY <1>1, <2>1, TopBelow, Zenon
<1>4. Shallow /\ overflowed = FALSE
  BY <1>1, <1>3, Zenon DEF Doomed
<1>5. ASSUME NEW f, NEW c, NEW g
      PROVE  <<>> # <<f>> /\ <<>> # <<f, c>> /\ <<>> # <<f, c, g>>
  BY SMTT(30)
<1>6. ASSUME line = 8
      PROVE  is_initialized = TRUE
  BY <1>1, <1>4, <1>5, <1>6, Zenon DEF Shallow, FirstPrint
<1>7. ASSUME line > 8
      PROVE  is_initialized = TRUE /\ cursor_y >= line - D - 1
  BY <1>1, <1>4, <1>5, <1>7, Zenon DEF Shallow, LaterPrint
<1>8. ASSUME line > 7
      PROVE  is_initialized = TRUE /\ cursor_y >= line - D - 1
  <2>1. line = 8 \/ line > 8
    BY <1>2, <1>8, SMTT(30)
  <2>2. line = 8 => cursor_y >= line - D - 1
    BY <1>2, Sizes, SMTT(30)
  <2> QED
    BY <1>6, <1>7, <2>1, <2>2, ZenonT(40)
<1>9. line # E + 1
  <2> SUFFICES ASSUME line = E + 1
               PROVE  FALSE
    OBVIOUS
  <2>1. line > 7 /\ line - D - 1 = DtbLines /\ DtbLines \in Nat
    BY Sizes, SMTT(30) DEF E
  <2>2. cursor_y >= DtbLines /\ cursor_y < rows
    BY <1>4, <1>8, <2>1, Zenon DEF Shallow
  <2> QED
    BY <1>2, <2>1, <2>2, BootAssumption, RowsAssumption, SMTT(30)
<1>10. line \in 7 .. E
  BY <1>2, <1>9, SMTT(30)
<1>11. /\ line = 7 => name = "kprintf"
       /\ line > D => name = "kprintf_raw"
  <2>1. line > D => line \in D + 1 .. E
    BY <1>2, <1>10, SMTT(30)
  <2> QED
    BY <1>1, <2>1, Positions, Zenon
<1>12. /\ line # 2 /\ line # 6
       /\ line \notin {E + 3, E + 8, E + 11, E + 12, E + 13, E + 15, E + 17}
  BY <1>2, <1>10, SMTT(30)
<1>13. name \notin {"get_total_ram", "gpu_init", "get_total_user_ram", "get_user_ram_start",
                    "get_user_ram_end", "enable_mmu", "start_scheduler", "alloc_proc_mem",
                    "create_kernel_process"}
  BY <1>1, <1>12, Positions, Zenon
<1> QED
  BY <1>1, <1>4, <1>8, <1>10, <1>11, <1>13, Zenon DEF Shallow

(* Every step of a machine with the virtio screen keeps Doomed.            *)
LEMMA NextDoomed ==
    ASSUME Place, NestInv, [Next]_vars, chosen_GPU' = VIRTIO
    PROVE  Doomed'
<1>1. overflowed \in BOOLEAN /\ timer \in BOOLEAN /\ rows \in Nat \ {0} /\ D \in Nat /\ E \in Nat
  BY Sizes, RowsAssumption, Zenon DEF NestInv
<1>2. CASE gpu_init
  <2>1. /\ Statement("gpu_init") /\ line = 6 /\ line' = 7 /\ at' = "kernel_main"
        /\ UNCHANGED <<timer, stack, overflowed, use_visual, is_initialized, cursor_y>>
    BY <1>2, GpuLine, Zenon DEF gpu_init, cpuVars
  <2>2. stack = <<>> /\ overflowed = FALSE /\ timer = FALSE
    BY <2>1, IdleAt, Zenon
  <2>3. NoScreen
    BY <2>1, SMTT(30) DEF NestInv
  <2>4. 7 \in 7 .. E + 1 /\ 0 < rows /\ 0 \in Nat /\ ~(7 = 8) /\ ~(7 > 8)
    BY <1>1, Sizes, SMTT(30)
  <2>5. Shallow'
    BY <2>1, <2>2, <2>3, <2>4, Zenon DEF Shallow, NoScreen
  <2> QED
    BY <2>1, <2>2, <2>3, <2>4, <2>5, ZenonT(40) DEF Doomed, NoScreen
<1>3. ASSUME Doomed, NEW name, StatementStep(name)
      PROVE  Doomed'
  <2>1. Statement(name) /\ timer' = timer
    BY <1>3, Zenon DEF StatementStep
  <2>2. /\ at = "kernel_main" /\ line \in 7 .. E /\ line' = line + 1
        /\ stack = <<>> /\ overflowed = FALSE /\ cursor_y < rows
        /\ line = 7 => name = "kprintf"
        /\ line > D => name = "kprintf_raw"
        /\ line > 7 => is_initialized = TRUE /\ cursor_y >= line - D - 1
        /\ name \notin {"get_total_ram", "get_total_user_ram", "get_user_ram_start",
                        "get_user_ram_end"}
    BY <1>3, <2>1, DoomedIdle, ZenonT(40)
  <2>3. /\ at' \in {"kernel_main", "init_disk"} /\ line' \in 7 .. E + 1
        /\ timer' = FALSE /\ cursor_y \in Nat
    <3>1. at' \in {"kernel_main", "init_disk"}
      BY <1>3, <2>2, Zenon DEF StatementStep
    <3>2. line' \in 7 .. E + 1
      BY <1>1, <2>2, SMTT(30)
    <3> QED
      BY <1>3, <2>1, <3>1, <3>2, Zenon DEF Doomed
  <2>4. CASE Silent(name)
    <3>1. line # 7 /\ ~(line > D)
      BY <2>2, <2>4, Zenon DEF Silent
    <3>2. /\ ~(line' = 7) /\ ~(line' = 8) /\ line > 7
          /\ cursor_y >= line' - D - 1
      BY <1>1, <2>2, <2>3, <3>1, SMTT(30)
    <3>3. UNCHANGED <<stack, overflowed, use_visual, is_initialized, cursor_y>>
      BY <2>4, Zenon DEF Silent, printVars
    <3>4. LaterPrint'
      BY <2>2, <3>2, <3>3, Zenon DEF LaterPrint
    <3>5. Shallow'
      BY <2>2, <3>2, <3>3, <3>4, Zenon DEF Shallow
    <3> QED
      BY <1>3, <2>2, <2>3, <3>3, <3>5, Zenon DEF Doomed
  <2>5. CASE Enter(stack) \/ EnterRaw(stack)
    <3>1. /\ UNCHANGED <<use_visual, is_initialized, cursor_y>>
          /\ \/ overflowed' = TRUE
             \/ overflowed' = FALSE /\ \E f \in Texts : f.at = "text" /\ stack' = <<f>>
      BY <2>2, <2>5, PrintStatement, ZenonT(40)
    <3>2. use_visual' = TRUE /\ is_initialized' \in BOOLEAN /\ cursor_y' \in Nat
      BY <1>3, <3>1, Zenon DEF Doomed
    <3>3. CASE overflowed' = TRUE
      BY <2>3, <3>2, <3>3, Zenon DEF Doomed
    <3>4. ASSUME overflowed' = FALSE, NEW f \in Texts, f.at = "text", stack' = <<f>>
          PROVE  Doomed'
      <4>1. line' = 8 => FirstPrint'
        BY <3>4, Zenon DEF FirstPrint
      <4>2. ASSUME line' > 8
            PROVE  LaterPrint'
        <5>1. line > 7 /\ line' = line + 1 /\ line \in Nat /\ cursor_y \in Nat
          BY <1>1, <2>2, <2>3, <4>2, SMTT(30)
        <5>2. is_initialized = TRUE /\ cursor_y >= line - D - 1
          BY <2>2, <5>1, Zenon
        <5>3. cursor_y >= line' - D - 2
          BY <1>1, <5>1, <5>2, SMTT(30)
        <5> QED
          BY <3>1, <3>4, <5>2, <5>3, Zenon DEF LaterPrint
      <4>3. ~(line' = 7)
        BY <1>1, <2>2, SMTT(30)
      <4>4. Shallow'
        BY <2>2, <3>1, <4>1, <4>2, <4>3, Zenon DEF Shallow
      <4> QED
        BY <2>3, <3>2, <3>4, <4>4, Zenon DEF Doomed
    <3> QED
      BY <3>1, <3>3, <3>4, Zenon
  <2> QED
    BY <1>3, <2>4, <2>5, Zenon DEF StatementStep
<1>4. ASSUME Doomed, start_scheduler
      PROVE  Doomed'
  <2>1. Statement("start_scheduler")
    BY <1>4, Zenon DEF start_scheduler
  <2> QED
    BY <1>4, <2>1, DoomedIdle, ZenonT(40)
<1>5. ASSUME Doomed, UNCHANGED <<printVars, line, timer>>, at' \in {at, "kernel_main"}
      PROVE  Doomed'
  <2>1. UNCHANGED <<stack, overflowed, use_visual, is_initialized, cursor_y>>
    BY <1>5, Zenon DEF printVars
  <2>2. Sunk => Sunk'
    BY <2>1, Zenon DEF Sunk
  <2>3. Shallow => Shallow'
    BY <1>5, <2>1, Zenon DEF Shallow, FirstPrint, LaterPrint
  <2> QED
    BY <1>5, <2>1, <2>2, <2>3, Zenon DEF Doomed
<1>6. ASSUME Doomed, ReturnStep
      PROVE  Doomed'
  <2>1. at # "calc_ram"
    BY <1>6, Zenon DEF Doomed
  <2> QED
    BY <1>5, <1>6, <2>1, Zenon DEF ReturnStep
<1>7. ASSUME Doomed, LaterStep
      PROVE  Doomed'
  BY <1>7, Zenon DEF Doomed, LaterStep, Later
<1>8. ASSUME Doomed, PrintStep, UNCHANGED <<at, line, timer, loaded>>, chosen_GPU = VIRTIO
      PROVE  Doomed'
  <2>1. overflowed = FALSE /\ stack # <<>>
    BY <1>1, <1>8, Zenon DEF PrintStep, SerialOnly, check_ready, clear, newline, scroll_return, Leave,
                      Driver, In
  <2>2. /\ use_visual = TRUE /\ is_initialized \in BOOLEAN /\ cursor_y \in Nat
        /\ line \in 7 .. E + 1 /\ (Sunk \/ Shallow)
    BY <1>8, <2>1, Zenon DEF Doomed
  <2>3. CASE Sunk
    <3>1. /\ UNCHANGED <<use_visual, chosen_GPU>> /\ is_initialized' = TRUE /\ cursor_y' \in Nat
          /\ overflowed' = TRUE \/ (overflowed' = FALSE /\ Sunk')
      BY <1>8, <2>1, <2>2, <2>3, SunkPrint, ZenonT(40)
    <3> QED
      BY <1>8, <2>2, <3>1, Zenon DEF Doomed
  <2>4. CASE Shallow
    <3>1. cursor_y < rows /\ line # 7
      BY <2>1, <2>4, Zenon DEF Shallow
    <3>2. Kept
      <4>1. CASE line = 8
        <5>1. FirstPrint
          BY <2>4, <4>1, Zenon DEF Shallow
        <5> QED
          BY <1>8, <2>1, <2>2, <3>1, <4>1, <5>1, FirstPrintStep, ZenonT(40)
      <4>2. CASE line > 8
        <5>1. LaterPrint /\ line \in Nat
          BY <1>1, <2>2, <2>4, <4>2, SMTT(30) DEF Shallow
        <5> QED
          BY <1>8, <2>1, <2>2, <3>1, <4>2, <5>1, LaterPrintStep, ZenonT(40)
      <4> QED
        BY <1>1, <2>2, <3>1, <4>1, <4>2, SMTT(30)
    <3> QED
      BY <1>8, <2>2, <3>2, Zenon DEF Doomed, Kept
  <2> QED
    BY <2>2, <2>3, <2>4, Zenon
<1>9. ~gpu_init => UNCHANGED chosen_GPU
  <2>1. CASE \E name : StatementStep(name)
    BY <2>1, Zenon DEF StatementStep, Silent, printVars, Enter, EnterRaw, screen
  <2>2. CASE start_scheduler \/ ReturnStep \/ LaterStep
    BY <2>2, Zenon DEF start_scheduler, ReturnStep, LaterStep, printVars, Enter, screen
  <2>3. CASE PrintStep \/ UNCHANGED printVars
    BY <2>3, ZenonT(40) DEF PrintStep, SerialOnly, check_ready, clear, newline, scroll_return, Leave,
                Driver, Enter, screen, printVars
  <2> QED
    BY <1>1, <2>1, <2>2, <2>3, Effects, Zenon
<1>10. ASSUME ~gpu_init
       PROVE  Doomed'
  <2>1. Doomed /\ chosen_GPU = VIRTIO
    BY <1>9, <1>10, Zenon DEF NestInv
  <2> QED
    BY <1>1, <1>3, <1>4, <1>5, <1>6, <1>7, <1>8, <1>10, <2>1, Effects, Zenon
<1> QED
  BY <1>2, <1>10, SMTT(30)

(* Nothing is being printed when the kernel starts.                        *)
LEMMA InitNest == Init => NestInv
<1> SUFFICES ASSUME Init
             PROVE  NestInv
  OBVIOUS
<1>1. /\ stack = <<>> /\ masked = TRUE /\ use_visual = TRUE /\ chosen_GPU = "NONE"
      /\ is_initialized = FALSE /\ cursor_y = 0 /\ overflowed = FALSE /\ timer = FALSE
  BY Zenon DEF Init, PrintInit
<1>2. NoScreen /\ Quiet /\ chosen_GPU # VIRTIO
  BY <1>1, Zenon DEF NoScreen, Quiet, Undisturbed, VIRTIO
<1> QED
  BY <1>1, <1>2, ZenonT(40) DEF NestInv

(* Every step of Boot keeps NestInv.                                       *)
LEMMA NextNest ==
    ASSUME Place, NestInv, [Next]_vars
    PROVE  NestInv'
<1>1. overflowed \in BOOLEAN /\ timer \in BOOLEAN
  BY Zenon DEF NestInv
<1>2. timer' \in BOOLEAN
  <2>1. CASE gpu_init \/ start_scheduler
    BY <1>1, <2>1, Zenon DEF gpu_init, start_scheduler, cpuVars
  <2>2. CASE ~(gpu_init \/ start_scheduler)
    <3>1. UNCHANGED timer
      BY <1>1, <2>2, Effects, Zenon DEF StatementStep, ReturnStep, LaterStep
    <3> QED
      BY <1>1, <3>1
  <2> QED
    BY <2>1, <2>2
<1>3. line' <= 6 => NoScreen'
  BY NextNoScreen, Zenon
<1>4. chosen_GPU' # VIRTIO => Quiet' /\ overflowed' \in BOOLEAN
  BY NextQuiet, Zenon
<1>5. chosen_GPU' = VIRTIO => Doomed'
  BY NextDoomed, Zenon
<1>6. Doomed' => overflowed' \in BOOLEAN
  BY Zenon DEF Doomed
<1> QED
  BY <1>2, <1>3, <1>4, <1>5, <1>6, Zenon DEF NestInv

(***************************************************************************)
(* The prints of kernel_main are one deep, but for those with the VirtIO   *)
(* GPU, which end in the scroll that fills the stack.                      *)
(***************************************************************************)
THEOREM NestInvariant == Spec => [](Place /\ NestInv)
<1>1. Init => Place /\ NestInv
  BY InitPlace, InitNest
<1>2. (Place /\ NestInv) /\ [Next]_vars => (Place /\ NestInv)'
  BY NextPlace, NextNest, Zenon
<1> QED
  BY <1>1, <1>2, PTL DEF Spec

(***************************************************************************)
(* From timer_init on IRQs stay masked until the boot screen's panic, but  *)
(* for a process slot that stayed zero, which runs nothing; with the       *)
(* VirtIO GPU, whose prints would unmask them, timer_init is never         *)
(* reached.                                                                *)
(***************************************************************************)
THEOREM ProcessNotPreempted == Spec => []NotPreempted
<1>1. ASSUME NestInv
      PROVE  NotPreempted
  <2>1. CASE chosen_GPU = VIRTIO
    <3>1. timer = FALSE
      BY <1>1, <2>1, Zenon DEF NestInv, Doomed
    <3> QED
      BY <3>1 DEF NotPreempted
  <2>2. CASE chosen_GPU # VIRTIO
    <3>1. Undisturbed
      BY <1>1, <2>2, Zenon DEF NestInv, Quiet
    <3> QED
      BY <3>1, SMTT(30) DEF Undisturbed, NotPreempted
  <2> QED
    BY <2>1, <2>2
<1> QED
  BY <1>1, NestInvariant, PTL

(***************************************************************************)
(* With the VirtIO GPU kernel_main never gets past the prints mmu_init     *)
(* makes for the pages of the tree, so that no process ever has a stack.   *)
(***************************************************************************)
THEOREM VirtioStopsInMmuInit ==
    Spec => [](chosen_GPU = VIRTIO => /\ at \in {"kernel_main", "init_disk"}
                                      /\ line <= 18 + MapLines + DtbLines + 1
                                      /\ stack_page = 0)
<1>1. ASSUME Place, NestInv, chosen_GPU = VIRTIO
      PROVE  /\ at \in {"kernel_main", "init_disk"}
             /\ line <= 18 + MapLines + DtbLines + 1
             /\ stack_page = 0
  <2>1. at \in {"kernel_main", "init_disk"} /\ line \in 7 .. E + 1
    BY <1>1, Zenon DEF NestInv, Doomed
  <2>2. line <= 18 + MapLines + DtbLines + 1 /\ ~(E + 13 < line)
    BY <2>1, Sizes, SMTT(30) DEF D, E
  <2> QED
    BY <1>1, <2>1, <2>2, Zenon DEF Place, StackMapped
<1>2. Place /\ NestInv
        => (chosen_GPU = VIRTIO => /\ at \in {"kernel_main", "init_disk"}
                                   /\ line <= 18 + MapLines + DtbLines + 1
                                   /\ stack_page = 0)
  BY <1>1, Zenon
<1> QED
  BY <1>2, NestInvariant, PTL

=============================================================================
