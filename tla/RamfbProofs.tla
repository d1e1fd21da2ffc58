---------------------------- MODULE RamfbProofs -----------------------------
(***************************************************************************)
(* Proofs about the RAM framebuffer: FwCfg, for every directory, every     *)
(* garbage and any number of failed transfers, and Framebuffer, for every  *)
(* screen and everything that is drawn.                                    *)
(***************************************************************************)
EXTENDS FwCfg, Framebuffer, FiniteSetTheorems, TLAPS

(***************************************************************************)
(* The entries of a directory.                                             *)
(***************************************************************************)
LEMMA ElementOf ==
    ASSUME NEW S, NEW s \in Seq(S), NEW n \in 1 .. Len(s)
    PROVE  s[n] \in S
OBVIOUS

(***************************************************************************)
(* A sequence with one more element at its end, as rfb_draw_line's trace   *)
(* of points is after a turn.                                              *)
(***************************************************************************)
LEMMA Lengthened ==
    ASSUME NEW S, NEW s \in Seq(S), NEW e \in S
    PROVE  /\ Len(s) \in Nat
           /\ Append(s, e) \in Seq(S)
           /\ Len(Append(s, e)) = Len(s) + 1
           /\ Append(s, e)[Len(s) + 1] = e
OBVIOUS

(***************************************************************************)
(* The elements it had stay where they were.                               *)
(***************************************************************************)
LEMMA OthersStay ==
    ASSUME NEW S, NEW s \in Seq(S), NEW e \in S, NEW n \in 1 .. Len(s)
    PROVE  Append(s, e)[n] = s[n]
OBVIOUS

(***************************************************************************)
(* A place in a sequence, or the one after its last, where a loop over it  *)
(* stops.                                                                  *)
(***************************************************************************)
LEMMA InOrPast ==
    ASSUME NEW S, NEW s \in Seq(S), NEW n \in 1 .. Len(s) + 1
    PROVE  /\ Len(s) \in Nat /\ n \in Nat
           /\ n > Len(s) => n - 1 = Len(s)
           /\ n > Len(s) \/ n <= Len(s)
OBVIOUS

Selectors == 0 .. Byte * Byte - 1

(***************************************************************************)
(* A number below b is the remainder, and its cofactor the quotient, of    *)
(* their composition: what __builtin_bswap16 puts together can be taken    *)
(* apart again.                                                            *)
(***************************************************************************)
LEMMA Compose ==
    ASSUME NEW b \in Nat \ {0}, NEW q \in Nat, NEW r \in 0 .. b - 1
    PROVE  (q * b + r) % b = r /\ (q * b + r) \div b = q
BY SMT

(***************************************************************************)
(* A selector has two digits in base Byte.                                 *)
(***************************************************************************)
LEMMA TwoBytes ==
    ASSUME NEW s \in Selectors
    PROVE  /\ s \div Byte \in 0 .. Byte - 1 /\ s % Byte \in 0 .. Byte - 1
           /\ s = (s \div Byte) * Byte + (s % Byte)
BY DirectoryAssumption, SMT DEF Selectors

(***************************************************************************)
(* Swapping twice gives the selector back: why an entry that is compared   *)
(* once after every read has the selector of the directory.                *)
(***************************************************************************)
LEMMA SwapTwice ==
    ASSUME NEW s \in Selectors
    PROVE  Swap(s) \in Selectors /\ Swap(Swap(s)) = s
<1> DEFINE q == s \div Byte
           r == s % Byte
<1>1. /\ q \in 0 .. Byte - 1 /\ r \in 0 .. Byte - 1
      /\ s = q * Byte + r
  BY TwoBytes
<1>2. Swap(s) = r * Byte + q
  BY DEF Swap
<1> Byte \in Nat \ {0}
  BY DirectoryAssumption
<1> HIDE DEF q, r
<1>3. Swap(s) \in Selectors
  <2>1. r * Byte <= (Byte - 1) * Byte
    BY <1>1, SMT
  <2>2. (Byte - 1) * Byte + Byte = Byte * Byte /\ r * Byte \in Nat
    BY <1>1, SMT
  <2> QED
    BY <1>1, <1>2, <2>1, <2>2, SMT DEF Selectors
<1>4. (r * Byte + q) % Byte = q /\ (r * Byte + q) \div Byte = r
  BY <1>1, Compose
<1>5. Swap(Swap(s)) = q * Byte + r
  BY <1>2, <1>4 DEF Swap
<1> QED
  BY <1>1, <1>3, <1>5

------------------------------------------------------------------------------
\* With the names of what was not read, and of what was read past the end.
Names == STRING \cup {"?", ""}
Files == [name : Names, selector : Selectors]

(***************************************************************************)
(* The inductive invariant.  A transfer in flight belongs to the place the *)
(* driver waits at; until the search is over nothing is found and nothing  *)
(* configured; and ramfb's name is in the buffer either because the device *)
(* has just put the entry there, its selector still swapped, or because    *)
(* the search has found it.                                                *)
(***************************************************************************)
Shape ==
    /\ dir \in Directories
    /\ pc \in {"find", "count", "next", "entry", "decide", "write", "done"}
    /\ count \in Nat /\ i \in 0 .. count
    /\ pc \in {"find", "count"} => i = 0
    /\ pc = "entry" => i < count
    /\ file \in Files
    /\ chosen_GPU \in {"NONE", "RAMFB"}
    /\ dma \in {"idle", "count", "entry", "write"}
    /\ position \in -1 .. Len(dir)

Waiting == dma # "idle" => pc = dma

Searching == pc \in {"find", "count", "next", "entry"} => ~found /\ configured = {}

Fresh ==
    ~found /\ file.name = Ramfb =>
        /\ pc = "entry" /\ dma = "idle"
        /\ \E n \in Listed : file = [dir[n] EXCEPT !.selector = Swap(@)]

SearchInv == Shape /\ found \in BOOLEAN /\ Waiting /\ Searching /\ Fresh /\ FoundIsRamfb

(***************************************************************************)
(* What a directory's entries are.                                         *)
(***************************************************************************)
LEMMA Entries ==
    ASSUME dir \in Directories, NEW n \in 1 .. Len(dir)
    PROVE  dir[n] \in Files
<1>1. dir \in Seq([name : STRING, selector : 1 .. Byte * Byte - 1])
  BY DirectoryAssumption, Zenon
<1>2. dir[n] \in [name : STRING, selector : 1 .. Byte * Byte - 1]
  BY <1>1, ElementOf, Zenon
<1>3. STRING \subseteq Names
  BY Zenon DEF Names
<1>4. 1 .. Byte * Byte - 1 \subseteq Selectors
  BY DirectoryAssumption DEF Selectors
<1> QED
  BY <1>2, <1>3, <1>4, Zenon DEF Files

(***************************************************************************)
(* A swapped file is a file.                                               *)
(***************************************************************************)
LEMMA SwappedFile ==
    ASSUME NEW f \in Files
    PROVE  /\ [f EXCEPT !.selector = Swap(@)] \in Files
           /\ [f EXCEPT !.selector = Swap(@)].name = f.name
           /\ [[f EXCEPT !.selector = Swap(@)] EXCEPT !.selector = Swap(@)] = f
<1>1. Swap(f.selector) \in Selectors /\ Swap(Swap(f.selector)) = f.selector
  BY SwapTwice DEF Files
<1> QED
  BY <1>1, Zenon DEF Files

(***************************************************************************)
(* The initial states satisfy the invariant.                               *)
(***************************************************************************)
LEMMA InitSearch == FwInit => SearchInv
<1> SUFFICES ASSUME FwInit PROVE SearchInv
  OBVIOUS
<1>1. dir \in Directories /\ count \in Nat
  BY DirectoryAssumption DEF FwInit
<1>2. file \in Files /\ file.name = "?"
  <2>1. Garbage \subseteq Selectors
    BY DirectoryAssumption DEF Selectors
  <2>2. file \in [name : {"?"}, selector : Garbage]
    BY DEF FwInit
  <2> QED
    BY <2>1, <2>2, Zenon DEF Files, Names
<1>3. Shape
  <2>1. Len(dir) \in Nat
    BY <1>1, DirectoryAssumption
  <2>2. i \in 0 .. count /\ position \in -1 .. Len(dir)
    BY <1>1, <2>1 DEF FwInit
  <2> QED
    BY <1>1, <1>2, <2>2 DEF FwInit, Shape
<1>4. Waiting /\ Searching /\ FoundIsRamfb
  BY DEF FwInit, Waiting, Searching, FoundIsRamfb
<1>5. Fresh
  BY <1>2 DEF Fresh, Ramfb
<1> QED
  BY <1>3, <1>4, <1>5, Zenon DEF SearchInv, FwInit

(***************************************************************************)
(* Every step keeps the invariant.                                         *)
(***************************************************************************)
LEMMA NextSearch == SearchInv /\ [FwNext]_fwvars => SearchInv'
<1> SUFFICES ASSUME SearchInv, [FwNext]_fwvars PROVE SearchInv'
  OBVIOUS
<1> USE DEF SearchInv, Listed
<1>d. Len(dir) \in Nat
  BY DirectoryAssumption DEF Shape
<1>1. CASE fw_find_file
  BY <1>1 DEF fw_find_file, Shape, Waiting, Searching, Fresh, FoundIsRamfb
<1>2. CASE Loop
  <2>1. Shape' /\ Waiting' /\ Searching'
    BY <1>2 DEF Loop, Polled, Shape, Waiting, Searching
  <2>2. Fresh' /\ FoundIsRamfb' /\ found' \in BOOLEAN
    BY <1>2 DEF Loop, Polled, Searching, Fresh, FoundIsRamfb
  <2> QED
    BY <2>1, <2>2
<1>3. CASE Compare
  <2>1. file' \in Files /\ file'.name = file.name
    BY <1>3, SwappedFile, Zenon DEF Compare, Swapped, Shape
  <2>2. CASE file.name = Ramfb
    <3>1. PICK n \in Listed : file = [dir[n] EXCEPT !.selector = Swap(@)]
      BY <1>3, <2>2 DEF Compare, Searching, Fresh
    <3>2. file' = dir[n]
      BY <1>3, <3>1, Entries, SwappedFile, Zenon DEF Compare, Swapped, Shape
    <3> QED
      BY <1>3, <2>1, <2>2, <3>2
     , Zenon DEF Compare, Polled, fwdevice, Shape, Waiting, Searching, Fresh, FoundIsRamfb
  <2>3. CASE file.name # Ramfb
    BY <1>3, <2>1, <2>3
   , SMTT(30) DEF Compare, Polled, fwdevice, Shape, Waiting, Searching, Fresh, FoundIsRamfb
  <2> QED
    BY <2>2, <2>3
<1>4. CASE rfb_init
  BY <1>4 DEF rfb_init, Shape, Waiting, Searching, Fresh, FoundIsRamfb
<1>5. CASE ChooseRamfb
  BY <1>5 DEF ChooseRamfb, Polled, fwdevice, Shape, Waiting, Searching, Fresh, FoundIsRamfb
<1>6. CASE ReadCount
  BY <1>6, <1>d DEF ReadCount, Shape, Waiting, Searching, Fresh, FoundIsRamfb
<1>7. CASE ReadEntry
  <2>1. pc = "entry" /\ ~found /\ configured = {}
    BY <1>7, Zenon DEF ReadEntry, Waiting, Searching
  <2>2. /\ file' \in Files /\ position' \in -1 .. Len(dir)
        /\ file'.name = Ramfb =>
             \E n \in Listed : file' = [dir[n] EXCEPT !.selector = Swap(@)]
    <3>1. CASE position = -1
      <4>1. file' \in [name : {"?"}, selector : Garbage]
        BY <1>7, <3>1 DEF ReadEntry
      <4>2. Garbage \subseteq Selectors
        BY DirectoryAssumption DEF Selectors
      <4>3. file' \in Files /\ file'.name = "?"
        BY <4>1, <4>2, Zenon DEF Files, Names
      <4> QED
        BY <1>7, <3>1, <4>3, <1>d DEF ReadEntry, Ramfb
    <3>2. CASE position # -1 /\ position < Len(dir)
      <4>1. position + 1 \in 1 .. Len(dir)
        BY <3>2, <1>d, SMTT(30) DEF Shape
      <4>2. /\ file' = [dir[position + 1] EXCEPT !.selector = Swap(@)]
            /\ position' = position + 1
        BY <1>7, <3>2 DEF ReadEntry
      <4>3. dir[position + 1] \in Files
        BY <4>1, Entries DEF Shape
      <4>4. file' \in Files /\ file'.name = dir[position + 1].name
        BY <4>2, <4>3, SwappedFile, Zenon
      <4>5. position' \in -1 .. Len(dir)
        BY <1>d, <4>1, <4>2
      <4> QED
        BY <4>1, <4>2, <4>4, <4>5, SMTT(30)
    <3>3. CASE position # -1 /\ ~(position < Len(dir))
      <4>1. file' = [name |-> "", selector |-> 0] /\ position' = position
        BY <1>7, <3>3, Zenon DEF ReadEntry
      <4>2. 0 \in Selectors
        BY DirectoryAssumption DEF Selectors
      <4> QED
        BY <4>1, <4>2, Zenon DEF Files, Names, Ramfb, Shape
    <3> QED
      BY <3>1, <3>2, <3>3
  <2> QED
    BY <1>7, <2>1, <2>2, Zenon
    DEF ReadEntry, Shape, Waiting, Searching, Fresh, FoundIsRamfb
<1>8. CASE WriteConfig
  BY <1>8 DEF WriteConfig, fwdriver, Shape, Waiting, Searching, Fresh, FoundIsRamfb
<1>9. CASE TransferFails
  BY <1>9 DEF TransferFails, fwdriver, Shape, Waiting, Searching, Fresh, FoundIsRamfb
<1>10. CASE UNCHANGED fwvars
  BY <1>10, Zenon DEF fwvars, fwdriver, fwdevice, Shape, Waiting, Searching, Fresh, FoundIsRamfb
<1> QED
  BY <1>1, <1>2, <1>3, <1>4, <1>5, <1>6, <1>7, <1>8, <1>9, <1>10
 , SMTT(30) DEF FwNext, RamfbDriver, Firmware, Done

(***************************************************************************)
(* The invariant holds in every state.                                     *)
(***************************************************************************)
THEOREM SearchInvariant == FwSpec => []SearchInv
<1> QED
  BY InitSearch, NextSearch, PTL DEF FwSpec

(***************************************************************************)
(* Whatever the directory and however many transfers fail, fw_find_file    *)
(* takes no other file for ramfb, and rfb_init writes what was found to no *)
(* other selector.                                                         *)
(***************************************************************************)
THEOREM OnlyRamfbFound == FwSpec => []FoundIsRamfb
<1>1. SearchInv => FoundIsRamfb
  BY DEF SearchInv
<1> QED
  BY <1>1, SearchInvariant, PTL

(***************************************************************************)
(* The locals of the search keep their types.                              *)
(***************************************************************************)
THEOREM SearchTypeCorrect == FwSpec => []FwTypeOK
<1>1. SearchInv => FwTypeOK
  BY DEF SearchInv, Shape, Files, Selectors, FwTypeOK
<1> QED
  BY <1>1, SearchInvariant, PTL

(***************************************************************************)
(* No step of the driver starts a transfer over one in flight or leaves    *)
(* the buffer of one: fw_cfg_dma_operation polls to the end, with or       *)
(* without an error.                                                       *)
(***************************************************************************)
THEOREM TransfersApart == FwSpec => OneTransfer
<1>1. SearchInv /\ [FwNext]_fwvars => [dma # "idle" => dma' \in {dma, "idle"} /\ pc' = pc]_fwvars
  <2> SUFFICES ASSUME SearchInv, FwNext, dma # "idle"
               PROVE  dma' \in {dma, "idle"} /\ pc' = pc
    OBVIOUS
  <2>1. pc = dma /\ dma \in {"count", "entry", "write"}
    BY DEF SearchInv, Shape, Waiting
  <2>2. ~RamfbDriver
    BY <2>1 DEF RamfbDriver, fw_find_file, Loop, Polled, Compare, rfb_init, ChooseRamfb
  <2>3. CASE Firmware
    BY <2>3, Zenon DEF Firmware, ReadCount, ReadEntry, WriteConfig, TransferFails, fwdriver
  <2>4. CASE Done
    BY <2>4 DEF Done, fwvars, fwdriver, fwdevice
  <2> QED
    BY <2>2, <2>3, <2>4 DEF FwNext
<1> QED
  BY <1>1, SearchInvariant, PTL DEF FwSpec, OneTransfer

------------------------------------------------------------------------------
(***************************************************************************)
(* What holds besides while the device fails at nothing: the entry the     *)
(* device reads next is the one the loop is at, and none before it is      *)
(* ramfb.                                                                  *)
(***************************************************************************)
Over == pc \in {"decide", "write", "done"}

Counted == pc \in {"next", "entry"} \/ Over \/ (pc = "count" /\ dma = "idle") =>
               count = Len(dir)

Passed == \A n \in 1 .. i : dir[n].name # Ramfb

InStep ==
    /\ pc = "count" /\ dma = "idle" => position = 0
    /\ pc = "next" \/ dma = "entry" => position = i
    /\ pc = "entry" /\ dma = "idle" => file = [dir[i + 1] EXCEPT !.selector = Swap(@)]
                                       /\ position = i + 1

Outcome == Over => IF found THEN i < Len(dir) /\ file = dir[i + 1] /\ file.name = Ramfb
                            ELSE i = Len(dir)

Written ==
    /\ pc # "done" => chosen_GPU = "NONE"
    /\ pc = "decide" => configured = {}
    /\ pc = "write" => /\ file.selector # 0
                       /\ configured = IF dma = "write" THEN {} ELSE {file.selector}
    /\ pc = "done" => /\ configured = IF file.selector = 0 THEN {} ELSE {file.selector}
                      /\ chosen_GPU = IF file.selector = 0 THEN "NONE" ELSE "RAMFB"

Faultless ==
    /\ failures \in Nat
    /\ present /\ failures = 0 => Counted /\ Passed /\ InStep /\ Outcome /\ Written

(***************************************************************************)
(* Every step keeps it.                                                    *)
(***************************************************************************)
LEMMA NextFaultless == SearchInv /\ SearchInv' /\ Faultless /\ [FwNext]_fwvars => Faultless'
<1> SUFFICES ASSUME SearchInv, SearchInv', Faultless, [FwNext]_fwvars PROVE Faultless'
  OBVIOUS
<1> USE DEF SearchInv
<1> DEFINE Parts == Counted /\ Passed /\ InStep /\ Outcome /\ Written
<1>d. Len(dir) \in Nat /\ i \in Nat /\ i' \in Nat
  BY DirectoryAssumption DEF Shape
<1>e. failures' \in {failures, failures + 1} /\ present' = present /\ dir' = dir
  BY Zenon DEF FwNext, RamfbDriver, Firmware, Done, fw_find_file, Loop, Compare, rfb_init, ChooseRamfb,
               ReadCount, ReadEntry, WriteConfig, TransferFails, fwvars, fwdevice, fwdriver
<1>f. failures' \in Nat /\ (failures' = 0 => failures = 0) /\ present' = present /\ dir' = dir
  BY <1>e DEF Faultless
<1>s. SUFFICES ASSUME present, failures = 0, failures' = 0, Parts
               PROVE  Parts'
  BY <1>f DEF Faultless
<1>1. CASE fw_find_file
  BY <1>1, <1>s, <1>d, SMTT(30) DEF fw_find_file, Shape, Waiting, Searching, Counted, Passed, InStep, Outcome, Written, Over
<1>2. CASE Loop
  BY <1>2, <1>s, <1>d DEF Loop, Polled, Shape, Searching, Counted, Passed, InStep, Outcome, Written, Over
<1>3. CASE Compare
  <2>1. i < Len(dir) /\ i + 1 \in 1 .. Len(dir)
    BY <1>3, <1>s, <1>d DEF Compare, Shape, Counted
  <2>2. dir[i + 1] \in Files
    BY <2>1, Entries DEF Shape
  <2>3. file = [dir[i + 1] EXCEPT !.selector = Swap(@)] /\ position = i + 1
    BY <1>3, <1>s DEF Compare, Polled, InStep
  <2>4. file' = dir[i + 1] /\ file.name = dir[i + 1].name
    BY <1>3, <2>2, <2>3, SwappedFile, Zenon DEF Compare, Swapped
  <2>5. CASE file.name = Ramfb
    BY <1>3, <1>s, <1>d, <2>1, <2>4, <2>5 DEF Compare, fwdevice, Shape, Searching, Counted, Passed,
       InStep, Outcome, Written, Over, Polled
  <2>6. CASE file.name # Ramfb
    <3>1. Passed' /\ i' = i + 1
      BY <1>3, <1>s, <1>d, <2>4, <2>6 DEF Compare, Passed
    <3>2. file' = dir'[i']
      BY <1>f, <2>4, <3>1
    <3> QED
      BY <1>3, <1>s, <1>d, <2>3, <2>6, <3>1, <3>2, SMTT(30) DEF Compare, fwdevice, Polled, Counted,
         InStep, Outcome, Written, Over
  <2> QED
    BY <2>5, <2>6
<1>4. CASE rfb_init
  BY <1>4, <1>s, <1>d DEF rfb_init, Waiting, Counted, Passed, InStep, Outcome, Written, Over
<1>5. CASE ChooseRamfb
  BY <1>5, <1>s, <1>d DEF ChooseRamfb, fwdevice, Polled, Counted, Passed, InStep, Outcome,
     Written, Over
<1>6. CASE ReadCount
  BY <1>6, <1>s, <1>d DEF ReadCount, Waiting, Shape, Counted, Passed, InStep, Outcome,
     Written, Over
<1>7. CASE ReadEntry
  <2>1. pc = "entry" /\ position = i /\ i < Len(dir)
    BY <1>7, <1>s, <1>d, Zenon DEF ReadEntry, Waiting, Shape, Counted, InStep, Over
  <2>2. file' = [dir[i + 1] EXCEPT !.selector = Swap(@)] /\ position' = i + 1
    BY <1>7, <1>d, <2>1 DEF ReadEntry
  <2> QED
    BY <1>7, <1>s, <1>d, <2>1, <2>2 DEF ReadEntry, Counted, Passed, InStep, Outcome,
       Written, Over
<1>8. CASE WriteConfig
  BY <1>8, <1>s, <1>d DEF WriteConfig, fwdriver, Waiting, Counted, Passed, InStep, Outcome,
     Written, Over
<1>9. CASE TransferFails
  BY <1>9, <1>s DEF TransferFails
<1>10. CASE UNCHANGED fwvars
  BY <1>10, <1>s DEF fwvars, fwdriver, fwdevice, Counted, Passed, InStep, Outcome, Written, Over
<1> QED
  BY <1>1, <1>2, <1>3, <1>4, <1>5, <1>6, <1>7, <1>8, <1>9, <1>10
 , SMTT(30) DEF FwNext, RamfbDriver, Firmware, Done

(***************************************************************************)
(* With a device that fails at nothing the search finds ramfb exactly when *)
(* the directory has it, and the structure goes to the first such entry.   *)
(***************************************************************************)
THEOREM StructureWritten == FwSpec => []RamfbConfigured
<1>1. FwInit => Faultless
  BY DEF FwInit, Faultless, Counted, Passed, InStep, Outcome, Written, Over
<1>2. SearchInv /\ Faultless => RamfbConfigured
  <2> SUFFICES ASSUME SearchInv, Faultless, pc = "done", present, failures = 0
               PROVE  RamfbConfigured
    BY DEF RamfbConfigured
  <2>1. Passed /\ Outcome /\ Written /\ Over
    BY DEF Faultless, Over
  <2>2. Len(dir) \in Nat /\ i \in Nat /\ found \in BOOLEAN
    BY DirectoryAssumption DEF SearchInv, Shape
  <2>3. chosen_GPU = "RAMFB" <=> configured # {}
    BY <2>1 DEF Written
  <2>4. \A n \in 1 .. Len(dir) : dir[n].selector # 0
    <3>1. dir \in Seq([name : STRING, selector : 1 .. Byte * Byte - 1])
      BY DirectoryAssumption, Zenon DEF SearchInv, Shape
    <3> TAKE n \in 1 .. Len(dir)
    <3>2. dir[n] \in [name : STRING, selector : 1 .. Byte * Byte - 1]
      BY <3>1, ElementOf, Zenon
    <3> QED
      BY <3>2, DirectoryAssumption
  <2>5. CASE found
    <3>1. i + 1 \in Listed /\ file = dir[i + 1]
      BY <2>1, <2>2, <2>5 DEF Outcome, Listed
    <3>2. \A m \in Listed : i + 1 <= m
      BY <2>1, <2>2 DEF Passed, Listed
    <3>3. configured = {dir[i + 1].selector}
      BY <2>1, <2>4, <3>1, SMTT(30) DEF Written, Listed
    <3> QED
      BY <2>3, <2>5, <3>1, <3>2, <3>3, Zenon DEF RamfbConfigured
  <2>6. CASE ~found
    <3>1. i = Len(dir) /\ Listed = {}
      BY <2>1, <2>2, <2>6, SMTT(30) DEF Outcome, Passed, Listed
    <3>2. found = (Listed # {})
      BY <2>2, <2>6, <3>1, Zenon
    <3> QED
      BY <2>3, <3>1, <3>2, Zenon DEF RamfbConfigured
  <2> QED
    BY <2>2, <2>5, <2>6
<1> QED
  BY <1>1, <1>2, NextFaultless, SearchInvariant, PTL DEF FwSpec

------------------------------------------------------------------------------
(* Drawing: between the turns.                                             *)

(***************************************************************************)
(* Division and remainder, for a divisor that is not a literal.            *)
(***************************************************************************)
LEMMA Divided ==
    ASSUME NEW m \in Nat \ {0}, NEW a \in Int, NEW q \in Int, q = a \div m
    PROVE  a = q * m + (a % m)
OBVIOUS

(***************************************************************************)
(* Quotient and remainder of a multiple with a rest.                       *)
(***************************************************************************)
LEMMA Remainder ==
    ASSUME NEW m \in Nat \ {0}, NEW q \in Int, NEW r \in 0 .. m - 1
    PROVE  (q * m + r) % m = r /\ (q * m + r) \div m = q
<1>1. (q * m + r) % m = r
  OBVIOUS
<1>2. (q * m + r) \div m = q
  OBVIOUS
<1> QED
  BY <1>1, <1>2

\* a columns and b rows from the start of a line, one of the longer side has
\* been taken with every turn, and the error is how far it is from the line.
Along(dx, dy, a, b, err, turns) ==
    /\ a \in 0 .. dx /\ b \in 0 .. dy /\ err \in Int
    /\ dx * b - dy * a = err - Half(IF dx > dy THEN dx ELSE -dy)
    /\ IF dx > dy THEN turns = a /\ err \in 0 .. dx - 1
       ELSE turns = b /\ err \in -dy .. 0 /\ (dy > 0 => err > -dy)

Followed(l, line, turns) ==
    LET start == LineStart(l.x0, l.y0, l.x1, l.y1)
        a == Distance(line.x, l.x0)
        b == Distance(line.y, l.y0)
    IN  /\ line = [x |-> line.x, y |-> line.y, dx |-> start.dx, dy |-> start.dy,
                   sx |-> start.sx, sy |-> start.sy, err |-> line.err]
        /\ line.x = l.x0 + start.sx * a /\ line.y = l.y0 + start.sy * b
        /\ Along(start.dx, start.dy, a, b, line.err, turns)

\* The points so far, and the place of the line after them.
Traced(l, drawing, over) ==
    LET points == drawing.points
        total == Len(points)
        here == [x |-> drawing.line.x, y |-> drawing.line.y]
    IN  /\ points \in Seq([x : Int, y : Int])
        /\ \A n \in 1 .. total : /\ OnLine(l, points[n])
                                 /\ n > 1 => Near(points[n - 1], points[n])
        /\ IF total > 0 THEN points[1] = [x |-> l.x0, y |-> l.y0]
                        ELSE here = [x |-> l.x0, y |-> l.y0]
        /\ drawing.drawn = Visible(points)
        /\ IF over THEN /\ total > 0 /\ points[total] = here /\ AtEnd(drawing.line, l.x1, l.y1)
                        /\ Followed(l, drawing.line, total - 1)
           ELSE /\ Followed(l, drawing.line, total)
                /\ total > 0 => Near(points[total], here)

\* The pen stands where the next character belongs, and all before are drawn.
LineAt(c, at) == U32(c.y + Cardinality(LineEnds(c.s, at)) * (Glyph * c.scale + Leading))

DrawnBefore(c, at) == {Place(p) : p \in {q \in Screen : \E n \in 1 .. at - 1 : Covers(c, n, q)}}

Lettered(c, at, pen) ==
    /\ at \in 1 .. Len(c.s) + 1
    /\ pen = [y |-> LineAt(c, at), xoff |-> Column(c.s, at), drawn |-> DrawnBefore(c, at)]

\* The inductive invariant of DrawingSpec.
DrawingInv ==
    /\ call.over \in BOOLEAN
    /\ call.fn = "rect" =>
         in \in Rects /\ out = rfb_fill_rect(U32(in.x), U32(in.y), in.w, in.h)
    /\ call.fn = "line" => in \in Lines /\ Traced(in, out, call.over)
    /\ call.fn = "string" =>
         in \in Captions /\ Lettered(in, out.i, out.pen) /\ (call.over => out.i > Len(in.s))

------------------------------------------------------------------------------
(* Rectangles: coordinates wrap around at Wrap.                            *)

(***************************************************************************)
(* An unsigned sum may be reduced before or after it is added to.          *)
(***************************************************************************)
LEMMA WrapSum ==
    ASSUME NEW a \in Int, NEW b \in Int
    PROVE  U32(U32(a) + b) = U32(a + b)
<1>1. PICK W, r, q : W = Wrap /\ r = U32(a) /\ q = a \div W
  OBVIOUS
<1>2. W \in Nat \ {0} /\ r = a % W /\ r \in 0 .. W - 1 /\ q \in Int
  BY <1>1, ScreenAssumption DEF U32
<1>3. a = q * W + r
  BY <1>1, <1>2, Divided, SMTT(30)
<1>4. PICK s, m : s = (r + b) % W /\ m = (r + b) \div W
  OBVIOUS
<1>5. s \in 0 .. W - 1 /\ m \in Int /\ r + b \in Int
  BY <1>2, <1>4
<1>6. r + b = m * W + s
  BY <1>2, <1>4, <1>5, Divided, Zenon
<1>7. a + b = (q + m) * W + s
  <2>1. (q + m) * W = q * W + m * W
    BY <1>2, <1>5
  <2>2. PICK u, v : u = q * W /\ v = m * W
    OBVIOUS
  <2>3. u \in Int /\ v \in Int
    BY <1>2, <1>5, <2>2
  <2>4. a = u + r /\ r + b = v + s /\ (q + m) * W = u + v
    BY <1>3, <1>6, <2>1, <2>2
  <2> QED
    BY <1>2, <1>5, <2>3, <2>4
<1>8. ((q + m) * W + s) % W = s
  <2>1. q + m \in Int
    BY <1>2, <1>5
  <2> QED
    BY <1>2, <1>5, <2>1, Remainder, Zenon
<1> QED
  BY <1>1, <1>4, <1>7, <1>8, SMTT(30) DEF U32

(***************************************************************************)
(* A coordinate left of or above the screen is a large number, outside of  *)
(* it; one on the screen is itself.                                        *)
(***************************************************************************)
LEMMA Lands ==
    ASSUME NEW length \in Nat, length <= Wrap, NEW z \in Int, length - Wrap <= z, z < Wrap
    PROVE  /\ U32(z) \in Nat /\ (z >= 0 => U32(z) = z)
           /\ U32(z) < length <=> z \in 0 .. length - 1
<1>1. PICK W : W = Wrap
  OBVIOUS
<1>2. W \in Nat \ {0}
  BY <1>1, ScreenAssumption, SMTT(30)
<1>3. z >= 0 => z % W = z
  BY <1>1, <1>2
<1>4. z < 0 => z % W = z + W
  BY <1>1, <1>2, SMTT(30)
<1> QED
  BY <1>1, <1>2, <1>3, <1>4 DEF U32

(***************************************************************************)
(* rfb_draw_pixel colours a pixel of the screen, and nothing for a place   *)
(* beside it.                                                              *)
(***************************************************************************)
LEMMA PixelAt ==
    ASSUME NEW x \in Int, width - Wrap <= x, x < Wrap,
           NEW y \in Int, height - Wrap <= y, y < Wrap, NEW e
    PROVE  e \in rfb_draw_pixel(U32(x), U32(y))
             <=> \E p \in Screen : e = Place(p) /\ p.x = x /\ p.y = y
<1>1. /\ U32(x) \in Nat /\ (x >= 0 => U32(x) = x) /\ (U32(x) < width <=> x \in 0 .. width - 1)
      /\ U32(y) \in Nat /\ (y >= 0 => U32(y) = y) /\ (U32(y) < height <=> y \in 0 .. height - 1)
      /\ width \in Nat /\ height \in Nat
  BY ScreenAssumption, Lands
<1>2. CASE x \in 0 .. width - 1 /\ y \in 0 .. height - 1
  <2>1. U32(x) = x /\ U32(y) = y /\ ~(U32(x) >= width) /\ ~(U32(y) >= height)
    BY <1>1, <1>2
  <2>2. rfb_draw_pixel(U32(x), U32(y)) = {y * width + x}
    BY <2>1 DEF rfb_draw_pixel
  <2>3. PICK p : p = [x |-> x, y |-> y]
    BY Zenon
  <2>4. p \in Screen /\ p.x = x /\ p.y = y /\ Place(p) = y * width + x
    BY <1>2, <2>3 DEF Screen, Place
  <2>5. \A q \in Screen : q.x = x /\ q.y = y => Place(q) = y * width + x
    BY DEF Place
  <2> QED
    BY <2>2, <2>4, <2>5, Zenon
<1>3. CASE ~(x \in 0 .. width - 1 /\ y \in 0 .. height - 1)
  <2>1. rfb_draw_pixel(U32(x), U32(y)) = {}
    BY <1>1, <1>3 DEF rfb_draw_pixel
  <2>2. \A q \in Screen : ~(q.x = x /\ q.y = y)
    BY <1>3 DEF Screen
  <2> QED
    BY <2>1, <2>2, Zenon
<1> QED
  BY <1>2, <1>3

(***************************************************************************)
(* rfb_fill_rect colours the visible part of the rectangle.                *)
(***************************************************************************)
LEMMA RectRight ==
    ASSUME DrawingInv
    PROVE  RectClipped
<1>1. SUFFICES ASSUME Returned("rect")
               PROVE  out = {Place(p) : p \in {q \in Screen :
                               /\ in.x <= q.x /\ q.x < in.x + in.w
                               /\ in.y <= q.y /\ q.y < in.y + in.h}}
  BY Zenon DEF RectClipped
<1>2. PICK x, y, w, h : x = in.x /\ y = in.y /\ w = in.w /\ h = in.h
  BY Zenon
<1>3. Unwrapped(x, w, width) /\ Unwrapped(y, h, height) /\ out = rfb_fill_rect(U32(x), U32(y), w, h)
  BY <1>1, <1>2, RectsAssumption, Zenon DEF DrawingInv, Returned
<1>4. /\ x \in Int /\ y \in Int /\ w \in Nat /\ h \in Nat /\ Wrap \in Nat
      /\ width \in Nat /\ height \in Nat /\ width - Wrap <= x /\ height - Wrap <= y
      /\ x + w <= Wrap /\ y + h <= Wrap
  BY <1>3, ScreenAssumption DEF Unwrapped
<1>5. ASSUME NEW dx \in 0 .. w - 1, NEW dy \in 0 .. h - 1, NEW e
      PROVE  e \in rfb_draw_pixel(U32(U32(x) + dx), U32(U32(y) + dy))
               <=> \E q \in Screen : e = Place(q) /\ q.x = x + dx /\ q.y = y + dy
  <2>1. PICK a, b : a = x + dx /\ b = y + dy
    OBVIOUS
  <2>2. /\ a \in Int /\ width - Wrap <= a /\ a < Wrap /\ dx \in Int
        /\ b \in Int /\ height - Wrap <= b /\ b < Wrap /\ dy \in Int
    BY <1>4, <2>1
  <2>3. U32(U32(x) + dx) = U32(a) /\ U32(U32(y) + dy) = U32(b)
    BY <1>4, <2>1, <2>2, WrapSum, SMTT(30)
  <2>4. e \in rfb_draw_pixel(U32(a), U32(b))
          <=> \E q \in Screen : e = Place(q) /\ q.x = a /\ q.y = b
    BY <2>2, PixelAt
  <2> QED
    BY <2>1, <2>3, <2>4, Zenon
<1>6. ASSUME NEW e
      PROVE  e \in out <=> \E dx \in 0 .. w - 1, dy \in 0 .. h - 1 :
                             e \in rfb_draw_pixel(U32(U32(x) + dx), U32(U32(y) + dy))
  BY <1>3 DEF rfb_fill_rect, Pixels
<1>7. ASSUME NEW e
      PROVE  e \in out <=> \E q \in Screen, dx \in 0 .. w - 1, dy \in 0 .. h - 1 :
                             e = Place(q) /\ q.x = x + dx /\ q.y = y + dy
  <2>1. ASSUME e \in out
        PROVE  \E q \in Screen, dx \in 0 .. w - 1, dy \in 0 .. h - 1 :
                 e = Place(q) /\ q.x = x + dx /\ q.y = y + dy
    <3>1. PICK dx \in 0 .. w - 1, dy \in 0 .. h - 1 :
            e \in rfb_draw_pixel(U32(U32(x) + dx), U32(U32(y) + dy))
      BY <1>6, <2>1, ZenonT(40)
    <3>2. PICK q \in Screen : e = Place(q) /\ q.x = x + dx /\ q.y = y + dy
      BY <1>5, <3>1
    <3> QED
      BY <3>2, Zenon
  <2>2. ASSUME NEW q \in Screen, NEW dx \in 0 .. w - 1, NEW dy \in 0 .. h - 1,
               e = Place(q), q.x = x + dx, q.y = y + dy
        PROVE  e \in out
    <3>1. e \in rfb_draw_pixel(U32(U32(x) + dx), U32(U32(y) + dy))
      BY <1>5, <2>2, Zenon
    <3> QED
      BY <1>6, <3>1, Zenon
  <2> QED
    BY <2>1, <2>2, Zenon
<1>8. ASSUME NEW q \in Screen
      PROVE  (\E dx \in 0 .. w - 1, dy \in 0 .. h - 1 : q.x = x + dx /\ q.y = y + dy)
               <=> x <= q.x /\ q.x < x + w /\ y <= q.y /\ q.y < y + h
  <2>1. PICK u, v : u = q.x /\ v = q.y
    OBVIOUS
  <2>2. u \in Int /\ v \in Int
    BY <1>4, <2>1 DEF Screen
  <2>3. (\E dx \in 0 .. w - 1 : u = x + dx) <=> x <= u /\ u < x + w
    <3>1. x <= u /\ u < x + w => u - x \in 0 .. w - 1 /\ u = x + (u - x)
      BY <1>4, <2>2
    <3> QED
      BY <1>4, <2>2, <3>1, SMTT(30)
  <2>4. (\E dy \in 0 .. h - 1 : v = y + dy) <=> y <= v /\ v < y + h
    <3>1. y <= v /\ v < y + h => v - y \in 0 .. h - 1 /\ v = y + (v - y)
      BY <1>4, <2>2
    <3> QED
      BY <1>4, <2>2, <3>1
  <2> QED
    BY <2>1, <2>3, <2>4, Zenon
<1>9. ASSUME NEW e
      PROVE  e \in out <=> \E q \in Screen : /\ e = Place(q)
                                             /\ x <= q.x /\ q.x < x + w /\ y <= q.y /\ q.y < y + h
  BY <1>7, <1>8, ZenonT(40)
<1>10. out = {Place(p) : p \in {q \in Screen : x <= q.x /\ q.x < x + w /\ y <= q.y /\ q.y < y + h}}
  BY <1>9, Zenon
<1> QED
  BY <1>2, <1>10, Zenon

------------------------------------------------------------------------------
(* Lines.                                                                  *)

\* The shorter side is not passed, and is complete with the longer one.
LEMMA ShorterSide ==
    ASSUME NEW D \in Nat \ {0}, NEW S \in Nat, NEW a \in 0 .. D, NEW b \in Nat,
           NEW f \in Int, D * b - S * a = f, f < D
    PROVE  b <= S
<1>1. SUFFICES ASSUME b >= S + 1 PROVE FALSE
  OBVIOUS
<1>2. D * b >= D * (S + 1)
  BY <1>1
<1>3. S * a <= S * D
  OBVIOUS
<1>4. D * (S + 1) = S * D + D
  OBVIOUS
<1>5. PICK u, v, w : u = D * b /\ v = S * a /\ w = S * D
  OBVIOUS
<1>6. u \in Int /\ v \in Int /\ w \in Int
  BY <1>5
<1> QED
  BY <1>2, <1>3, <1>4, <1>5, <1>6

(***************************************************************************)
(* When one side of a line is complete and the error is in its bounds, the *)
(* other side is complete too.                                             *)
(***************************************************************************)
LEMMA SidesComplete ==
    ASSUME NEW D \in Nat \ {0}, NEW S \in Nat, NEW b \in Nat,
           NEW f \in Int, D * b - S * D = f, -D < f, f < D
    PROVE  b = S
<1>1. PICK k : k = b - S
  OBVIOUS
<1>2. k \in Int /\ b = k + S
  BY <1>1
<1>3. D * b = D * k + S * D
  BY <1>2
<1>4. PICK u, w : u = D * k /\ w = S * D
  OBVIOUS
<1>5. u \in Int /\ w \in Int /\ D * b = u + w /\ D * b - w = f
  BY <1>2, <1>3, <1>4
<1>6. u = f
  BY <1>5
<1>7. k >= 1 => D * k >= D
  BY <1>2
<1>8. k <= -1 => D * k <= -D
  BY <1>2
<1> QED
  BY <1>2, <1>4, <1>6, <1>7, <1>8

(***************************************************************************)
(* Where rfb_draw_line is on its way: within half a pixel of the line, and *)
(* at the end after as many turns as the longer side has pixels.           *)
(***************************************************************************)
LEMMA AlongFacts ==
    ASSUME NEW dx \in Nat, NEW dy \in Nat, NEW a, NEW b, NEW err, NEW turns,
           Along(dx, dy, a, b, err, turns), NEW longer, longer = IF dx > dy THEN dx ELSE dy
    PROVE  /\ turns \in 0 .. longer /\ (turns = longer <=> a = dx /\ b = dy)
           /\ 2 * Distance(dx * b, dy * a) <= longer
<1>1. /\ a \in 0 .. dx /\ b \in 0 .. dy /\ err \in Int
      /\ dx * b - dy * a = err - Half(IF dx > dy THEN dx ELSE -dy)
      /\ IF dx > dy THEN turns = a /\ err \in 0 .. dx - 1
         ELSE turns = b /\ err \in -dy .. 0 /\ (dy > 0 => err > -dy)
  BY DEF Along
<1>2. PICK u, v : u = dx * b /\ v = dy * a
  OBVIOUS
<1>3. u \in Int /\ v \in Int
  BY <1>1, <1>2
<1>4. CASE dx > dy
  <2>1. PICK f : f = u - v
    OBVIOUS
  <2>2. f \in Int /\ dx * b - dy * a = f /\ f = err - (dx \div 2)
    BY <1>1, <1>2, <1>3, <1>4, <2>1, SMTT(30) DEF Half
  <2>3. -dx < f /\ f < dx /\ 2 * f <= dx /\ 2 * f >= -dx
    BY <1>1, <1>4, <2>2
  <2>4. a = dx => b = dy
    <3>1. b \in Nat /\ dx \in Nat \ {0}
      BY <1>1, <1>4, SMTT(30)
    <3>2. a = dx => dx * b - dy * dx = f
      BY <2>2
    <3> QED
      BY <2>2, <2>3, <3>1, <3>2, SidesComplete, SMTT(30)
  <2>5. 2 * Distance(u, v) <= dx
    BY <1>3, <2>1, <2>3, SMTT(30) DEF Distance
  <2> QED
    BY <1>1, <1>2, <1>4, <2>4, <2>5, SMTT(30)
<1>5. CASE ~(dx > dy) /\ dy > 0
  <2>1. PICK f : f = v - u
    OBVIOUS
  <2>2. f \in Int /\ dy * a - dx * b = f /\ f = -(dy \div 2) - err
    BY <1>1, <1>2, <1>3, <1>5, <2>1, SMTT(30) DEF Half
  <2>3. -dy < f /\ f < dy /\ 2 * f <= dy /\ 2 * f >= -dy
    BY <1>1, <1>5, <2>2
  <2>4. b = dy => a = dx
    <3>1. a \in Nat /\ dy \in Nat \ {0}
      BY <1>1, <1>5
    <3>2. b = dy => dy * a - dx * dy = f
      BY <2>2
    <3> QED
      BY <2>2, <2>3, <3>1, <3>2, SidesComplete, SMTT(30)
  <2>5. 2 * Distance(u, v) <= dy
    BY <1>3, <2>1, <2>3 DEF Distance
  <2> QED
    BY <1>1, <1>2, <1>5, <2>4, <2>5, Zenon
<1>6. CASE dx = 0 /\ dy = 0
  <2>1. a = 0 /\ b = 0 /\ turns = 0 /\ longer = 0
    BY <1>1, <1>6
  <2>2. u = 0 /\ v = 0
    BY <1>2, <1>6, <2>1
  <2>3. 2 * Distance(u, v) <= longer
    BY <2>1, <2>2 DEF Distance
  <2> QED
    BY <1>2, <1>6, <2>1, <2>3, SMTT(30)
<1> QED
  BY <1>4, <1>5, <1>6

(***************************************************************************)
(* A turn of rfb_draw_line that is not the last.                           *)
(***************************************************************************)
LEMMA AlongStep ==
    ASSUME NEW dx \in Nat, NEW dy \in Nat, NEW a, NEW b, NEW err, NEW turns,
           Along(dx, dy, a, b, err, turns), ~(a = dx /\ b = dy),
           NEW c, c = IF err > -dx THEN a + 1 ELSE a,
           NEW d, d = IF err < dy THEN b + 1 ELSE b,
           NEW new, new = err - (IF err > -dx THEN dy ELSE 0) + (IF err < dy THEN dx ELSE 0)
    PROVE  Along(dx, dy, c, d, new, turns + 1)
<1>0. PICK e0 : e0 = Half(IF dx > dy THEN dx ELSE -dy)
  OBVIOUS
<1>1. /\ a \in 0 .. dx /\ b \in 0 .. dy /\ err \in Int /\ dx * b - dy * a = err - e0
      /\ IF dx > dy THEN turns = a /\ err \in 0 .. dx - 1
         ELSE turns = b /\ err \in -dy .. 0 /\ (dy > 0 => err > -dy)
  BY <1>0, Zenon DEF Along
<1>2. e0 \in Int /\ (dx > dy => e0 = dx \div 2) /\ (~(dx > dy) => e0 = -(dy \div 2))
  BY <1>0 DEF Half
<1>3. PICK u, v : u = dx * b /\ v = dy * a
  OBVIOUS
<1>4. u \in Int /\ v \in Int /\ u - v = err - e0
  BY <1>1, <1>3, SMTT(30)
<1>5. dx * (b + 1) = u + dx /\ dy * (a + 1) = v + dy
  BY <1>1, <1>3
<1>6. /\ c \in Nat /\ d \in Nat /\ new \in Int
      /\ dx * d = IF err < dy THEN u + dx ELSE u
      /\ dy * c = IF err > -dx THEN v + dy ELSE v
  BY <1>1, <1>3, <1>5, SMTT(30)
<1>7. dx * d - dy * c = new - e0
  BY <1>1, <1>2, <1>4, <1>6, SMTT(30)
<1>8. PICK longer : longer = IF dx > dy THEN dx ELSE dy
  OBVIOUS
<1>9. turns \in 0 .. longer /\ turns # longer
  BY <1>8, AlongFacts, SMTT(30)
<1>10. CASE dx > dy
  <2>1. c = a + 1 /\ c \in 0 .. dx /\ turns + 1 = c /\ new \in 0 .. dx - 1
    BY <1>1, <1>8, <1>9, <1>10, SMTT(30)
  <2>2. d <= dy
    <3>1. PICK f : f = new - e0
      OBVIOUS
    <3>2. f \in Int /\ f < dx /\ dx * d - dy * c = f /\ dx \in Nat \ {0}
      BY <1>2, <1>6, <1>7, <1>10, <2>1, <3>1, SMTT(30)
    <3> QED
      BY <1>6, <2>1, <3>2, ShorterSide, Zenon
  <2> QED
    BY <1>0, <1>6, <1>7, <1>10, <2>1, <2>2, SMTT(30) DEF Along
<1>11. CASE ~(dx > dy)
  <2>1. dy > 0 /\ d = b + 1 /\ d \in 0 .. dy /\ turns + 1 = d /\ new \in -dy .. 0 /\ new > -dy
    BY <1>1, <1>8, <1>9, <1>11
  <2>2. c <= dx
    <3>1. PICK f, p, q : f = e0 - new /\ p = dx * d /\ q = dy * c
      BY Zenon
    <3>2. f \in Int /\ f < dy /\ p \in Int /\ q \in Int /\ p - q = new - e0
      BY <1>2, <1>6, <1>7, <1>11, <2>1, <3>1, SMTT(30)
    <3>3. q - p = f
      <4>1. e0 \in Int /\ new \in Int /\ f = e0 - new
        BY <1>2, <1>6, <3>1, Zenon
      <4> QED
        BY ONLY <3>2, <4>1
    <3>4. dy * c - dx * d = f /\ dy \in Nat \ {0}
      BY <2>1, <3>1, <3>3, SMTT(30)
    <3> QED
      BY <1>6, <2>1, <3>2, <3>4, ShorterSide, Zenon
  <2> QED
    BY <1>0, <1>6, <1>7, <1>11, <2>1, <2>2, SMTT(30) DEF Along
<1> QED
  BY <1>10, <1>11, Zenon

\* A pixel on, or none: the most a coordinate of rfb_draw_line moves in a turn.
LEMMA OneApart ==
    ASSUME NEW p \in Int, NEW q, q = p \/ q = p + 1 \/ q = p + (-1)
    PROVE  Distance(p, q) <= 1
BY DEF Distance

\* p is a turns of s from p0 on the way to p1, which is d away.
OnAxis(p0, p1, d, s, a, p) ==
    /\ p0 \in 0 .. Wrap - 1 /\ p1 \in 0 .. Wrap - 1
    /\ d = Distance(p0, p1) /\ s = (IF p0 < p1 THEN 1 ELSE -1)
    /\ a \in 0 .. d /\ p = p0 + s * a

\* One coordinate on the way from p0 to p1, which it never leaves.
LEMMA AxisFacts ==
    ASSUME NEW p0, NEW p1, NEW d, NEW s, NEW a, NEW p, OnAxis(p0, p1, d, s, a, p)
    PROVE  /\ p \in 0 .. Wrap - 1 /\ Distance(p, p0) = a /\ (p = p1 <=> a = d) /\ d \in Nat
           /\ a < d => U32(p + s) = p0 + s * (a + 1) /\ U32(p + s) = p + s
<1>0. p0 \in 0 .. Wrap - 1 /\ p1 \in 0 .. Wrap - 1 /\ a \in 0 .. d
  BY Zenon DEF OnAxis
<1>a. d = Distance(p0, p1) /\ s = (IF p0 < p1 THEN 1 ELSE -1) /\ p = p0 + s * a
  BY Zenon DEF OnAxis
<1>1. Wrap \in Nat \ {0}
  BY ScreenAssumption
<1>2. CASE p0 < p1
  <2>1. s = 1 /\ d = p1 - p0 /\ p = p0 + a /\ p0 + s * (a + 1) = p0 + a + 1
    BY <1>0, <1>a, <1>1, <1>2 DEF Distance
  <2>2. a < d => p + s \in Int /\ 0 <= p + s /\ p + s < Wrap
    BY <1>0, <1>1, <2>1
  <2>3. a < d => U32(p + s) = p + s
    BY <1>1, <2>2 DEF U32
  <2> QED
    BY <1>0, <1>1, <1>2, <2>1, <2>3, SMTT(30) DEF Distance
<1>3. CASE ~(p0 < p1)
  <2>1. s = -1 /\ d = p0 - p1 /\ p = p0 - a /\ p0 + s * (a + 1) = p0 - a - 1
    BY <1>0, <1>a, <1>1, <1>3 DEF Distance
  <2>2. a < d => p + s \in Int /\ 0 <= p + s /\ p + s < Wrap
    BY <1>0, <1>1, <2>1
  <2>3. a < d => U32(p + s) = p + s
    BY <1>1, <2>2 DEF U32
  <2> QED
    BY <1>0, <1>1, <1>3, <2>1, <2>3, SMTT(30) DEF Distance
<1> QED
  BY <1>2, <1>3, Zenon

(***************************************************************************)
(* What is known of the locals of rfb_draw_line, each under a name.        *)
(***************************************************************************)
LEMMA FollowedParts ==
    ASSUME NEW l \in Lines, NEW line, NEW turns, Followed(l, line, turns),
           NEW dx, dx = Distance(l.x0, l.x1), NEW dy, dy = Distance(l.y0, l.y1),
           NEW sx, sx = IF l.x0 < l.x1 THEN 1 ELSE -1,
           NEW sy, sy = IF l.y0 < l.y1 THEN 1 ELSE -1,
           NEW a, a = Distance(line.x, l.x0), NEW b, b = Distance(line.y, l.y0)
    PROVE  /\ dx \in Nat /\ dy \in Nat /\ a \in 0 .. dx /\ b \in 0 .. dy /\ line.err \in Int
           /\ line = [x |-> line.x, y |-> line.y, dx |-> dx, dy |-> dy, sx |-> sx, sy |-> sy,
                      err |-> line.err]
           /\ line.x \in 0 .. Wrap - 1 /\ line.x = l.x0 + sx * a
           /\ line.y \in 0 .. Wrap - 1 /\ line.y = l.y0 + sy * b
           /\ Along(dx, dy, a, b, line.err, turns)
<1>1. /\ l.x0 \in 0 .. Wrap - 1 /\ l.x1 \in 0 .. Wrap - 1
      /\ l.y0 \in 0 .. Wrap - 1 /\ l.y1 \in 0 .. Wrap - 1
  BY LinesAssumption, Zenon
<1>2. PICK e0 : e0 = Half(IF dx > dy THEN dx ELSE -dy)
  OBVIOUS
<1>3. PICK start : start = LineStart(l.x0, l.y0, l.x1, l.y1)
  BY Zenon
<1>4. start = [x |-> l.x0, y |-> l.y0, dx |-> dx, dy |-> dy, sx |-> sx, sy |-> sy, err |-> e0]
  BY <1>2, <1>3, Zenon DEF LineStart
<1>5. /\ line = [x |-> line.x, y |-> line.y, dx |-> start.dx, dy |-> start.dy,
                 sx |-> start.sx, sy |-> start.sy, err |-> line.err]
      /\ line.x = l.x0 + start.sx * a /\ line.y = l.y0 + start.sy * b
      /\ Along(start.dx, start.dy, a, b, line.err, turns)
  BY <1>3, Zenon DEF Followed
<1>6. start.sx = sx /\ start.sy = sy /\ start.dx = dx /\ start.dy = dy
  BY <1>4, Zenon
<1>7. /\ line.x = l.x0 + sx * a /\ line.y = l.y0 + sy * b
      /\ Along(dx, dy, a, b, line.err, turns)
  BY <1>5, <1>6, Zenon
<1>8. a \in 0 .. dx /\ b \in 0 .. dy /\ line.err \in Int
  BY <1>7, Zenon DEF Along
<1>9. dx \in Nat /\ line.x \in 0 .. Wrap - 1
  <2>1. OnAxis(l.x0, l.x1, dx, sx, a, line.x)
    BY <1>1, <1>7, <1>8, Zenon DEF OnAxis
  <2> QED
    BY ONLY <2>1, AxisFacts
<1>10. dy \in Nat /\ line.y \in 0 .. Wrap - 1
  <2>1. OnAxis(l.y0, l.y1, dy, sy, b, line.y)
    BY <1>1, <1>7, <1>8, Zenon DEF OnAxis
  <2> QED
    BY ONLY <2>1, AxisFacts
<1>11. line = [x |-> line.x, y |-> line.y, dx |-> dx, dy |-> dy, sx |-> sx, sy |-> sy,
               err |-> line.err]
  BY <1>5, <1>6, Zenon
<1> QED
  BY <1>7, <1>8, <1>9, <1>10, <1>11, Zenon

(***************************************************************************)
(* A point rfb_draw_line comes to is on the line, and the end is reached   *)
(* with the last pixel of the longer side.                                 *)
(***************************************************************************)
LEMMA FollowedFacts ==
    ASSUME NEW l \in Lines, NEW line, NEW turns, Followed(l, line, turns)
    PROVE  /\ turns \in 0 .. Longer(l) /\ Longer(l) \in Nat
           /\ AtEnd(line, l.x1, l.y1) <=> turns = Longer(l)
           /\ OnLine(l, [x |-> line.x, y |-> line.y])
<1>1. PICK dx, dy, sx, sy, a, b :
        /\ dx = Distance(l.x0, l.x1) /\ dy = Distance(l.y0, l.y1)
        /\ sx = (IF l.x0 < l.x1 THEN 1 ELSE -1) /\ sy = (IF l.y0 < l.y1 THEN 1 ELSE -1)
        /\ a = Distance(line.x, l.x0) /\ b = Distance(line.y, l.y0)
  BY Zenon
<1>2. /\ dx \in Nat /\ dy \in Nat /\ a \in 0 .. dx /\ b \in 0 .. dy
      /\ line.x = l.x0 + sx * a /\ line.y = l.y0 + sy * b
      /\ Along(dx, dy, a, b, line.err, turns)
  BY <1>1, FollowedParts, SMTT(30)
<1>3. /\ l.x0 \in 0 .. Wrap - 1 /\ l.x1 \in 0 .. Wrap - 1
      /\ l.y0 \in 0 .. Wrap - 1 /\ l.y1 \in 0 .. Wrap - 1
  BY LinesAssumption, Zenon
<1>4. line.x = l.x1 <=> a = dx
  <2>1. OnAxis(l.x0, l.x1, dx, sx, a, line.x)
    BY <1>1, <1>2, <1>3, Zenon DEF OnAxis
  <2> QED
    BY ONLY <2>1, AxisFacts
<1>5. line.y = l.y1 <=> b = dy
  <2>1. OnAxis(l.y0, l.y1, dy, sy, b, line.y)
    BY <1>1, <1>2, <1>3, Zenon DEF OnAxis
  <2> QED
    BY ONLY <2>1, AxisFacts
<1>6. Longer(l) = IF dx > dy THEN dx ELSE dy
  BY <1>1, Zenon DEF Longer
<1>7. /\ turns \in 0 .. Longer(l) /\ (turns = Longer(l) <=> a = dx /\ b = dy)
      /\ 2 * Distance(dx * b, dy * a) <= Longer(l)
  BY <1>2, <1>6, AlongFacts
<1>8. OnLine(l, [x |-> line.x, y |-> line.y])
  <2>1. PICK p : p = [x |-> line.x, y |-> line.y]
    BY Zenon
  <2>2. p.x = line.x /\ p.y = line.y
    BY <2>1, Zenon
  <2>3. OnLine(l, p)
    BY <1>1, <1>7, <2>2, ZenonT(40) DEF OnLine
  <2> QED
    BY <2>1, <2>3, Zenon
<1>9. Longer(l) \in Nat
  BY <1>2, <1>6, Zenon
<1> QED
  BY <1>4, <1>5, <1>7, <1>8, <1>9, Zenon DEF AtEnd

(***************************************************************************)
(* The locals as rfb_draw_line sets them before its loop.                  *)
(***************************************************************************)
LEMMA FollowedStart ==
    ASSUME NEW l \in Lines
    PROVE  Followed(l, LineStart(l.x0, l.y0, l.x1, l.y1), 0)
<1>1. PICK start, dx, dy, e0 :
        /\ start = LineStart(l.x0, l.y0, l.x1, l.y1)
        /\ dx = Distance(l.x0, l.x1) /\ dy = Distance(l.y0, l.y1)
        /\ e0 = Half(IF dx > dy THEN dx ELSE -dy)
  BY Zenon
<1>2. /\ l.x0 \in 0 .. Wrap - 1 /\ l.x1 \in 0 .. Wrap - 1
      /\ l.y0 \in 0 .. Wrap - 1 /\ l.y1 \in 0 .. Wrap - 1 /\ Wrap \in Nat
  BY LinesAssumption, ScreenAssumption, Zenon
<1>3. dx \in Nat /\ dy \in Nat
  BY <1>1, <1>2 DEF Distance
<1>4. PICK sx, sy : /\ sx = (IF l.x0 < l.x1 THEN 1 ELSE -1)
                    /\ sy = (IF l.y0 < l.y1 THEN 1 ELSE -1)
  BY Zenon
<1>5. start = [x |-> l.x0, y |-> l.y0, dx |-> dx, dy |-> dy, sx |-> sx, sy |-> sy, err |-> e0]
  BY <1>1, <1>4, Zenon DEF LineStart
<1>6. /\ start.x = l.x0 /\ start.y = l.y0 /\ start.dx = dx /\ start.dy = dy /\ start.err = e0
      /\ start.sx = sx /\ start.sy = sy
  BY <1>5, Zenon
<1>7. Distance(start.x, l.x0) = 0 /\ Distance(start.y, l.y0) = 0
  BY <1>2, <1>6, SMTT(30) DEF Distance
<1>8. l.x0 = l.x0 + sx * 0 /\ l.y0 = l.y0 + sy * 0
  BY <1>2, <1>4
<1>9. Along(dx, dy, 0, 0, e0, 0)
  <2>1. dx * 0 - dy * 0 = e0 - e0 /\ e0 \in Int
    BY <1>1, <1>3, SMTT(30) DEF Half
  <2>2. CASE dx > dy
    <3>1. e0 \in 0 .. dx - 1
      BY <1>1, <1>3, <2>2, SMTT(30) DEF Half
    <3> QED
      BY <1>1, <1>3, <2>1, <2>2, <3>1, SMTT(30) DEF Along
  <2>3. CASE ~(dx > dy)
    <3>1. e0 \in -dy .. 0 /\ (dy > 0 => e0 > -dy)
      BY <1>1, <1>3, <2>3, SMTT(30) DEF Half
    <3> QED
      BY <1>1, <1>3, <2>1, <2>3, <3>1, SMTT(30) DEF Along
  <2> QED
    BY <2>2, <2>3, SMTT(30)
<1> QED
  BY <1>1, <1>5, <1>6, <1>7, <1>8, <1>9, ZenonT(40) DEF Followed

(***************************************************************************)
(* A turn of rfb_draw_line that is not the last leads to the next point.   *)
(***************************************************************************)
LEMMA FollowedStep ==
    ASSUME NEW l \in Lines, NEW line, NEW turns, Followed(l, line, turns),
           ~AtEnd(line, l.x1, l.y1), NEW next, next = LineStep(line)
    PROVE  /\ Followed(l, next, turns + 1)
           /\ Near([x |-> line.x, y |-> line.y], [x |-> next.x, y |-> next.y])
<1>1. PICK dx, dy, sx, sy, a, b :
        /\ dx = Distance(l.x0, l.x1) /\ dy = Distance(l.y0, l.y1)
        /\ sx = (IF l.x0 < l.x1 THEN 1 ELSE -1) /\ sy = (IF l.y0 < l.y1 THEN 1 ELSE -1)
        /\ a = Distance(line.x, l.x0) /\ b = Distance(line.y, l.y0)
  BY ZenonT(40)
<1>2. /\ dx \in Nat /\ dy \in Nat /\ a \in 0 .. dx /\ b \in 0 .. dy /\ line.err \in Int
      /\ line = [x |-> line.x, y |-> line.y, dx |-> dx, dy |-> dy, sx |-> sx, sy |-> sy,
                 err |-> line.err]
      /\ line.x = l.x0 + sx * a /\ line.x \in 0 .. Wrap - 1
      /\ line.y = l.y0 + sy * b /\ line.y \in 0 .. Wrap - 1
      /\ Along(dx, dy, a, b, line.err, turns)
  BY <1>1, FollowedParts
<1>3. /\ l.x0 \in 0 .. Wrap - 1 /\ l.x1 \in 0 .. Wrap - 1
      /\ l.y0 \in 0 .. Wrap - 1 /\ l.y1 \in 0 .. Wrap - 1
  BY LinesAssumption, Zenon
<1>4. PICK x, y, e : x = line.x /\ y = line.y /\ e = line.err
  BY Zenon
<1>5. PICK c, d, u, v, new :
        /\ c = (IF e > -dx THEN a + 1 ELSE a) /\ d = (IF e < dy THEN b + 1 ELSE b)
        /\ u = (IF e > -dx THEN U32(x + sx) ELSE x) /\ v = (IF e < dy THEN U32(y + sy) ELSE y)
        /\ new = e - (IF e > -dx THEN dy ELSE 0) + (IF e < dy THEN dx ELSE 0)
  BY Zenon
<1>6. next = [x |-> u, y |-> v, dx |-> dx, dy |-> dy, sx |-> sx, sy |-> sy, err |-> new]
  <2>1. line.dx = dx /\ line.dy = dy /\ line.sx = sx /\ line.sy = sy
    BY <1>2
  <2>2. next = [line EXCEPT !.err = new, !.x = u, !.y = v]
    <3>1. next = [line EXCEPT !.err = e - (IF e > -dx THEN dy ELSE 0) + (IF e < dy THEN dx ELSE 0),
                              !.x = IF e > -dx THEN U32(x + sx) ELSE x,
                              !.y = IF e < dy THEN U32(y + sy) ELSE y]
      BY <1>4, <2>1 DEF LineStep
    <3> QED
      BY <1>5, <3>1, Zenon
  <2>3. line = [x |-> x, y |-> y, dx |-> dx, dy |-> dy, sx |-> sx, sy |-> sy, err |-> e]
    BY <1>2, <1>4, ZenonT(40)
  <2> QED
    BY <2>2, <2>3, Zenon
<1>b. OnAxis(l.x0, l.x1, dx, sx, a, x) /\ OnAxis(l.y0, l.y1, dy, sy, b, y)
  BY <1>1, <1>2, <1>3, <1>4, Zenon DEF OnAxis
<1>d. a < dx => U32(x + sx) = l.x0 + sx * (a + 1) /\ U32(x + sx) = x + sx
  BY ONLY <1>b, AxisFacts
<1>e. b < dy => U32(y + sy) = l.y0 + sy * (b + 1) /\ U32(y + sy) = y + sy
  BY ONLY <1>b, AxisFacts
<1>7. Along(dx, dy, c, d, new, turns + 1)
  <2>1. ~(a = dx /\ b = dy)
    <3>1. x = l.x1 <=> a = dx
      BY ONLY <1>b, AxisFacts
    <3>2. y = l.y1 <=> b = dy
      BY ONLY <1>b, AxisFacts
    <3> QED
      BY <1>4, <3>1, <3>2, Zenon DEF AtEnd
  <2> QED
    BY <1>2, <1>4, <1>5, <2>1, AlongStep, Zenon
<1>8. c \in 0 .. dx /\ d \in 0 .. dy
  BY <1>7 DEF Along
<1>a. x \in Int /\ y \in Int
  <2>1. x \in 0 .. Wrap - 1 /\ y \in 0 .. Wrap - 1
    BY <1>2, <1>4, Zenon
  <2> QED
    BY <2>1, ScreenAssumption
<1>9. u = l.x0 + sx * c /\ Distance(x, u) <= 1
  <2>1. CASE e > -dx
    <3>1. a < dx /\ c = a + 1
      BY <1>2, <1>5, <1>8, <2>1, SMTT(30)
    <3>2. u = l.x0 + sx * (a + 1) /\ u = x + sx
      <4>1. u = U32(x + sx)
        BY <1>5, <2>1, Zenon
      <4> QED
        BY <1>d, <3>1, <4>1, Zenon
    <3>3. sx = 1 \/ sx = -1
      BY <1>1, Zenon
    <3>4. Distance(x, u) <= 1
      BY <1>a, <3>2, <3>3, OneApart, Zenon
    <3> QED
      BY <3>1, <3>2, <3>4, Zenon
  <2>2. CASE ~(e > -dx)
    <3>1. c = a /\ u = x
      BY <1>5, <2>2, Zenon
    <3>2. Distance(x, u) <= 1
      BY <1>a, <3>1, OneApart, Zenon
    <3> QED
      BY <1>2, <1>4, <3>1, <3>2, Zenon
  <2> QED
    BY <2>1, <2>2, Zenon
<1>10. v = l.y0 + sy * d /\ Distance(y, v) <= 1
  <2>1. CASE e < dy
    <3>1. b < dy /\ d = b + 1
      BY <1>2, <1>5, <1>8, <2>1, SMTT(30)
    <3>2. v = l.y0 + sy * (b + 1) /\ v = y + sy
      <4>1. v = U32(y + sy)
        BY <1>5, <2>1, Zenon
      <4> QED
        BY <1>e, <3>1, <4>1, Zenon
    <3>3. sy = 1 \/ sy = -1
      BY <1>1, Zenon
    <3>4. Distance(y, v) <= 1
      BY <1>a, <3>2, <3>3, OneApart, Zenon
    <3> QED
      BY <3>1, <3>2, <3>4, Zenon
  <2>2. CASE ~(e < dy)
    <3>1. d = b /\ v = y
      BY <1>5, <2>2, Zenon
    <3>2. Distance(y, v) <= 1
      BY <1>a, <3>1, OneApart, Zenon
    <3> QED
      BY <1>2, <1>4, <3>1, <3>2, Zenon
  <2> QED
    BY <2>1, <2>2, Zenon
<1>11. Distance(u, l.x0) = c
  <2>1. OnAxis(l.x0, l.x1, dx, sx, c, u)
    BY <1>1, <1>3, <1>8, <1>9, Zenon DEF OnAxis
  <2> QED
    BY ONLY <2>1, AxisFacts
<1>12. Distance(v, l.y0) = d
  <2>1. OnAxis(l.y0, l.y1, dy, sy, d, v)
    BY <1>1, <1>3, <1>8, <1>10, Zenon DEF OnAxis
  <2> QED
    BY ONLY <2>1, AxisFacts
<1>13. Followed(l, next, turns + 1)
  <2>1. PICK start, e0 : /\ start = LineStart(l.x0, l.y0, l.x1, l.y1)
                         /\ e0 = Half(IF dx > dy THEN dx ELSE -dy)
    BY Zenon
  <2>2. start = [x |-> l.x0, y |-> l.y0, dx |-> dx, dy |-> dy, sx |-> sx, sy |-> sy, err |-> e0]
    BY <1>1, <2>1, Zenon DEF LineStart
  <2>3. /\ start.dx = dx /\ start.dy = dy /\ start.sx = sx /\ start.sy = sy
        /\ next.x = u /\ next.y = v /\ next.err = new
    BY <1>6, <2>2
  <2> QED
    BY <1>6, <1>7, <1>9, <1>10, <1>11, <1>12, <2>1, <2>3, Zenon DEF Followed
<1>14. Near([x |-> line.x, y |-> line.y], [x |-> next.x, y |-> next.y])
  <2>1. PICK p, q : p = [x |-> line.x, y |-> line.y] /\ q = [x |-> next.x, y |-> next.y]
    BY Zenon
  <2>2. p.x = x /\ p.y = y /\ q.x = u /\ q.y = v
    BY <1>4, <1>6, <2>1
  <2>3. Near(p, q)
    BY <1>9, <1>10, <2>2, Zenon DEF Near
  <2> QED
    BY <2>1, <2>3, Zenon
<1> QED
  BY <1>13, <1>14, Zenon

\* The visible points, with one more.
LEMMA VisibleMore ==
    ASSUME NEW points \in Seq([x : Int, y : Int]), NEW p, NEW x \in 0 .. Wrap - 1,
           NEW y \in 0 .. Wrap - 1, p = [x |-> x, y |-> y]
    PROVE  Visible(Append(points, p)) = Visible(points) \cup rfb_draw_pixel(x, y)
<1>0. PICK new : new = Append(points, p)
  BY Zenon
<1>1. Wrap \in Nat \ {0} /\ width \in Nat /\ height \in Nat /\ width <= Wrap /\ height <= Wrap
  BY ScreenAssumption
<1>2. p \in [x : Int, y : Int] /\ p.x = x /\ p.y = y
  BY <1>1
<1>3. {new[n] : n \in 1 .. Len(new)} = {points[n] : n \in 1 .. Len(points)} \cup {p}
  <2>0. PICK S : S = [x : Int, y : Int]
    BY Zenon
  <2>1. /\ Len(points) \in Nat /\ Len(new) = Len(points) + 1 /\ new[Len(points) + 1] = p
        /\ \A n \in 1 .. Len(points) : new[n] = points[n]
    <3>1. points \in Seq(S) /\ p \in S
      BY <1>2, <2>0, Zenon
    <3>2. Len(points) \in Nat /\ Len(new) = Len(points) + 1 /\ new[Len(points) + 1] = p
      BY <1>0, <3>1, Lengthened, ZenonT(40)
    <3>3. ASSUME NEW n \in 1 .. Len(points)
          PROVE  new[n] = points[n]
      BY <1>0, <3>1, OthersStay, Zenon
    <3> QED
      BY <3>2, <3>3, Zenon
  <2>2. /\ \A n \in 1 .. Len(points) : n \in 1 .. Len(points) + 1
        /\ Len(points) + 1 \in 1 .. Len(points) + 1
        /\ \A n \in 1 .. Len(points) + 1 : n \in 1 .. Len(points) \/ n = Len(points) + 1
    BY <2>1
  <2> QED
    BY <2>1, <2>2, Zenon
<1>4. U32(x) = x /\ U32(y) = y
  <2>1. ASSUME NEW z \in 0 .. Wrap - 1
        PROVE  z \in Int /\ 0 - Wrap <= z /\ z < Wrap /\ z >= 0 /\ 0 \in Nat /\ 0 <= Wrap
    BY <1>1
  <2>2. ASSUME NEW z \in 0 .. Wrap - 1
        PROVE  U32(z) = z
    BY <2>1, Lands, Zenon
  <2> QED
    BY <2>2, Zenon
<1>5. ASSUME NEW e
      PROVE  e \in rfb_draw_pixel(x, y) <=> \E q \in Screen : e = Place(q) /\ q.x = x /\ q.y = y
  <2>1. /\ x \in Int /\ width - Wrap <= x /\ x < Wrap
        /\ y \in Int /\ height - Wrap <= y /\ y < Wrap
    BY <1>1, SMTT(30)
  <2>2. e \in rfb_draw_pixel(U32(x), U32(y))
          <=> \E q \in Screen : e = Place(q) /\ q.x = x /\ q.y = y
    BY <2>1, PixelAt
  <2> QED
    BY <1>4, <2>2, Zenon
<1>6. ASSUME NEW q \in Screen
      PROVE  q.x = x /\ q.y = y <=> q = p
  <2>1. q = [x |-> q.x, y |-> q.y]
    BY DEF Screen
  <2> QED
    BY <1>2, <2>1, Zenon
<1>7. ASSUME NEW e
      PROVE  e \in rfb_draw_pixel(x, y) <=> p \in Screen /\ e = Place(p)
  BY <1>5, <1>6, Zenon
<1>8. PICK S : S = {points[n] : n \in 1 .. Len(points)}
  BY Zenon
<1>9. /\ Visible(new) = {Place(q) : q \in (S \cup {p}) \cap Screen}
      /\ Visible(points) = {Place(q) : q \in S \cap Screen}
  BY <1>3, <1>8, Zenon DEF Visible
<1>10. ASSUME NEW e
       PROVE  e \in Visible(new) <=> e \in Visible(points) \/ e \in rfb_draw_pixel(x, y)
  BY <1>7, <1>9, Zenon
<1>11. Visible(new) = Visible(points) \cup rfb_draw_pixel(x, y)
  BY <1>10, Zenon
<1> QED
  BY <1>0, <1>11

(***************************************************************************)
(* A turn of rfb_draw_line adds the point it has come to.                  *)
(***************************************************************************)
LEMMA TracedTurn ==
    ASSUME NEW l \in Lines, NEW drawing, Traced(l, drawing, FALSE)
    PROVE  Traced(l, rfb_draw_line(drawing, l.x1, l.y1), AtEnd(drawing.line, l.x1, l.y1))
<1>0. PICK line, points, new, here :
        /\ line = drawing.line /\ points = drawing.points
        /\ new = rfb_draw_line(drawing, l.x1, l.y1) /\ here = [x |-> line.x, y |-> line.y]
  BY Zenon
<1>1. PICK end : end = AtEnd(line, l.x1, l.y1)
  OBVIOUS
<1>2. PICK next : next = IF end THEN line ELSE LineStep(line)
  OBVIOUS
<1>3. /\ points \in Seq([x : Int, y : Int])
      /\ \A n \in 1 .. Len(points) : /\ OnLine(l, points[n])
                                     /\ n > 1 => Near(points[n - 1], points[n])
      /\ IF Len(points) > 0 THEN points[1] = [x |-> l.x0, y |-> l.y0]
                            ELSE here = [x |-> l.x0, y |-> l.y0]
      /\ drawing.drawn = Visible(points)
      /\ Followed(l, line, Len(points))
      /\ Len(points) > 0 => Near(points[Len(points)], here)
  BY <1>0, Zenon DEF Traced
<1>4. PICK more : more = Append(points, here)
  BY Zenon
<1>5. new = [line |-> next, points |-> more,
             drawn |-> Visible(points) \cup rfb_draw_pixel(line.x, line.y)]
  BY <1>0, <1>1, <1>2, <1>3, <1>4, Zenon DEF rfb_draw_line
<1>6. new.line = next /\ new.points = more
      /\ new.drawn = Visible(points) \cup rfb_draw_pixel(line.x, line.y)
  BY <1>5, ZenonT(40)
<1>7. /\ line.x \in 0 .. Wrap - 1 /\ line.y \in 0 .. Wrap - 1
  BY <1>3, FollowedParts, SMTT(30)
<1>8. here \in [x : Int, y : Int]
  BY <1>0, <1>7, ScreenAssumption, SMTT(30)
<1>9. new.drawn = Visible(more)
  <2>1. points \in Seq([x : Int, y : Int]) /\ here = [x |-> line.x, y |-> line.y]
    BY <1>0, <1>3, Zenon
  <2>2. Visible(Append(points, here)) = Visible(points) \cup rfb_draw_pixel(line.x, line.y)
    BY ONLY <1>7, <2>1, VisibleMore
  <2> QED
    BY <1>4, <1>6, <2>2, Zenon
<1>10. PICK k : k = Len(points)
  BY ZenonT(40)
<1>11. /\ k \in Nat /\ more \in Seq([x : Int, y : Int]) /\ Len(more) = k + 1 /\ more[k + 1] = here
       /\ \A n \in 1 .. k : more[n] = points[n]
  <2>1. PICK S : S = [x : Int, y : Int]
    BY Zenon
  <2>2. points \in Seq(S) /\ here \in S
    BY <1>3, <1>8, <2>1, Zenon
  <2>3. k \in Nat /\ more \in Seq(S) /\ Len(more) = k + 1 /\ more[k + 1] = here
    BY <1>4, <1>10, <2>2, Lengthened, Zenon
  <2>4. ASSUME NEW n \in 1 .. k
        PROVE  more[n] = points[n]
    BY <1>4, <1>10, <2>2, OthersStay, Zenon
  <2> QED
    BY <2>1, <2>3, <2>4, Zenon
<1>12. OnLine(l, here)
  BY <1>0, <1>3, FollowedFacts, Zenon
<1>13. ASSUME NEW n \in 1 .. k + 1
       PROVE  OnLine(l, more[n]) /\ (n > 1 => Near(more[n - 1], more[n]))
  <2>1. CASE n = k + 1
    <3>1. n > 1 => n - 1 = k /\ k > 0 /\ k \in 1 .. k
      BY <1>11, <2>1
    <3> QED
      BY <1>3, <1>10, <1>11, <1>12, <2>1, <3>1, ZenonT(40)
  <2>2. CASE n # k + 1
    <3>1. n \in 1 .. k /\ (n > 1 => n - 1 \in 1 .. k)
      BY <1>11, <2>2, SMTT(30)
    <3> QED
      BY <1>3, <1>10, <1>11, <3>1, ZenonT(40)
  <2> QED
    BY <2>1, <2>2, Zenon
<1>14. Len(more) > 0 /\ more[1] = [x |-> l.x0, y |-> l.y0]
  <2>1. CASE k > 0
    <3>1. 1 \in 1 .. k /\ k + 1 > 0
      BY <1>11, <2>1
    <3> QED
      BY <1>3, <1>10, <1>11, <2>1, <3>1, ZenonT(40)
  <2>2. CASE ~(k > 0)
    <3>1. k + 1 = 1 /\ k + 1 > 0
      BY <1>11, <2>2
    <3> QED
      BY <1>3, <1>10, <1>11, <2>2, <3>1, Zenon
  <2> QED
    BY <2>1, <2>2, Zenon
<1>15. PICK place : place = [x |-> next.x, y |-> next.y]
  BY Zenon
<1>16. CASE end
  <2>1. next = line /\ place = here
    BY <1>0, <1>2, <1>15, <1>16, Zenon
  <2>2. Len(more) - 1 = k
    BY <1>11
  <2>3. Followed(l, next, Len(more) - 1)
    BY <1>3, <1>10, <2>1, <2>2, Zenon
  <2>4. Traced(l, new, TRUE)
    BY <1>1, <1>6, <1>9, <1>11, <1>13, <1>14, <1>15, <1>16, <2>1, <2>3, ZenonT(40) DEF Traced
  <2> QED
    BY <1>0, <1>1, <1>16, <2>4, Zenon
<1>17. CASE ~end
  <2>1. next = LineStep(line) /\ ~AtEnd(line, l.x1, l.y1)
    BY <1>1, <1>2, <1>17, Zenon
  <2>2. Followed(l, next, k + 1) /\ Near(here, place)
    BY <1>0, <1>3, <1>10, <1>15, <2>1, FollowedStep, Zenon
  <2>3. Traced(l, new, FALSE)
    BY <1>6, <1>9, <1>11, <1>13, <1>14, <1>15, <2>2, Zenon DEF Traced
  <2>4. end = FALSE
    BY <1>1, <1>17, ZenonT(40) DEF AtEnd
  <2> QED
    BY <1>0, <1>1, <2>3, <2>4, Zenon
<1> QED
  BY <1>16, <1>17, SMTT(30)

(***************************************************************************)
(* rfb_draw_line follows its line.                                         *)
(***************************************************************************)
LEMMA LineRight ==
    ASSUME DrawingInv
    PROVE  LineDrawn
<1>1. SUFFICES ASSUME call.fn = "line"
               PROVE  /\ \A n \in 1 .. Len(out.points) :
                           /\ OnLine(in, out.points[n])
                           /\ n > 1 => Near(out.points[n - 1], out.points[n])
                      /\ Len(out.points) > 0 => out.points[1] = [x |-> in.x0, y |-> in.y0]
                      /\ IF call.over
                         THEN /\ Len(out.points) = Longer(in) + 1
                              /\ out.points[Len(out.points)] = [x |-> in.x1, y |-> in.y1]
                         ELSE Len(out.points) <= Longer(in)
                      /\ out.drawn = Visible(out.points)
  BY Zenon DEF LineDrawn
<1>2. in \in Lines /\ Traced(in, out, call.over)
  BY <1>1, Zenon DEF DrawingInv
<1>3. PICK points, line, here :
        points = out.points /\ line = out.line /\ here = [x |-> line.x, y |-> line.y]
  BY Zenon
<1>4. /\ points \in Seq([x : Int, y : Int])
      /\ \A n \in 1 .. Len(points) : /\ OnLine(in, points[n])
                                     /\ n > 1 => Near(points[n - 1], points[n])
      /\ Len(points) > 0 => points[1] = [x |-> in.x0, y |-> in.y0]
      /\ out.drawn = Visible(points)
  BY <1>2, <1>3, Zenon DEF Traced
<1>5. CASE call.over
  <2>1. /\ points[Len(points)] = here /\ AtEnd(line, in.x1, in.y1)
        /\ Followed(in, line, Len(points) - 1)
    BY <1>2, <1>3, <1>5, Zenon DEF Traced
  <2>2. Len(points) - 1 = Longer(in) /\ Longer(in) \in Nat
    BY <1>2, <2>1, FollowedFacts, Zenon
  <2>3. Len(points) = Longer(in) + 1
    BY <1>4, <2>2
  <2>4. here = [x |-> in.x1, y |-> in.y1]
    BY <1>3, <2>1, Zenon DEF AtEnd
  <2> QED
    BY <1>3, <1>4, <1>5, <2>1, <2>3, <2>4, Zenon
<1>6. CASE ~call.over
  <2>1. Followed(in, line, Len(points))
    BY <1>2, <1>3, <1>6, Zenon DEF Traced
  <2>2. Len(points) \in 0 .. Longer(in) /\ Longer(in) \in Nat
    BY <1>2, <2>1, FollowedFacts, Zenon
  <2>3. Len(points) <= Longer(in)
    BY <2>2
  <2> QED
    BY <1>3, <1>4, <1>6, <2>3, Zenon
<1> QED
  BY <1>5, <1>6, Zenon

(***************************************************************************)
(* Before the first turn of rfb_draw_line and of rfb_draw_string.          *)
(***************************************************************************)
LEMMA TraceStart ==
    ASSUME NEW l \in Lines
    PROVE  Traced(l, [line |-> LineStart(l.x0, l.y0, l.x1, l.y1), points |-> <<>>, drawn |-> {}],
                  FALSE)
<1>1. PICK start, none, d : /\ start = LineStart(l.x0, l.y0, l.x1, l.y1)
                            /\ none = <<>> /\ d = [line |-> start, points |-> none, drawn |-> {}]
  BY Zenon
<1>2. d.line = start /\ d.points = none /\ d.drawn = {}
  BY <1>1, Zenon
<1>3. none \in Seq([x : Int, y : Int]) /\ Len(none) = 0 /\ \A n \in 1 .. Len(none) : FALSE
  BY <1>1
<1>4. Visible(none) = {}
  BY <1>3, Zenon DEF Visible
<1>5. start.x = l.x0 /\ start.y = l.y0
  BY <1>1, Zenon DEF LineStart
<1>6. Followed(l, start, Len(none))
  BY <1>1, <1>3, FollowedStart, Zenon
<1>7. ~(Len(none) > 0)
  BY <1>3
<1>8. Traced(l, d, FALSE)
  BY <1>2, <1>3, <1>4, <1>5, <1>6, <1>7, Zenon DEF Traced
<1> QED
  BY <1>1, <1>8, Zenon

------------------------------------------------------------------------------
(* Text.                                                                   *)

\* The line ends before a place are fewer than the characters before it.
LEMMA OneMore ==
    ASSUME NEW n \in Nat \ {0}, NEW S \in SUBSET (1 .. n - 1)
    PROVE  /\ IsFiniteSet(S) /\ Cardinality(S) \in 0 .. n - 1
           /\ Cardinality(S \cup {n}) = Cardinality(S) + 1
<1>1. IsFiniteSet(1 .. n - 1) /\ Cardinality(1 .. n - 1) = n - 1
  BY FS_Interval
<1>2. IsFiniteSet(S) /\ Cardinality(S) <= n - 1
  BY <1>1, FS_Subset, Zenon
<1>3. Cardinality(S) \in Nat
  BY <1>2, FS_CardinalityType
<1>4. n \notin S
  OBVIOUS
<1>5. Cardinality(S \cup {n}) = Cardinality(S) + 1
  BY <1>2, <1>4, FS_AddElement, Zenon
<1> QED
  BY <1>2, <1>3, <1>5

(***************************************************************************)
(* How a character moves the pen of rfb_draw_string: to the start of the   *)
(* next line, or one column on.                                            *)
(***************************************************************************)
LEMMA PenMoves ==
    ASSUME NEW s, NEW n \in Nat \ {0}
    PROVE  /\ Cardinality(LineEnds(s, n)) \in 0 .. n - 1 /\ Column(s, n) \in 0 .. n - 1
           /\ s[n] = <<>> => /\ Cardinality(LineEnds(s, n + 1)) = Cardinality(LineEnds(s, n)) + 1
                             /\ Column(s, n + 1) = 0
           /\ s[n] # <<>> => /\ LineEnds(s, n + 1) = LineEnds(s, n)
                             /\ Column(s, n + 1) = Column(s, n) + 1
<1>1. PICK E, F, C, D :
        /\ E = LineEnds(s, n) /\ F = LineEnds(s, n + 1)
        /\ C = SameLine(s, n) /\ D = SameLine(s, n + 1)
  BY Zenon
<1>2. Column(s, n) = Cardinality(C) /\ Column(s, n + 1) = Cardinality(D)
  BY <1>1, Zenon DEF Column
<1>3. /\ E = {m \in 1 .. n - 1 : s[m] = <<>>} /\ F = {m \in 1 .. n + 1 - 1 : s[m] = <<>>}
      /\ C = {m \in 1 .. n - 1 : \A e \in E : m > e}
      /\ D = {m \in 1 .. n + 1 - 1 : \A e \in F : m > e}
  <2>1. E = {m \in 1 .. n - 1 : s[m] = <<>>}
    BY <1>1 DEF LineEnds
  <2>2. F = {m \in 1 .. n + 1 - 1 : s[m] = <<>>}
    BY <1>1 DEF LineEnds
  <2>3. C = {m \in 1 .. n - 1 : \A e \in E : m > e}
    BY <1>1, SMTT(30) DEF SameLine
  <2>4. D = {m \in 1 .. n + 1 - 1 : \A e \in F : m > e}
    BY <1>1 DEF SameLine
  <2> QED
    BY <2>1, <2>3, <2>4, <2>2, ZenonT(40)
<1>4. \A m : m \in 1 .. n + 1 - 1 <=> m \in 1 .. n - 1 \/ m = n
  OBVIOUS
<1>5. E \in SUBSET (1 .. n - 1) /\ C \in SUBSET (1 .. n - 1)
  BY <1>3, SMTT(30)
<1>6. /\ Cardinality(E) \in 0 .. n - 1 /\ Cardinality(E \cup {n}) = Cardinality(E) + 1
      /\ Cardinality(C) \in 0 .. n - 1 /\ Cardinality(C \cup {n}) = Cardinality(C) + 1
  BY <1>5, OneMore, Zenon
<1>7. CASE s[n] = <<>>
  <2>1. F = E \cup {n}
    BY <1>3, <1>4, <1>7
  <2>2. D = {}
    <3>1. \A m \in 1 .. n + 1 - 1 : ~(m > n)
      OBVIOUS
    <3>2. n \in F
      BY <2>1, Zenon
    <3> QED
      BY <1>3, <3>1, <3>2, Zenon
  <2>3. Cardinality(D) = 0
    BY <2>2, FS_EmptySet
  <2> QED
    BY <1>1, <1>2, <1>6, <1>7, <2>1, <2>3, Zenon
<1>8. CASE s[n] # <<>>
  <2>1. F = E
    BY <1>3, <1>4, <1>8, Zenon
  <2>2. \A e \in E : n > e
    BY <1>5
  <2>3. D = C \cup {n}
    BY <1>3, <1>4, <2>1, <2>2, Zenon
  <2> QED
    BY <1>1, <1>2, <1>6, <1>8, <2>1, <2>3, Zenon
<1> QED
  BY <1>7, <1>8, Zenon

\* What rfb_draw_char draws for one column and row.
BitDrawn(x, y, glyph, scale, col, row) ==
    IF <<row \div scale, col \div scale>> \in glyph
    THEN rfb_draw_pixel(U32(x + col), U32(y + row)) ELSE {}

(***************************************************************************)
(* rfb_draw_char colours the pixels its glyph's bits cover.                *)
(***************************************************************************)
LEMMA GlyphDrawn ==
    ASSUME NEW x \in Int, NEW y \in Int, NEW scale \in Nat \ {0}, NEW glyph, NEW size,
           size = Glyph * scale, width - Wrap <= x, x + size <= Wrap,
           height - Wrap <= y, y + size <= Wrap, NEW e
    PROVE  e \in rfb_draw_char(U32(x), U32(y), glyph, scale)
             <=> \E q \in Screen :
                   /\ e = Place(q) /\ q.x - x \in 0 .. size - 1 /\ q.y - y \in 0 .. size - 1
                   /\ <<(q.y - y) \div scale, (q.x - x) \div scale>> \in glyph
<1>1. /\ size \in Nat /\ width \in Nat /\ height \in Nat /\ Wrap \in Nat
  BY ScreenAssumption
<1>2. ASSUME NEW col \in 0 .. size - 1, NEW row \in 0 .. size - 1
      PROVE  e \in rfb_draw_pixel(U32(U32(x) + col), U32(U32(y) + row))
               <=> \E q \in Screen : e = Place(q) /\ q.x = x + col /\ q.y = y + row
  <2>1. PICK a, b : a = x + col /\ b = y + row
    OBVIOUS
  <2>2. /\ a \in Int /\ width - Wrap <= a /\ a < Wrap /\ col \in Int
        /\ b \in Int /\ height - Wrap <= b /\ b < Wrap /\ row \in Int
    BY <1>1, <2>1, SMTT(30)
  <2>3. U32(U32(x) + col) = U32(a) /\ U32(U32(y) + row) = U32(b)
    BY <2>1, <2>2, WrapSum, Zenon
  <2>4. e \in rfb_draw_pixel(U32(a), U32(b))
          <=> \E q \in Screen : e = Place(q) /\ q.x = a /\ q.y = b
    BY <2>2, PixelAt
  <2> QED
    BY <2>1, <2>3, <2>4, Zenon
<1>3. e \in rfb_draw_char(U32(x), U32(y), glyph, scale)
        <=> \E col \in 0 .. size - 1, row \in 0 .. size - 1 :
              /\ <<row \div scale, col \div scale>> \in glyph
              /\ e \in rfb_draw_pixel(U32(U32(x) + col), U32(U32(y) + row))
  <2>1. rfb_draw_char(U32(x), U32(y), glyph, scale)
          = UNION {BitDrawn(U32(x), U32(y), glyph, scale, col, row) :
                     col \in 0 .. size - 1, row \in 0 .. size - 1}
    BY DEF rfb_draw_char, Pixels, BitDrawn
  <2>2. e \in rfb_draw_char(U32(x), U32(y), glyph, scale)
          <=> \E col \in 0 .. size - 1, row \in 0 .. size - 1 :
                e \in BitDrawn(U32(x), U32(y), glyph, scale, col, row)
    BY <2>1
  <2>3. ASSUME NEW col, NEW row
        PROVE  e \in BitDrawn(U32(x), U32(y), glyph, scale, col, row)
                 <=> /\ <<row \div scale, col \div scale>> \in glyph
                     /\ e \in rfb_draw_pixel(U32(U32(x) + col), U32(U32(y) + row))
    BY Zenon DEF BitDrawn
  <2> QED
    BY <2>2, <2>3, Zenon
<1>4. ASSUME e \in rfb_draw_char(U32(x), U32(y), glyph, scale)
      PROVE  \E q \in Screen :
               /\ e = Place(q) /\ q.x - x \in 0 .. size - 1 /\ q.y - y \in 0 .. size - 1
               /\ <<(q.y - y) \div scale, (q.x - x) \div scale>> \in glyph
  <2>1. PICK col \in 0 .. size - 1, row \in 0 .. size - 1 :
          /\ <<row \div scale, col \div scale>> \in glyph
          /\ e \in rfb_draw_pixel(U32(U32(x) + col), U32(U32(y) + row))
    BY <1>3, <1>4, Zenon
  <2>2. PICK q \in Screen : e = Place(q) /\ q.x = x + col /\ q.y = y + row
    BY <1>2, <2>1, Zenon
  <2>3. q.x - x = col /\ q.y - y = row
    BY <1>1, <2>2
  <2> QED
    BY <2>1, <2>2, <2>3, Zenon
<1>5. ASSUME NEW q \in Screen, e = Place(q),
             q.x - x \in 0 .. size - 1, q.y - y \in 0 .. size - 1,
             <<(q.y - y) \div scale, (q.x - x) \div scale>> \in glyph
      PROVE  e \in rfb_draw_char(U32(x), U32(y), glyph, scale)
  <2>1. PICK col, row : col = q.x - x /\ row = q.y - y
    BY Zenon
  <2>2. q.x \in Int /\ q.y \in Int
    BY <1>1, SMTT(30) DEF Screen
  <2>3. q.x = x + col /\ q.y = y + row
    BY <2>1, <2>2, SMTT(30)
  <2>4. e \in rfb_draw_pixel(U32(U32(x) + col), U32(U32(y) + row))
    BY <1>2, <1>5, <2>1, <2>3, Zenon
  <2> QED
    BY <1>3, <1>5, <2>1, <2>4, Zenon
<1> QED
  BY <1>4, <1>5, Zenon

(***************************************************************************)
(* The pixels rfb_draw_string has coloured before a character.             *)
(***************************************************************************)
LEMMA DrawnMember ==
    ASSUME NEW c, NEW at, NEW e
    PROVE  e \in DrawnBefore(c, at)
             <=> \E q \in Screen, n \in 1 .. at - 1 : e = Place(q) /\ Covers(c, n, q)
BY Zenon DEF DrawnBefore

(***************************************************************************)
(* A turn of rfb_draw_string: a character that is drawn is drawn where it  *)
(* stands, and the pen then stands where the next one does.                *)
(***************************************************************************)
LEMMA WrittenTurn ==
    ASSUME NEW c \in Captions, NEW at, NEW pen, Lettered(c, at, pen), at <= Len(c.s)
    PROVE  Lettered(c, at + 1, rfb_draw_string(pen, c.s[at], U32(c.x), c.scale))
<1>0. PICK new, k, cx, cy, scale, size, step, rows, cols, across, down :
        /\ new = rfb_draw_string(pen, c.s[at], U32(cx), scale) /\ k = Len(c.s)
        /\ cx = c.x /\ cy = c.y /\ scale = c.scale /\ size = Glyph * scale /\ step = size + Leading
        /\ rows = Cardinality(LineEnds(c.s, at)) /\ cols = Column(c.s, at)
        /\ across = cols * size /\ down = rows * step
  BY Zenon
<1>1. /\ c.s \in Seq(Seq(SUBSET (Nat \X Nat))) /\ scale \in Nat \ {0}
      /\ Unwrapped(cx, k * size, width) /\ Unwrapped(cy, (k + 1) * step, height)
  BY <1>0, CaptionsAssumption, Zenon
<1>2. /\ at \in 1 .. k + 1 /\ at <= k
      /\ pen = [y |-> U32(cy + down), xoff |-> cols, drawn |-> DrawnBefore(c, at)]
  BY <1>0, Zenon DEF Lettered, LineAt
<1>3. /\ k \in Nat /\ at \in Nat \ {0} /\ at \in 1 .. k /\ at + 1 \in 1 .. k + 1
  <2>1. k \in Nat
    <3>1. k = Len(c.s) /\ c.s \in Seq(Seq(SUBSET (Nat \X Nat))) /\ at \in 1 .. Len(c.s) + 1
      BY <1>0, <1>1, <1>2, Zenon
    <3> QED
      BY <3>1, InOrPast, Zenon
  <2> QED
    BY <1>2, <2>1, SMTT(30)
<1>4. size \in Nat \ {0} /\ step \in Nat \ {0} /\ Leading \in Nat /\ size <= step
  <2>1. Glyph \in Nat \ {0} /\ Leading \in Nat
    BY ScreenAssumption, Zenon
  <2>2. Glyph * scale \in Nat \ {0}
    <3>1. scale \in Nat \ {0}
      BY <1>1, Zenon
    <3> QED
      BY ONLY <2>1, <3>1
  <2>3. size \in Nat \ {0} /\ step = size + Leading
    BY <1>0, <2>2, Zenon
  <2> QED
    BY <2>1, <2>3, SMTT(30)
<1>5. /\ cx \in Int /\ width - Wrap <= cx /\ cx + k * size <= Wrap
      /\ cy \in Int /\ height - Wrap <= cy /\ cy + (k + 1) * step <= Wrap
  BY <1>1, Zenon DEF Unwrapped
<1>6. /\ rows \in 0 .. at - 1 /\ cols \in 0 .. at - 1
      /\ c.s[at] = <<>> => /\ Cardinality(LineEnds(c.s, at + 1)) = rows + 1
                          /\ Column(c.s, at + 1) = 0
      /\ c.s[at] # <<>> => /\ Cardinality(LineEnds(c.s, at + 1)) = rows
                          /\ Column(c.s, at + 1) = cols + 1
  BY <1>0, <1>3, PenMoves, Zenon
<1>j. PICK j : j = at + 1
  BY Zenon
<1>7. j = at + 1 /\ \A n : n \in 1 .. j - 1 <=> n \in 1 .. at - 1 \/ n = at
  BY <1>3, <1>j, SMTT(30)
<1>8. /\ rows \in Nat /\ cols \in Nat /\ rows + 1 <= k + 1 /\ cols + 1 <= k
  <2>1. rows \in 0 .. at - 1 /\ cols \in 0 .. at - 1
    BY <1>6, Zenon
  <2> QED
    BY ONLY <1>3, <2>1
<1>9. /\ across \in Nat /\ (cols + 1) * size = across + size
      /\ down \in Nat /\ (rows + 1) * step = down + step
  <2>1. \A a \in Nat, b \in Nat : a * b \in Nat /\ (a + 1) * b = a * b + b
    OBVIOUS
  <2> QED
    BY <1>0, <1>4, <1>8, <2>1, Zenon
<1>10. /\ at + 1 \in 1 .. Len(c.s) + 1
       /\ LineAt(c, at + 1) = U32(cy + Cardinality(LineEnds(c.s, at + 1)) * step)
  BY <1>0, <1>3, Zenon DEF LineAt
<1>11. CASE c.s[at] = <<>>
  <2>1. PICK u, v : u = U32(cy + down) /\ v = U32(u + size + Leading)
    OBVIOUS
  <2>2. new = [y |-> v, xoff |-> 0, drawn |-> DrawnBefore(c, at)]
    <3>1. new = LineEnd(pen, size)
      BY <1>0, <1>11, Zenon DEF rfb_draw_string
    <3>2. new = [pen EXCEPT !.y = U32(pen.y + size + Leading), !.xoff = 0]
      BY <3>1 DEF LineEnd
    <3>3. pen = [y |-> u, xoff |-> cols, drawn |-> DrawnBefore(c, at)]
      BY <1>2, <2>1, Zenon
    <3>4. pen.y = u
      BY <3>3, Zenon
    <3>5. new = [pen EXCEPT !.y = v, !.xoff = 0]
      BY <2>1, <3>2, <3>4, Zenon
    <3> QED
      BY <3>3, <3>5, Zenon
  <2>3. v = U32(cy + (rows + 1) * step)
    <3>1. PICK a : a = cy + down
      BY Zenon
    <3>2. a \in Int /\ step \in Int
      BY <1>4, <1>5, <1>9, <3>1, SMTT(30)
    <3>3. U32(a) \in Int
      BY <3>2, ScreenAssumption, SMTT(30) DEF U32
    <3>4. u + size + Leading = u + step
      <4>1. step = size + Leading /\ u = U32(a)
        BY <1>0, <2>1, <3>1, Zenon
      <4> QED
        BY ONLY <1>4, <3>3, <4>1
    <3>5. U32(U32(a) + step) = U32(a + step)
      BY <3>2, WrapSum, Zenon
    <3>6. a + step = cy + (down + step)
      BY <1>4, <1>5, <1>9, <3>1, SMTT(30)
    <3> QED
      BY <1>9, <2>1, <3>1, <3>4, <3>5, <3>6, Zenon
  <2>4. DrawnBefore(c, at) = DrawnBefore(c, at + 1)
    <3>1. \A q : ~Covers(c, at, q)
      BY <1>11, Zenon DEF Covers
    <3>2. ASSUME NEW e
          PROVE  e \in DrawnBefore(c, at) <=> e \in DrawnBefore(c, at + 1)
      <4>1. e \in DrawnBefore(c, at)
              <=> \E q \in Screen, n \in 1 .. at - 1 : e = Place(q) /\ Covers(c, n, q)
        BY DrawnMember, Zenon
      <4>2. e \in DrawnBefore(c, j)
              <=> \E q \in Screen, n \in 1 .. j - 1 : e = Place(q) /\ Covers(c, n, q)
        BY DrawnMember, Zenon
      <4> QED
        BY <1>7, <3>1, <4>1, <4>2, Zenon
    <3> QED
      BY <3>2, Zenon DEF DrawnBefore
  <2>5. LineAt(c, at + 1) = v /\ Column(c.s, at + 1) = 0
    BY <1>6, <1>10, <1>11, <2>3, Zenon
  <2>6. Lettered(c, at + 1, new)
    BY <1>10, <2>2, <2>4, <2>5, Zenon DEF Lettered
  <2> QED
    BY <1>0, <2>6, Zenon
<1>12. CASE c.s[at] # <<>>
  <2>1. PICK x, y, glyph : x = cx + across /\ y = cy + down /\ glyph = c.s[at][1]
    BY Zenon
  <2>2. /\ x \in Int /\ width - Wrap <= x /\ x + size <= Wrap
        /\ y \in Int /\ height - Wrap <= y /\ y + size <= Wrap
    <3>1. PICK p, q : p = k * size /\ q = (k + 1) * step
      BY Zenon
    <3>2. p \in Int /\ q \in Int
      BY <1>3, <1>4, <3>1
    <3>3. across + size <= p
      <4>1. (cols + 1) * size <= k * size
        BY <1>3, <1>4, <1>8, SMTT(30)
      <4> QED
        BY <1>9, <3>1, <4>1, Zenon
    <3>4. down + step <= q
      <4>1. (rows + 1) * step <= (k + 1) * step
        BY <1>3, <1>4, <1>8
      <4> QED
        BY <1>9, <3>1, <4>1, Zenon
    <3>5. cx + p <= Wrap /\ cy + q <= Wrap
      BY <1>5, <3>1, Zenon
    <3>6. Wrap \in Int /\ width \in Int /\ height \in Int
      BY ScreenAssumption, SMTT(30)
    <3>7. x \in Int /\ width - Wrap <= x /\ x + size <= Wrap
      BY <1>4, <1>5, <1>9, <2>1, <3>2, <3>3, <3>5, <3>6, SMTT(30)
    <3>8. y \in Int /\ height - Wrap <= y /\ y + size <= Wrap
      BY <1>4, <1>5, <1>9, <2>1, <3>2, <3>4, <3>5, <3>6, SMTT(30)
    <3> QED
      BY <3>7, <3>8, Zenon
  <2>3. PICK set : set = DrawnBefore(c, at) \cup rfb_draw_char(U32(x), U32(y), glyph, scale)
    BY Zenon
  <2>4. new = [y |-> U32(y), xoff |-> cols + 1, drawn |-> set]
    <3>1. U32(U32(cx) + across) = U32(x)
      <4>1. across \in Int
        BY <1>9
      <4> QED
        BY <1>5, <2>1, <4>1, WrapSum, Zenon
    <3>2. pen = [y |-> U32(y), xoff |-> cols, drawn |-> DrawnBefore(c, at)]
      BY <1>2, <2>1, Zenon
    <3>3. pen.y = U32(y) /\ pen.xoff = cols /\ pen.drawn = DrawnBefore(c, at)
      BY <3>2, Zenon
    <3>4. new = [pen EXCEPT !.xoff = pen.xoff + 1,
                            !.drawn = pen.drawn \cup rfb_draw_char(U32(U32(cx) + pen.xoff * size),
                                                                   pen.y, glyph, scale)]
      BY <1>0, <1>12, <2>1, SMTT(30) DEF rfb_draw_string
    <3>5. new = [pen EXCEPT !.xoff = cols + 1, !.drawn = set]
      BY <1>0, <2>3, <3>1, <3>3, <3>4, ZenonT(40)
    <3> QED
      BY <3>2, <3>5, Zenon
  <2>5. ASSUME NEW q \in Screen
        PROVE  Covers(c, at, q)
                 <=> /\ q.x - x \in 0 .. size - 1 /\ q.y - y \in 0 .. size - 1
                     /\ <<(q.y - y) \div scale, (q.x - x) \div scale>> \in glyph
    <3>1. PICK a, b : a = q.x /\ b = q.y
      BY Zenon
    <3>2. a \in Int /\ b \in Int
      BY <3>1, ScreenAssumption, SMTT(30) DEF Screen
    <3>3. a - cx - across = a - x /\ b - cy - down = b - y
      BY <1>5, <1>9, <2>1, <3>2, SMTT(30)
    <3> QED
      BY <1>0, <1>12, <2>1, <3>1, <3>3, ZenonT(40) DEF Covers
  <2>6. ASSUME NEW e
        PROVE  e \in rfb_draw_char(U32(x), U32(y), glyph, scale)
                 <=> \E q \in Screen : e = Place(q) /\ Covers(c, at, q)
    <3>1. e \in rfb_draw_char(U32(x), U32(y), glyph, scale)
             <=> \E q \in Screen :
                   /\ e = Place(q) /\ q.x - x \in 0 .. size - 1 /\ q.y - y \in 0 .. size - 1
                   /\ <<(q.y - y) \div scale, (q.x - x) \div scale>> \in glyph
      <4>1. size = Glyph * scale
        BY <1>0, Zenon
      <4>2. scale \in Nat \ {0}
        BY <1>1, Zenon
      <4> QED
        BY <2>2, <4>1, <4>2, GlyphDrawn, SMTT(30)
    <3> QED
      BY <2>5, <3>1, ZenonT(40)
  <2>7. DrawnBefore(c, at + 1) = set
    <3>1. ASSUME NEW e
          PROVE  e \in DrawnBefore(c, at + 1)
                   <=> \/ e \in DrawnBefore(c, at)
                       \/ e \in rfb_draw_char(U32(x), U32(y), glyph, scale)
      <4>1. e \in DrawnBefore(c, at)
              <=> \E q \in Screen, n \in 1 .. at - 1 : e = Place(q) /\ Covers(c, n, q)
        BY DrawnMember, Zenon
      <4>2. e \in DrawnBefore(c, j)
              <=> \E q \in Screen, n \in 1 .. j - 1 : e = Place(q) /\ Covers(c, n, q)
        BY DrawnMember, Zenon
      <4> QED
        BY <1>7, <2>6, <4>1, <4>2, ZenonT(40)
    <3> QED
      BY <2>3, <3>1, Zenon
  <2>8. LineAt(c, at + 1) = U32(y) /\ Column(c.s, at + 1) = cols + 1
    BY <1>0, <1>6, <1>10, <1>12, <2>1, ZenonT(40)
  <2>9. Lettered(c, at + 1, new)
    BY <1>10, <2>4, <2>7, <2>8, Zenon DEF Lettered
  <2> QED
    BY <1>0, <2>9, Zenon
<1> QED
  BY <1>11, <1>12, Zenon

(***************************************************************************)
(* rfb_draw_string draws its text.                                         *)
(***************************************************************************)
LEMMA TextRight ==
    ASSUME DrawingInv
    PROVE  TextDrawn
<1>1. SUFFICES ASSUME Returned("string")
               PROVE  out.pen.drawn = {Place(p) : p \in {q \in Screen :
                                         \E n \in 1 .. Len(in.s) : Covers(in, n, q)}}
  BY Zenon DEF TextDrawn
<1>2. in \in Captions /\ Lettered(in, out.i, out.pen) /\ out.i > Len(in.s)
  BY <1>1, Zenon DEF DrawingInv, Returned
<1>3. PICK at : at = out.i
  BY ZenonT(40)
<1>4. in.s \in Seq(Seq(SUBSET (Nat \X Nat))) /\ at \in 1 .. Len(in.s) + 1
  BY <1>2, <1>3, CaptionsAssumption, Zenon DEF Lettered
<1>5. at - 1 = Len(in.s)
  BY <1>2, <1>3, <1>4, InOrPast, Zenon
<1>6. out.pen.drawn = {Place(p) : p \in {q \in Screen : \E n \in 1 .. at - 1 : Covers(in, n, q)}}
  BY <1>2, <1>3, SMTT(30) DEF Lettered, DrawnBefore
<1> QED
  BY <1>5, <1>6, Zenon

(***************************************************************************)
(* The pen of rfb_draw_string before its first character.                  *)
(***************************************************************************)
LEMMA WriteStart ==
    ASSUME NEW c \in Captions
    PROVE  Lettered(c, 1, [y |-> U32(c.y), xoff |-> 0, drawn |-> {}])
<1>1. c.s \in Seq(Seq(SUBSET (Nat \X Nat))) /\ c.y \in Int /\ c.scale \in Nat
  BY CaptionsAssumption, Zenon DEF Unwrapped
<1>2. 1 \in 1 .. Len(c.s) + 1 /\ \A n \in 1 .. 1 - 1 : FALSE
  BY <1>1
<1>3. LineEnds(c.s, 1) = {} /\ SameLine(c.s, 1) = {}
  BY <1>2, Zenon DEF LineEnds, SameLine
<1>4. Cardinality({}) = 0
  BY FS_EmptySet
<1>5. Column(c.s, 1) = 0
  BY <1>3, <1>4, Zenon DEF Column
<1>6. LineAt(c, 1) = U32(c.y)
  <2>1. PICK step : step = Glyph * c.scale + Leading
    BY Zenon
  <2>2. step \in Int
    BY <1>1, <2>1, ScreenAssumption, SMTT(30)
  <2>3. c.y + 0 * step = c.y
    BY <1>1, <2>2
  <2> QED
    BY <1>3, <1>4, <2>1, <2>3, Zenon DEF LineAt
<1>7. DrawnBefore(c, 1) = {}
  BY <1>2, Zenon DEF DrawnBefore
<1> QED
  BY <1>2, <1>5, <1>6, <1>7, Zenon DEF Lettered

------------------------------------------------------------------------------
(* Drawing: the theorems.                                                  *)

(***************************************************************************)
(* A call in progress or returned is one of the drawing functions on one of*)
(* its inputs, as far as its loop has come.                                *)
(***************************************************************************)
THEOREM DrawingInvariant == DrawingSpec => []DrawingInv
<1>1. CallsInit => DrawingInv
  <2>1. SUFFICES ASSUME call = [fn |-> "none", in |-> 0, out |-> 0, over |-> TRUE]
                 PROVE  DrawingInv
    BY Zenon DEF CallsInit, None
  <2>2. call.fn = "none" /\ call.over = TRUE
    BY <2>1, Zenon
  <2>3. call.fn \notin {"rect", "line", "string"}
    BY <2>2, Zenon
  <2> QED
    BY <2>2, <2>3, Zenon DEF DrawingInv
<1>2. ASSUME DrawingInv, DrawingNext \/ Return
      PROVE  DrawingInv'
  <2>1. CASE FillRect
    <3>1. PICK r \in Rects : Compute("rect", r, rfb_fill_rect(U32(r.x), U32(r.y), r.w, r.h))
      BY <2>1, Zenon DEF FillRect
    <3>2. PICK o : o = rfb_fill_rect(U32(r.x), U32(r.y), r.w, r.h)
      BY Zenon
    <3>3. call' = [fn |-> "rect", in |-> r, out |-> o, over |-> TRUE]
      BY <3>1, <3>2, Zenon DEF Compute
    <3>4. call'.fn = "rect" /\ in' = r /\ out' = o /\ call'.over = TRUE
      BY <3>3, Zenon DEF in, out
    <3> QED
      BY <3>2, <3>3, <3>4, Zenon DEF DrawingInv, in, out
  <2>2. CASE DrawLine
    <3>1. PICK l \in Lines :
            Begin("line", l, [line |-> LineStart(l.x0, l.y0, l.x1, l.y1), points |-> <<>>,
                              drawn |-> {}])
      BY <2>2, Zenon DEF DrawLine
    <3>2. PICK o : o = [line |-> LineStart(l.x0, l.y0, l.x1, l.y1), points |-> <<>>, drawn |-> {}]
      BY Zenon
    <3>3. call' = [fn |-> "line", in |-> l, out |-> o, over |-> FALSE]
      BY <3>1, <3>2, Zenon DEF Begin
    <3>4. call'.fn = "line" /\ in' = l /\ out' = o /\ call'.over = FALSE
      BY <3>3, Zenon DEF in, out
    <3>5. Traced(l, o, FALSE)
      BY <3>2, TraceStart, Zenon
    <3> QED
      BY <3>3, <3>4, <3>5, Zenon DEF DrawingInv, in, out
  <2>3. CASE LineTurn
    <3>1. call.fn = "line" /\ in \in Lines /\ Traced(in, out, FALSE)
      <4>1. call.over = FALSE
        BY <1>2, <2>3, Zenon DEF LineTurn, Running, DrawingInv
      <4> QED
        BY <1>2, <2>3, <4>1, Zenon DEF LineTurn, Running, DrawingInv
    <3>2. PICK o : o = rfb_draw_line(out, in.x1, in.y1)
      BY Zenon
    <3>3. PICK v : v = AtEnd(out.line, in.x1, in.y1)
      BY Zenon
    <3>4. call' = [fn |-> call.fn, in |-> call.in, out |-> o, over |-> v]
      BY <2>3, <3>2, <3>3, ZenonT(40) DEF LineTurn, Continue
    <3>5. call' = [fn |-> "line", in |-> in, out |-> o, over |-> v]
      BY <3>1, <3>4, Zenon DEF in
    <3>6. call'.fn = "line" /\ in' = in /\ out' = o /\ call'.over = v
      BY <3>5, Zenon DEF in, out
    <3>7. Traced(in, o, v)
      BY <3>1, <3>2, <3>3, TracedTurn, ZenonT(40)
    <3>8. v \in BOOLEAN
      BY <3>3, Zenon DEF AtEnd
    <3> QED
      BY <3>1, <3>5, <3>6, <3>7, <3>8, Zenon DEF DrawingInv, in, out
  <2>4. CASE DrawString
    <3>1. PICK c \in Captions :
            Begin("string", c, [i |-> 1, pen |-> [y |-> U32(c.y), xoff |-> 0, drawn |-> {}]])
      BY <2>4, Zenon DEF DrawString
    <3>2. PICK o : o = [i |-> 1, pen |-> [y |-> U32(c.y), xoff |-> 0, drawn |-> {}]]
      BY Zenon
    <3>3. call' = [fn |-> "string", in |-> c, out |-> o, over |-> FALSE]
      BY <3>1, <3>2, Zenon DEF Begin
    <3>4. call'.fn = "string" /\ in' = c /\ out' = o /\ call'.over = FALSE
      BY <3>3, Zenon DEF in, out
    <3>5. Lettered(c, o.i, o.pen)
      BY <3>2, WriteStart, Zenon
    <3> QED
      BY <3>3, <3>4, <3>5, ZenonT(40) DEF DrawingInv, in, out
  <2>5. CASE StringTurn
    <3>1. call.fn = "string" /\ in \in Captions /\ Lettered(in, out.i, out.pen)
      BY <1>2, <2>5, Zenon DEF StringTurn, Running, DrawingInv
    <3>2. CASE out.i > Len(in.s)
      <4>1. call' = [fn |-> call.fn, in |-> call.in, out |-> out, over |-> TRUE]
        BY <2>5, <3>2, Zenon DEF StringTurn, Continue
      <4>2. call' = [fn |-> "string", in |-> in, out |-> out, over |-> TRUE]
        BY <3>1, <4>1, Zenon DEF in
      <4>3. call'.fn = "string" /\ in' = in /\ out' = out /\ call'.over = TRUE
        BY <4>2, Zenon DEF in, out
      <4> QED
        BY <3>1, <3>2, <4>2, <4>3, Zenon DEF DrawingInv, in, out
    <3>3. CASE ~(out.i > Len(in.s))
      <4>1. PICK o : o = [i |-> out.i + 1,
                          pen |-> rfb_draw_string(out.pen, in.s[out.i], U32(in.x), in.scale)]
        BY Zenon
      <4>2. call' = [fn |-> call.fn, in |-> call.in, out |-> o, over |-> FALSE]
        BY <2>5, <3>3, <4>1, Zenon DEF StringTurn, Continue
      <4>3. call' = [fn |-> "string", in |-> in, out |-> o, over |-> FALSE]
        BY <3>1, <4>2, Zenon DEF in
      <4>4. call'.fn = "string" /\ in' = in /\ out' = o /\ call'.over = FALSE
        BY <4>3, ZenonT(40) DEF in, out
      <4>5. out.i <= Len(in.s)
        <5>1. in.s \in Seq(Seq(SUBSET (Nat \X Nat))) /\ out.i \in 1 .. Len(in.s) + 1
          BY <3>1, CaptionsAssumption, Zenon DEF Lettered
        <5> QED
          BY <3>3, <5>1, InOrPast, Zenon
      <4>6. Lettered(in, o.i, o.pen)
        BY <3>1, <4>1, <4>5, WrittenTurn, Zenon
      <4> QED
        BY <3>1, <4>3, <4>4, <4>6, Zenon DEF DrawingInv, in, out
    <3> QED
      BY <3>2, <3>3
  <2>6. CASE Return
    BY <2>6, Zenon DEF Return, DrawingInv, None
  <2> QED
    BY <1>2, <2>1, <2>2, <2>3, <2>4, <2>5, <2>6, ZenonT(40) DEF DrawingNext
<1>3. ASSUME DrawingInv, UNCHANGED call
      PROVE  DrawingInv'
  BY <1>3, Zenon DEF DrawingInv, in, out
<1> QED
  BY <1>1, <1>2, <1>3, PTL DEF DrawingSpec

(***************************************************************************)
(* rfb_fill_rect colours the visible part of a rectangle and nothing else, *)
(* on a screen of any size.                                                *)
(***************************************************************************)
THEOREM RectsAreClipped == DrawingSpec => []RectClipped
<1>1. DrawingInv => RectClipped
  BY RectRight, SMTT(30)
<1> QED
  BY <1>1, DrawingInvariant, PTL

(***************************************************************************)
(* rfb_draw_line stays within half a pixel of its line and is at the end   *)
(* after one pixel per column or row, for any two ends.                    *)
(***************************************************************************)
THEOREM LinesAreDrawn == DrawingSpec => []LineDrawn
<1>1. DrawingInv => LineDrawn
  BY LineRight, SMTT(30)
<1> QED
  BY <1>1, DrawingInvariant, PTL

(***************************************************************************)
(* rfb_draw_string colours exactly the pixels of its characters, for any   *)
(* text and scale.                                                         *)
(***************************************************************************)
THEOREM TextIsDrawn == DrawingSpec => []TextDrawn
<1>1. DrawingInv => TextDrawn
  BY TextRight
<1> QED
  BY <1>1, DrawingInvariant, PTL
=============================================================================
