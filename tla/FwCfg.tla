------------------------------- MODULE FwCfg -------------------------------
(***************************************************************************)
(* How the kernel finds and configures the RAM framebuffer: fw_cfg.c (DMA  *)
(* transfers polled to their end, the directory search), rfb_init and the  *)
(* choice of gpu_init once vgp_init has returned false.  The fw_cfg device *)
(* is external: it completes a transfer some time after it was started, or *)
(* ends it with the error bit, which nobody looks at, and a read without   *)
(* SELECT goes on where the last one ended.                                *)
(***************************************************************************)
EXTENDS Integers, Sequences

CONSTANTS
    Directories,    \* directories the firmware may present
    Present,        \* whether the fw_cfg interface may be there
    Garbage,        \* selectors an uninitialized fw_cfg_file may hold
    GarbageCounts,  \* values of an uninitialized count
    MaxFailures,    \* transfers that may end with an error
    Byte            \* 256: a selector has two bytes

Ramfb == "etc/ramfb"

ASSUME DirectoryAssumption ==
    /\ Byte \in Nat \ {0}
    /\ Directories \subseteq Seq([name : STRING, selector : 1 .. Byte * Byte - 1])
    /\ Present \subseteq BOOLEAN /\ Garbage \subseteq 0 .. Byte * Byte - 1
    /\ GarbageCounts \subseteq Nat /\ MaxFailures \in Nat

VARIABLES
    pc,
    count, i, file,  \* locals of fw_find_file
    found,           \* what it returned
    chosen_GPU,
    dma,             \* the transfer the device still has to do, or "idle"
    position,        \* entries of the directory read since its length was, or -1
    configured,      \* selectors the framebuffer structure was written to
    failures,        \* transfers that ended with an error
    dir, present     \* the firmware

fwdriver == <<pc, count, i, file, found, chosen_GPU>>
fwdevice == <<dma, position, configured, failures>>
fwvars == <<fwdriver, fwdevice, dir, present>>

FwInit ==
    /\ pc = "find" /\ count \in GarbageCounts /\ i = 0 /\ found = FALSE
    /\ file \in [name : {"?"}, selector : Garbage]
    /\ chosen_GPU = "NONE"
    /\ dma = "idle" /\ position = -1 /\ configured = {} /\ failures = 0
    /\ dir \in Directories /\ present \in Present

------------------------------------------------------------------------------
(* The driver.                                                             *)

\* __builtin_bswap16
Swap(selector) == (selector % Byte) * Byte + selector \div Byte
Swapped == [file EXCEPT !.selector = Swap(@)]

\* fw_cfg_check, then the read of the directory's length.
fw_find_file ==
    /\ pc = "find"
    /\ IF present THEN pc' = "count" /\ dma' = "count" ELSE pc' = "decide" /\ UNCHANGED dma
    /\ UNCHANGED <<count, i, file, found, chosen_GPU, position, configured, failures, dir, present>>

\* Mutant: the control word is not polled.
Polled_Not == TRUE

\* fw_cfg_dma_operation returns when the control word is clear.
Polled == dma = "idle"

\* Mutant: the last entry is not looked at.
Loop_Short ==
    /\ pc \in {"count", "next"} /\ Polled
    /\ IF i + 1 < count THEN pc' = "entry" /\ dma' = "entry" ELSE pc' = "decide" /\ UNCHANGED dma
    /\ UNCHANGED <<count, i, file, found, chosen_GPU, position, configured, failures, dir, present>>

\* The head of the loop: the next entry is read, or the search ends.
Loop ==
    /\ pc \in {"count", "next"} /\ Polled
    /\ IF i < count THEN pc' = "entry" /\ dma' = "entry" ELSE pc' = "decide" /\ UNCHANGED dma
    /\ UNCHANGED <<count, i, file, found, chosen_GPU, position, configured, failures, dir, present>>

\* Mutant: the loop does not count.
Compare_Uncounted ==
    /\ pc = "entry" /\ Polled
    /\ IF file.name = Ramfb THEN pc' = "decide" /\ found' = TRUE
                            ELSE pc' = "next" /\ UNCHANGED found
    /\ file' = Swapped
    /\ UNCHANGED <<count, i, chosen_GPU, fwdevice, dir, present>>

\* Mutant: the selector is swapped only after the comparison, in the loop.
Compare_Unswapped ==
    /\ pc = "entry" /\ Polled
    /\ IF file.name = Ramfb THEN pc' = "decide" /\ found' = TRUE /\ UNCHANGED <<i, file>>
                            ELSE pc' = "next" /\ i' = i + 1 /\ file' = Swapped /\ UNCHANGED found
    /\ UNCHANGED <<count, chosen_GPU, fwdevice, dir, present>>

\* The entry is swapped in place, read or not, and compared.
Compare ==
    /\ pc = "entry" /\ Polled
    /\ IF file.name = Ramfb THEN pc' = "decide" /\ found' = TRUE /\ UNCHANGED i
                            ELSE pc' = "next" /\ i' = i + 1 /\ UNCHANGED found
    /\ file' = Swapped
    /\ UNCHANGED <<count, chosen_GPU, fwdevice, dir, present>>

\* rfb_init looks at the selector in file, not at what fw_find_file returned.
\* fw_cfg_dma_write does nothing without the interface.
rfb_init ==
    /\ pc = "decide"
    /\ IF file.selector = 0 THEN pc' = "done" /\ UNCHANGED dma
       ELSE /\ pc' = "write"
            /\ dma' = IF present THEN "write" ELSE dma
    /\ UNCHANGED <<count, i, file, found, chosen_GPU, position, configured, failures, dir, present>>

\* The choice gpu_init makes when rfb_init returns true.
ChooseRamfb ==
    /\ pc = "write" /\ Polled
    /\ pc' = "done" /\ chosen_GPU' = "RAMFB"
    /\ UNCHANGED <<count, i, file, found, fwdevice, dir, present>>

------------------------------------------------------------------------------
(* The device.                                                             *)

ReadCount ==
    /\ dma = "count" /\ dma' = "idle"
    /\ count' = Len(dir) /\ position' = 0
    /\ UNCHANGED <<pc, i, file, found, chosen_GPU, configured, failures, dir, present>>

\* Before the length was read an entry is no entry.  Past the end of the
\* directory the device delivers zeros and stays there.
ReadEntry ==
    /\ dma = "entry" /\ dma' = "idle"
    /\ IF position = -1
       THEN file' \in [name : {"?"}, selector : Garbage] /\ UNCHANGED position
       ELSE IF position < Len(dir)
       THEN /\ file' = [dir[position + 1] EXCEPT !.selector = Swap(@)]
            /\ position' = position + 1
       ELSE file' = [name |-> "", selector |-> 0] /\ UNCHANGED position
    /\ UNCHANGED <<pc, count, i, found, chosen_GPU, configured, failures, dir, present>>

WriteConfig ==
    /\ dma = "write" /\ dma' = "idle"
    /\ configured' = configured \cup {file.selector}
    /\ UNCHANGED <<fwdriver, position, failures, dir, present>>

\* The error bit: the buffer stays what it was.
TransferFails ==
    /\ dma # "idle" /\ dma' = "idle"
    /\ failures < MaxFailures /\ failures' = failures + 1
    /\ UNCHANGED <<fwdriver, position, configured, dir, present>>

RamfbDriver == fw_find_file \/ Loop \/ Compare \/ rfb_init \/ ChooseRamfb
Firmware == ReadCount \/ ReadEntry \/ WriteConfig \/ TransferFails
Done == pc = "done" /\ UNCHANGED fwvars

FwNext == RamfbDriver \/ Firmware \/ Done

\* The boot processor runs on; the device ends every transfer.
FwSpec == FwInit /\ [][FwNext]_fwvars /\ WF_fwvars(RamfbDriver) /\ WF_fwvars(Firmware)

------------------------------------------------------------------------------
(* Properties.                                                             *)

(***************************************************************************)
(* Shape of the state.                                                     *)
(***************************************************************************)
FwTypeOK ==
    /\ pc \in {"find", "count", "next", "entry", "decide", "write", "done"}
    /\ count \in Nat /\ (pc # "find" => i \in 0 .. count) /\ found \in BOOLEAN
    /\ file.selector \in Nat
    /\ chosen_GPU \in {"NONE", "RAMFB"}
    /\ dma \in {"idle", "count", "entry", "write"}
    /\ position \in -1 .. Len(dir)

(***************************************************************************)
(* A transfer is over before its control block and buffer, which live on   *)
(* the stack of fw_cfg_dma_operation and its callers, are reused or left:  *)
(* a driver step never starts a transfer over one in flight, nor ends the  *)
(* initialisation with one in flight.                                      *)
(***************************************************************************)
OneTransfer == [][dma # "idle" => dma' \in {dma, "idle"} /\ pc' = pc]_fwvars

\* The entries of that name.
Listed == {n \in 1 .. Len(dir) : dir[n].name = Ramfb}

(***************************************************************************)
(* With a device that fails at nothing the search finds etc/ramfb exactly  *)
(* when the directory has it, wherever it stands, and the framebuffer      *)
(* structure then goes to the selector of the first such entry and to no   *)
(* other; RAMFB is chosen with nothing written only without the interface. *)
(***************************************************************************)
RamfbConfigured ==
    (pc = "done" /\ present /\ failures = 0) =>
        /\ found = (Listed # {})
        /\ chosen_GPU = "RAMFB" <=> configured # {}
        /\ Listed # {} => \E n \in Listed : /\ configured = {dir[n].selector}
                                            /\ \A m \in Listed : n <= m

(***************************************************************************)
(* A failed transfer leaves the last entry in the buffer, to be swapped    *)
(* and compared a second time, or a count nobody set: the search may then  *)
(* miss the file, but it never takes another one for it, and what it finds *)
(* it configures at the right selector or not at all.                      *)
(***************************************************************************)
FoundIsRamfb ==
    found => /\ \E n \in Listed : file = dir[n]
             /\ configured \subseteq {dir[n].selector : n \in Listed}

------------------------------------------------------------------------------
(* What comments in the code promise and the code does not do.             *)

(***************************************************************************)
(* fw_find_file "populates the provided fw_cfg_file structure" when "a     *)
(* matching file is found", and rfb_init returns true "if successful" and  *)
(* says "Ramfb not found" otherwise: RAMFB is chosen, and the structure    *)
(* written, only if the search found the file.                             *)
(***************************************************************************)
RamfbWasFound == chosen_GPU = "RAMFB" \/ configured # {} => found
=============================================================================
