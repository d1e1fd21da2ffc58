-------------------------- MODULE SchedulerProofs ---------------------------
(***************************************************************************)
(* Proofs about Scheduler, for every table size, every set of register     *)
(* images and every memory layout, and about the relocation of a process's *)
(* code by its loader (Relocate), for every program and place.             *)
(***************************************************************************)
EXTENDS Scheduler, Relocate, TLAPS

------------------------------------------------------------------------------
(* The register moves of ContextSwitch.                                    *)

(***************************************************************************)
(* The vector stub and the compiled handler leave a full register file;    *)
(* x10-x12, x14 and x15 then hold PSTATE, SP_EL1, x30, x1 and x0 of the    *)
(* interrupted program.                                                    *)
(***************************************************************************)
LEMMA StubMoves ==
    ASSUME NEW c \in Cpu
    PROVE  LET x == CompiledCall(irq_el1_asm_handler(c)) IN
             /\ x \in [Reg -> Nat]
             /\ x["x10"] = c.pstate /\ x["x11"] = c.sp_el1
             /\ x["x12"] = c.x["x30"] /\ x["x14"] = c.x["x1"]
             /\ x["x15"] = c.x["x0"]
             /\ x["x2"] = c.x["x2"] /\ x["x19"] = c.x["x19"]
  <1> DEFINE x == irq_el1_asm_handler(c)
  <1>1. /\ x \in [Reg -> Nat]
        /\ x["x10"] = c.pstate /\ x["x11"] = c.sp_el1
        /\ x["x12"] = c.x["x30"] /\ x["x14"] = c.x["x1"]
        /\ x["x15"] = c.x["x0"]
        /\ x["x2"] = c.x["x2"] /\ x["x19"] = c.x["x19"]
    BY DEF irq_el1_asm_handler, Cpu, Reg
  <1> HIDE DEF x
  <1>2. QED
    BY <1>1, JunkAssumption, Zenon DEF CompiledCall, Reg, x

(***************************************************************************)
(* What the two saves of irq_el1_handler write into a slot.                *)
(***************************************************************************)
LEMMA SavedSlot ==
    ASSUME NEW c \in Cpu, NEW ctx \in Context
    PROVE  LET s == SaveInterrupted(c, ctx) IN
             /\ s \in Context
             /\ s.pc = c.pc /\ s.sp = c.sp_el1 /\ s.spsr = c.pstate
             /\ s.regs["x12"] = c.x["x30"] /\ s.regs["x14"] = c.x["x1"]
             /\ s.regs["x15"] = c.x["x0"]
             /\ s.regs["x2"] = c.x["x2"] /\ s.regs["x19"] = c.x["x19"]
  <1> DEFINE x == CompiledCall(irq_el1_asm_handler(c))
  <1>1. /\ x \in [Reg -> Nat]
        /\ x["x10"] = c.pstate /\ x["x11"] = c.sp_el1
        /\ x["x12"] = c.x["x30"] /\ x["x14"] = c.x["x1"]
        /\ x["x15"] = c.x["x0"]
        /\ x["x2"] = c.x["x2"] /\ x["x19"] = c.x["x19"]
    BY StubMoves
  <1> HIDE DEF x
  <1> DEFINE s == save_context(x, ctx)
  <1>2. /\ s \in Context
        /\ s.sp = x["x11"] /\ s.spsr = x["x10"]
        /\ \A r \in SavedReg : s.regs[r] = x[r]
    BY <1>1, Zenon DEF save_context, Context, SavedReg, Reg
  <1> HIDE DEF s
  <1>3. SaveInterrupted(c, ctx) = save_pc_interrupt(c.pc, s)
    BY DEF SaveInterrupted, s, x
  <1>4. c.pc \in Nat
    BY DEF Cpu
  <1>5. QED
    BY <1>1, <1>2, <1>3, <1>4 DEF save_pc_interrupt, Context, SavedReg, Reg

(***************************************************************************)
(* restore_context yields a well-formed CPU state.                         *)
(***************************************************************************)
LEMMA RestoreType ==
    ASSUME NEW ctx \in Context
    PROVE  restore_context(ctx) \in Cpu
  BY SMT DEF restore_context, Context, Cpu, SavedReg, Reg

(***************************************************************************)
(* So does the return from an interrupt that switched to nobody.           *)
(***************************************************************************)
LEMMA EretType ==
    ASSUME NEW c \in Cpu
    PROVE  EretWithoutSwitch(c) \in Cpu
  BY JunkAssumption, SMT
  DEF EretWithoutSwitch, irq_el1_asm_handler, Cpu, Reg

(***************************************************************************)
(* Save followed by restore gives back pc, PSTATE, SP_EL1 and every        *)
(* register outside Reserved, whatever the slot held before.               *)
(***************************************************************************)
LEMMA RestoreOfSave ==
    ASSUME NEW c \in Cpu, NEW ctx \in Context
    PROVE  LET d == restore_context(SaveInterrupted(c, ctx)) IN
             /\ d.pc = c.pc
             /\ d.pstate = c.pstate
             /\ d.sp_el1 = c.sp_el1
             /\ \A r \in Reg \ Reserved : d.x[r] = c.x[r]
  <1> DEFINE s == SaveInterrupted(c, ctx)
  <1>1. /\ s \in Context
        /\ s.pc = c.pc /\ s.sp = c.sp_el1 /\ s.spsr = c.pstate
        /\ s.regs["x12"] = c.x["x30"] /\ s.regs["x14"] = c.x["x1"]
        /\ s.regs["x15"] = c.x["x0"]
        /\ s.regs["x2"] = c.x["x2"] /\ s.regs["x19"] = c.x["x19"]
    BY SavedSlot
  <1> HIDE DEF s
  <1>2. Reg \ Reserved = {"x0", "x1", "x2", "x19", "x30"}
    BY DEF Reg, Reserved
  <1>3. LET d == restore_context(s) IN
          /\ d.pc = c.pc /\ d.pstate = c.pstate /\ d.sp_el1 = c.sp_el1
          /\ d.x["x0"] = c.x["x0"] /\ d.x["x1"] = c.x["x1"]
          /\ d.x["x2"] = c.x["x2"] /\ d.x["x19"] = c.x["x19"]
          /\ d.x["x30"] = c.x["x30"]
    BY <1>1 DEF restore_context, Reg
  <1>4. QED
    BY <1>2, <1>3 DEF s

(***************************************************************************)
(* Hence a process that finds its own values on the CPU when it is         *)
(* interrupted will find them again when its slot is restored.             *)
(***************************************************************************)
LEMMA HoldsSurvivesSave ==
    ASSUME NEW c \in Cpu, NEW ctx \in Context, NEW v, NEW lost, Reserved \subseteq lost,
           Holds(c, v, lost)
    PROVE  Holds(restore_context(SaveInterrupted(c, ctx)), v, lost)
  BY RestoreOfSave DEF Holds

(***************************************************************************)
(* The return from an interrupt without a switch costs x0, x1 and x30 at   *)
(* most: the stub's x10-x15 are in Reserved, and the rest is not touched.  *)
(***************************************************************************)
LEMMA HoldsSurvivesEret ==
    ASSUME NEW c \in Cpu, NEW v, NEW lost, Holds(c, v, lost),
           Reserved \cup {"x0", "x1", "x30"} \subseteq lost
    PROVE  Holds(EretWithoutSwitch(c), v, lost)
  <1>1. Reg \ lost \subseteq {"x2", "x19"}
    BY Zenon DEF Reg, Reserved
  <1>2. LET d == EretWithoutSwitch(c) IN
          /\ d.pc = c.pc /\ d.pstate = c.pstate /\ d.sp_el1 = c.sp_el1
          /\ d.x["x2"] = c.x["x2"] /\ d.x["x19"] = c.x["x19"]
    BY DEF EretWithoutSwitch, irq_el1_asm_handler, Cpu, Reg
  <1>3. \A r \in Reg \ lost : EretWithoutSwitch(c).x[r] = c.x[r]
    BY <1>1, <1>2
  <1>4. QED
    BY <1>2, <1>3, Zenon DEF Holds

(***************************************************************************)
(* What a process may have lost: Reserved at least, x0, x1 and x30 at most *)
(* besides.                                                                *)
(***************************************************************************)
LEMMA LostFacts ==
    ASSUME NEW p
    PROVE  /\ Reserved \subseteq Lost(p)
           /\ Lost(p) \subseteq Reserved \cup {"x0", "x1", "x30"}
           /\ p \in dropped => Lost(p) = Reserved \cup {"x0", "x1", "x30"}
  BY Zenon DEF Lost

(***************************************************************************)
(* A CPU that agrees with a process outside a set agrees outside a larger  *)
(* one.                                                                    *)
(***************************************************************************)
LEMMA HoldsOutsideMore ==
    ASSUME NEW c, NEW v, NEW few, NEW lost, few \subseteq lost, Holds(c, v, few)
    PROVE  Holds(c, v, lost)
  BY Zenon DEF Holds

------------------------------------------------------------------------------
(* Type correctness.                                                       *)

\* What TypeOK needs to be inductive: nobody leaves READY, a dispatched
\* process is in the table, and the timer interrupt is only ever pending
\* while kernel_main has IRQs masked or after it handed over the CPU.
Control ==
    /\ \A p \in Slot : processes[p].state = "READY"
    /\ phase = "running" => current_proc < proc_count
    /\ phase \in {"loading", "irq_off", "timer_on", "stopped"} => current_proc = 0
    /\ phase \in {"irq_off", "timer_on", "stopped"} => Masked(cpu.pstate)
    /\ tick => phase \notin {"loading", "irq_off"}

(***************************************************************************)
(* switch_proc dispatches a slot of the table when it is not empty: the    *)
(* round robin stops at the very next slot, because every state is READY.  *)
(***************************************************************************)
LEMMA NextSlot ==
    ASSUME TypeOK, proc_count # 0, NEW procs,
           \A p \in Slot : procs[p].state = "READY"
    PROVE  /\ Candidates(procs) # {}
           /\ Min(Candidates(procs)) = 1
           /\ (current_proc + 1) % proc_count \in 0 .. proc_count - 1
           /\ (current_proc + 1) % proc_count \in Slot
  <1>1. /\ proc_count \in Nat \ {0} /\ proc_count <= MAX_PROCS
        /\ current_proc \in Nat
    BY MaxProcsAssumption DEF TypeOK, Slot
  <1>2. /\ (current_proc + 1) % proc_count \in 0 .. proc_count - 1
        /\ (current_proc + 1) % proc_count \in Slot
    BY <1>1, MaxProcsAssumption DEF Slot
  <1>3. 1 \in Candidates(procs)
    BY <1>1, <1>2 DEF Candidates
  <1>4. \A k \in Candidates(procs) : 1 <= k /\ k \in Nat
    BY <1>1 DEF Candidates
  <1>5. Min(Candidates(procs)) = 1
    BY <1>3, <1>4 DEF Min
  <1>6. QED
    BY <1>2, <1>3, <1>5

(***************************************************************************)
(* With a process in the table switch_proc ends in restore_context of a    *)
(* slot below proc_count.                                                  *)
(***************************************************************************)
LEMMA Dispatch ==
    ASSUME TypeOK, proc_count # 0, NEW STATE procs, NEW STATE back, NEW STATE otherwise,
           \A p \in Slot : procs[p].state = "READY",
           switch_proc(procs, back, otherwise)
    PROVE  /\ current_proc' \in Slot /\ current_proc' < proc_count
           /\ cpu' = restore_context(procs[current_proc'].ctx)
           /\ phase' = "running"
  <1>1. /\ Candidates(procs) # {}
        /\ Min(Candidates(procs)) = 1
        /\ (current_proc + 1) % proc_count \in 0 .. proc_count - 1
        /\ (current_proc + 1) % proc_count \in Slot
    BY NextSlot
  <1>2. /\ current_proc' = (current_proc + 1) % proc_count
        /\ cpu' = restore_context(procs[current_proc'].ctx)
        /\ phase' = "running"
    BY <1>1 DEF switch_proc
  <1>3. proc_count \in Nat
    BY MaxProcsAssumption DEF TypeOK
  <1>4. QED
    BY <1>1, <1>2, <1>3

(***************************************************************************)
(* With an empty table switch_proc returns to its caller.                  *)
(***************************************************************************)
LEMMA NoDispatch ==
    ASSUME proc_count = 0, NEW STATE procs, NEW STATE back, NEW STATE otherwise,
           switch_proc(procs, back, otherwise)
    PROVE  cpu' = back /\ phase' = otherwise /\ current_proc' = current_proc
  <1>1. Candidates(procs) = {}
    BY DEF Candidates
  <1>2. QED
    BY <1>1 DEF switch_proc

(***************************************************************************)
(* irq_el1_handler's saves change the slot of current_proc only, and not   *)
(* its state.                                                              *)
(***************************************************************************)
LEMMA SaveCurrentType ==
    ASSUME TypeOK, Control
    PROVE  /\ SaveCurrent \in [Slot -> [ctx : Context, state : ProcState]]
           /\ \A p \in Slot : SaveCurrent[p].state = "READY"
           /\ \A p \in Slot : p # current_proc => SaveCurrent[p] = processes[p]
           /\ SaveCurrent[current_proc].ctx
                = SaveInterrupted(cpu, processes[current_proc].ctx)
  <1>1. SaveInterrupted(cpu, processes[current_proc].ctx) \in Context
    BY SavedSlot DEF TypeOK
  <1>2. QED
    BY <1>1, Zenon DEF SaveCurrent, TypeOK, Control

(***************************************************************************)
(* The context either loader writes is well formed.                        *)
(***************************************************************************)
LEMMA EntryType ==
    ASSUME NEW p \in Slot, NEW k
    PROVE  /\ EntryContext(p, k) \in Context
           /\ SpsrOf(k) \in PState
           /\ StackBase(p) + StackSize \in Nat
           /\ Entry + p \in Nat
  <1>1. StackBase(p) + StackSize \in Nat /\ Entry + p \in Nat
    BY MaxProcsAssumption, LayoutAssumption DEF StackBase, Slot
  <1>2. SpsrOf(k) \in PState
    BY DEF SpsrOf, PState
  <1>3. QED
    BY <1>1, <1>2 DEF EntryContext, Context, SpsrOf, EL0t, EL1hMasked

(***************************************************************************)
(* The state in which kernel_main starts to create processes is well       *)
(* formed.                                                                 *)
(***************************************************************************)
LEMMA InitType == Init => TypeOK /\ Control
  <1> SUFFICES ASSUME Init PROVE TypeOK /\ Control
    OBVIOUS
  <1>1. ZeroContext \in Context /\ 0 \in Slot
    BY MaxProcsAssumption DEF ZeroContext, Context, Slot
  <1>2. processes \in [Slot -> [ctx : Context, state : ProcState]]
    BY <1>1 DEF Init, ProcState
  <1>3. cpu \in Cpu
    BY JunkAssumption DEF Init, Cpu, EL1h
  <1>4. view \in [Slot -> [x : [Reg -> Nat], pc : Nat, sp : Nat, pstate : Nat]]
    BY DEF Init, ZeroView, EL0t
  <1>a. proc_count \in 0 .. MAX_PROCS /\ current_proc \in Slot
    BY <1>1, MaxProcsAssumption DEF Init
  <1>b. phase \in Phase /\ tick \in BOOLEAN /\ spin \subseteq Slot
    BY Zenon DEF Init, Phase
  <1>c. /\ kind \in [Slot -> {"none", "kernel", "user"}]
        /\ loaded \in [Slot -> BOOLEAN] /\ dropped \subseteq Slot
    BY DEF Init
  <1>5. TypeOK
    BY <1>2, <1>3, <1>4, <1>a, <1>b, <1>c DEF TypeOK
  <1>6. Control
    BY DEF Init, Control
  <1>7. QED
    BY <1>5, <1>6

(***************************************************************************)
(* Every step of the kernel, of a process or of the timer preserves the    *)
(* shape of the state and Control.                                         *)
(***************************************************************************)
LEMMA NextType ==
    ASSUME TypeOK, Control, [Next]_vars
    PROVE  TypeOK' /\ Control'
  <1> USE DEF table, history
  <1>1. ASSUME NEW k \in {"kernel", "user"}, Load(k)
        PROVE  TypeOK' /\ Control'
    <2>1. proc_count \in Slot /\ proc_count + 1 \in 0 .. MAX_PROCS
      BY <1>1, MaxProcsAssumption DEF Load, TypeOK, Slot
    <2>2. /\ EntryContext(proc_count, k) \in Context
          /\ SpsrOf(k) \in Nat
          /\ StackBase(proc_count) + StackSize \in Nat
          /\ Entry + proc_count \in Nat
      BY <2>1, EntryType DEF PState, EL0t, EL1h, EL1hMasked
    <2>3. processes' \in [Slot -> [ctx : Context, state : ProcState]]
      BY <1>1, <2>1, <2>2, SMTT(30) DEF Load, TypeOK, ProcState
    <2>4. view' \in [Slot -> [x : [Reg -> Nat], pc : Nat, sp : Nat, pstate : Nat]]
      BY <1>1, <2>1, <2>2 DEF Load, TypeOK
    <2>5. kind' \in [Slot -> {"none", "kernel", "user"}] /\ loaded' \in [Slot -> BOOLEAN]
      BY <1>1, <2>1 DEF Load, TypeOK
    <2>6. TypeOK'
      BY <1>1, <2>1, <2>3, <2>4, <2>5, SMTT(30) DEF Load, TypeOK
    <2>7. Control'
      BY <1>1, <2>1 DEF Load, TypeOK, Control
    <2>8. QED
      BY <2>6, <2>7
  <1>2. ASSUME NEW k \in Kinds, LoadFails(k)
        PROVE  TypeOK' /\ Control'
    <2>1. proc_count \in Slot /\ proc_count + 1 \in 0 .. MAX_PROCS
      BY <1>2, MaxProcsAssumption DEF LoadFails, TypeOK, Slot
    <2>2. kind' \in [Slot -> {"none", "kernel", "user"}]
      BY <1>2, <2>1, KindsAssumption DEF LoadFails, TypeOK
    <2>3. TypeOK'
      BY <1>2, <2>1, <2>2 DEF LoadFails, TypeOK
    <2>4. Control'
      BY <1>2 DEF LoadFails, Control
    <2>5. QED
      BY <2>3, <2>4
  <1>3. CASE LoadIntoFullTable
    BY <1>3 DEF LoadIntoFullTable, TypeOK, Control, Phase
  <1>4. CASE start_scheduler
    <2>1. cpu \in Cpu /\ cpu' = [cpu EXCEPT !.pstate = 965]
      BY <1>4 DEF start_scheduler, TypeOK, EL1hMasked
    <2>2. cpu' \in Cpu /\ cpu'.pstate = 965
      BY <2>1 DEF Cpu
    <2>3. Masked(cpu'.pstate)
      BY <2>2 DEF Masked, EL1hMasked
    <2>4. QED
      BY <1>4, <2>2, <2>3 DEF start_scheduler, TypeOK, Control, Phase
  <1>5. CASE timer_init
    BY <1>5 DEF timer_init, TypeOK, Control, Phase
  <1>6. CASE FirstSwitch
    <2>1. CASE proc_count = 0
      <3>1. cpu' = cpu /\ phase' = "stopped" /\ current_proc' = current_proc
        BY <1>6, <2>1, NoDispatch DEF FirstSwitch
      <3>2. QED
        BY <1>6, <3>1 DEF FirstSwitch, TypeOK, Control, Phase
    <2>2. CASE proc_count # 0
      <3>1. /\ current_proc' \in Slot /\ current_proc' < proc_count
            /\ cpu' = restore_context(processes[current_proc'].ctx)
            /\ phase' = "running"
        BY <1>6, <2>2, Dispatch DEF FirstSwitch, Control
      <3>2. cpu' \in Cpu
        BY <3>1, RestoreType DEF TypeOK
      <3>3. QED
        BY <1>6, <3>1, <3>2 DEF FirstSwitch, TypeOK, Control, Phase
    <2>3. QED
      BY <2>1, <2>2
  <1>7. CASE TimerExpires
    BY <1>7 DEF TimerExpires, TypeOK, Control
  <1>8. CASE TimerIrq
    <2>1. phase = "running" /\ proc_count # 0
      BY <1>8 DEF TimerIrq, Interruptible, TypeOK, Control, Phase, Slot
    <2>2. /\ SaveCurrent \in [Slot -> [ctx : Context, state : ProcState]]
          /\ \A p \in Slot : SaveCurrent[p].state = "READY"
      BY SaveCurrentType, SMTT(30)
    <2>3. /\ current_proc' \in Slot /\ current_proc' < proc_count
          /\ cpu' = restore_context(SaveCurrent[current_proc'].ctx)
          /\ phase' = "running"
      BY <1>8, <2>1, <2>2, Dispatch, Zenon DEF TimerIrq
    <2>4. cpu' \in Cpu
      BY <2>2, <2>3, RestoreType
    <2>5. QED
      BY <1>8, <2>2, <2>3, <2>4, Zenon DEF TimerIrq, TypeOK, Control, Phase
  <1>9. CASE SpuriousIrq
    <2>1. /\ SaveCurrent \in [Slot -> [ctx : Context, state : ProcState]]
          /\ \A p \in Slot : SaveCurrent[p].state = "READY"
      BY SaveCurrentType
    <2>2. EretWithoutSwitch(cpu) \in Cpu
      BY EretType DEF TypeOK
    <2>3. QED
      BY <1>9, <2>1, <2>2 DEF SpuriousIrq, TypeOK, Control
  <1>10. CASE ProcStep
    <2>1. PICK i \in Images[current_proc] :
            /\ cpu' = IF AtEL0(cpu.pstate)
                      THEN [cpu EXCEPT !.x = i.x, !.pc = i.pc, !.sp_el0 = i.sp]
                      ELSE [cpu EXCEPT !.x = i.x, !.pc = i.pc, !.sp_el1 = i.sp]
            /\ view' = [view EXCEPT ![current_proc] =
                          [x |-> i.x, pc |-> i.pc, sp |-> i.sp, pstate |-> cpu.pstate]]
      BY <1>10, Zenon DEF ProcStep
    <2>2. i.x \in [Reg -> Nat] /\ i.pc \in Nat /\ i.sp \in Nat
      BY ImagesAssumption DEF TypeOK
    <2>3. cpu' \in Cpu
      BY <2>1, <2>2, Zenon DEF TypeOK, Cpu
    <2>4. view' \in [Slot -> [x : [Reg -> Nat], pc : Nat, sp : Nat, pstate : Nat]]
      BY <2>1, <2>2 DEF TypeOK, Cpu
    <2>5. QED
      BY <1>10, <2>3, <2>4 DEF ProcStep, Executing, TypeOK, Control
  <1>11. CASE kprintf_args \/ panic_with_info
    <2>1. /\ cpu' = [cpu EXCEPT !.pstate = 837]
          /\ view' = [view EXCEPT ![current_proc].pstate = 837]
          /\ spin' = spin \/ spin' = spin \cup {current_proc}
      BY <1>11 DEF kprintf_args, panic_with_info, EL1h
    <2>a. /\ cpu \in Cpu /\ current_proc \in Slot /\ spin \subseteq Slot
          /\ view \in [Slot -> [x : [Reg -> Nat], pc : Nat, sp : Nat, pstate : Nat]]
      BY DEF TypeOK
    <2>b. \A m \in Nat : [cpu EXCEPT !.pstate = m] \in Cpu
      BY <2>a, Zenon DEF Cpu
    <2>2. cpu' \in Cpu
      BY <2>1, <2>b
    <2>3. spin' \subseteq Slot
      BY <2>1, <2>a
    <2>4. view' \in [Slot -> [x : [Reg -> Nat], pc : Nat, sp : Nat, pstate : Nat]]
      BY <2>1, <2>a
    <2>5. QED
      BY <1>11, <2>2, <2>3, <2>4
      DEF kprintf_args, panic_with_info, Executing, TypeOK, Control
  <1>12. CASE sync_el0_handler_c
    <2>1. cpu.sp_el1 - Frame \in Nat
      <3>1. cpu.sp_el1 \in Nat /\ cpu.sp_el1 >= StackBase(current_proc) + Frame
        BY <1>12 DEF sync_el0_handler_c, TypeOK, Cpu
      <3>2. StackBase(current_proc) \in Nat
        <4>1. current_proc \in Nat
          BY MaxProcsAssumption DEF TypeOK, Slot
        <4>2. QED
          BY <4>1, LayoutAssumption DEF StackBase
      <3>3. QED
        BY <3>1, <3>2, LayoutAssumption
    <2>2. cpu' \in Cpu
      BY <1>12, <2>1, JunkAssumption, Zenon DEF sync_el0_handler_c, TypeOK, Cpu
    <2>3. view' \in [Slot -> [x : [Reg -> Nat], pc : Nat, sp : Nat, pstate : Nat]]
      BY <1>12, JunkAssumption, ZenonT(40) DEF sync_el0_handler_c, TypeOK
    <2>4. QED
      BY <1>12, <2>2, <2>3, Zenon DEF sync_el0_handler_c, Executing, TypeOK, Control
  <1>13. CASE handle_exception \/ sync_el1_handler
    BY <1>13 DEF handle_exception, sync_el1_handler, TypeOK, Control, Phase
  <1>14. CASE UNCHANGED vars
    BY <1>14 DEF vars, TypeOK, Control
  <1>15. QED
    BY <1>1, <1>2, <1>3, <1>4, <1>5, <1>6, <1>7, <1>8, <1>9, <1>10, <1>11,
       <1>12, <1>13, <1>14
    DEF Next, create_kernel_process, create_process

(***************************************************************************)
(* Type correctness: proc_count and current_proc always index processes[], *)
(* however processes are loaded, interrupted and dispatched.               *)
(***************************************************************************)
THEOREM TypeCorrect == Spec => []TypeOK
  <1>1. TypeOK /\ Control /\ [Next]_vars => (TypeOK /\ Control)'
    BY NextType
  <1>2. QED
    BY <1>1, InitType, PTL DEF Spec

------------------------------------------------------------------------------
(* Context integrity.                                                      *)

\* ContextIntegrity and SavedContextIntact are inductive together: an
\* interrupt turns the first into the second for the process it suspends,
\* and the second into the first for the one it resumes.  The slots beyond
\* proc_count matter because a loader may fail after init_process.
ProcContexts ==
    /\ \A p \in Slot :
         p >= proc_count =>
           processes[p].ctx = ZeroContext /\ view[p] = ZeroView /\ ~loaded[p]
    /\ \A p \in Slot : loaded[p] => (AtEL0(view[p].pstate) <=> kind[p] = "user")
    /\ ContextIntegrity
    /\ SavedContextIntact

(***************************************************************************)
(* A slot no loader has filled in restores to the all-zero context.        *)
(***************************************************************************)
LEMMA ZeroHolds == Holds(restore_context(ZeroContext), ZeroView, Reserved)
  BY DEF Holds, restore_context, ZeroContext, ZeroView, Reserved, Reg, SavedReg,
         AtEL0, EL0t

(***************************************************************************)
(* A filled-in slot restores to the entry context of its loader.           *)
(***************************************************************************)
LEMMA EntryHolds ==
    ASSUME NEW p, NEW k
    PROVE  Holds(restore_context(EntryContext(p, k)),
                 [x |-> [r \in Reg |-> 0], pc |-> Entry + p,
                  sp |-> StackBase(p) + StackSize, pstate |-> SpsrOf(k)],
                 Reserved)
  BY DEF Holds, restore_context, EntryContext, Reserved, Reg, SavedReg

(***************************************************************************)
(* kernel_main starts with empty slots and no process.                     *)
(***************************************************************************)
LEMMA InitContexts == Init => ProcContexts
  BY MaxProcsAssumption
  DEF Init, ProcContexts, ContextIntegrity, SavedContextIntact, Slot

(***************************************************************************)
(* Dispatching a slot that restores to its process's own values puts those *)
(* values on the CPU, and leaves the other slots good.                     *)
(***************************************************************************)
LEMMA DispatchContexts ==
    ASSUME TypeOK, ProcContexts,
           current_proc' \in Slot, current_proc' < proc_count,
           phase' = "running",
           cpu' = restore_context(processes'[current_proc'].ctx),
           UNCHANGED <<proc_count, view, kind, loaded, dropped>>,
           \A p \in Slot : p >= proc_count => processes'[p] = processes[p],
           \A p \in Slot : p < proc_count =>
               Holds(restore_context(processes'[p].ctx), view[p], Lost(p))
    PROVE  ProcContexts'
  <1>0. \A p : Lost(p)' = Lost(p)
    BY Zenon DEF Lost
  <1>1. ContextIntegrity'
    BY <1>0 DEF ContextIntegrity
  <1>2. SavedContextIntact'
    BY <1>0 DEF SavedContextIntact
  <1>3. QED
    BY <1>1, <1>2, Zenon DEF ProcContexts

(***************************************************************************)
(* A step of the process on the CPU that changes its registers and its     *)
(* view alike keeps every context good.                                    *)
(***************************************************************************)
LEMMA OwnStepContexts ==
    ASSUME TypeOK, Control, ProcContexts, phase = "running",
           UNCHANGED <<processes, proc_count, current_proc, phase, kind, loaded>>,
           \A p \in Slot : p # current_proc =>
               view'[p] = view[p] /\ (p \in dropped' <=> p \in dropped),
           Holds(cpu', view'[current_proc], Lost(current_proc)'),
           AtEL0(view'[current_proc].pstate) <=> AtEL0(cpu.pstate)
    PROVE  ProcContexts'
  <1>1. /\ current_proc \in Slot /\ current_proc < proc_count
        /\ proc_count \in Nat
        /\ view[current_proc].pstate = cpu.pstate
    BY MaxProcsAssumption
    DEF TypeOK, Control, ProcContexts, ContextIntegrity, Holds
  <1>2. ContextIntegrity'
    BY DEF ContextIntegrity
  <1>a. \A p \in Slot : p # current_proc => Lost(p)' = Lost(p)
    BY Zenon DEF Lost
  <1>3. SavedContextIntact'
    BY <1>a, Zenon DEF ProcContexts, SavedContextIntact
  <1>4. \A p \in Slot : ~(p >= proc_count /\ p = current_proc)
    BY <1>1, MaxProcsAssumption DEF Slot
  <1>5. QED
    BY <1>1, <1>2, <1>3, <1>4, SMTT(30) DEF ProcContexts

(***************************************************************************)
(* Every step preserves the contexts.                                      *)
(***************************************************************************)
LEMMA NextContexts ==
    ASSUME TypeOK, Control, ProcContexts, [Next]_vars
    PROVE  ProcContexts'
  <1> USE DEF table, history
  <1>0. /\ proc_count \in Nat /\ current_proc \in Slot /\ cpu \in Cpu
        /\ \A p \in Slot : p \in Nat
        /\ view \in [Slot -> [x : [Reg -> Nat], pc : Nat, sp : Nat, pstate : Nat]]
    BY MaxProcsAssumption DEF TypeOK, Slot
  <1>1. ASSUME NEW k \in {"kernel", "user"}, Load(k)
        PROVE  ProcContexts'
    <2>1. proc_count \in Slot
      BY <1>1, <1>0, MaxProcsAssumption DEF Load, Slot
    <2>2. /\ processes'[proc_count].ctx = EntryContext(proc_count, k)
          /\ view'[proc_count] = [x |-> [r \in Reg |-> 0], pc |-> Entry + proc_count,
                                  sp |-> StackBase(proc_count) + StackSize,
                                  pstate |-> SpsrOf(k)]
          /\ kind'[proc_count] = k
      BY <1>1, <2>1, Zenon DEF Load, TypeOK
    <2>3. \A p \in Slot : p # proc_count =>
             /\ processes'[p] = processes[p] /\ view'[p] = view[p]
             /\ kind'[p] = kind[p] /\ loaded'[p] = loaded[p]
      BY <1>1, Zenon DEF Load, TypeOK
    <2>a. \A p : Lost(p)' = Lost(p)
      BY <1>1, Zenon DEF Load, Lost
    <2>4. /\ proc_count' = proc_count + 1 /\ phase' = phase /\ phase = "loading"
          /\ current_proc' = current_proc
      BY <1>1, SMTT(30) DEF Load
    <2>5. AtEL0(view'[proc_count].pstate) <=> k = "user"
      BY <2>2 DEF AtEL0, SpsrOf, EL0t, EL1hMasked
    <2>6. ContextIntegrity'
      BY <2>4 DEF ContextIntegrity
    <2>7. SavedContextIntact'
      <3> SUFFICES ASSUME NEW p \in Slot, p < proc_count'
                   PROVE  Holds(restore_context(processes'[p].ctx), view'[p], Lost(p))
        BY <2>a DEF SavedContextIntact
      <3>1. CASE p = proc_count
        <4>1. Holds(restore_context(processes'[p].ctx), view'[p], Reserved)
          BY <3>1, <2>2, EntryHolds, Zenon
        <4>2. QED
          BY <4>1, HoldsOutsideMore, LostFacts, Zenon
      <3>2. CASE p # proc_count
        <4>a. p \in Nat /\ proc_count \in Nat
          BY <1>0
        <4>1. p < proc_count
          BY <3>2, <4>a, <2>4
        <4>2. Holds(restore_context(processes[p].ctx), view[p], Lost(p))
          BY <4>1, <2>4 DEF ProcContexts, SavedContextIntact
        <4>3. QED
          BY <4>2, <3>2, <2>3, <2>4
      <3>3. QED
        BY <3>1, <3>2
    <2>8. \A p \in Slot : p >= proc_count' =>
             processes'[p].ctx = ZeroContext /\ view'[p] = ZeroView /\ ~loaded'[p]
      <3> SUFFICES ASSUME NEW p \in Slot, p >= proc_count'
                   PROVE  processes'[p].ctx = ZeroContext /\ view'[p] = ZeroView /\ ~loaded'[p]
        OBVIOUS
      <3>1. p >= proc_count /\ p # proc_count
        BY <1>0, <2>4
      <3>2. processes[p].ctx = ZeroContext /\ view[p] = ZeroView /\ ~loaded[p]
        BY <3>1 DEF ProcContexts
      <3>3. QED
        BY <3>1, <3>2, <2>3
    <2>9. \A p \in Slot : loaded'[p] =>
             (AtEL0(view'[p].pstate) <=> kind'[p] = "user")
      <3> SUFFICES ASSUME NEW p \in Slot, loaded'[p]
                   PROVE  AtEL0(view'[p].pstate) <=> kind'[p] = "user"
        OBVIOUS
      <3>1. CASE p = proc_count
        BY <3>1, <2>2, <2>5
      <3>2. CASE p # proc_count
        <4>1. loaded[p] /\ view'[p] = view[p] /\ kind'[p] = kind[p]
          BY <3>2, <2>3
        <4>2. AtEL0(view[p].pstate) <=> kind[p] = "user"
          BY <4>1 DEF ProcContexts
        <4>3. QED
          BY <4>1, <4>2
      <3>3. QED
        BY <3>1, <3>2, Zenon
    <2>10. QED
      BY <2>6, <2>7, <2>8, <2>9 DEF ProcContexts
  <1>2. ASSUME NEW k \in Kinds, LoadFails(k)
        PROVE  ProcContexts'
    <2>1. /\ proc_count' = proc_count + 1 /\ phase' = phase /\ phase = "loading"
          /\ UNCHANGED <<processes, view, loaded, current_proc>>
          /\ \A p \in Slot : p # proc_count => kind'[p] = kind[p]
      BY <1>2 DEF LoadFails, TypeOK
    <2>a. \A p : Lost(p)' = Lost(p)
      BY <1>2, Zenon DEF LoadFails, Lost
    <2>2. SavedContextIntact'
      <3> SUFFICES ASSUME NEW p \in Slot, p < proc_count'
                   PROVE  Holds(restore_context(processes[p].ctx), view[p], Lost(p))
        BY <2>1, <2>a, Zenon DEF SavedContextIntact
      <3>1. CASE p = proc_count
        <4>1. processes[p].ctx = ZeroContext /\ view[p] = ZeroView
          BY <3>1, <1>0, SMTT(30) DEF ProcContexts
        <4>2. QED
          BY <4>1, ZeroHolds, HoldsOutsideMore, LostFacts, Zenon
      <3>2. CASE p # proc_count
        <4>a. p \in Nat /\ proc_count \in Nat
          BY <1>0, SMTT(30)
        <4>1. p < proc_count
          BY <3>2, <4>a, <2>1
        <4>2. Holds(restore_context(processes[p].ctx), view[p], Lost(p))
          BY <4>1, <2>1 DEF ProcContexts, SavedContextIntact
        <4>3. QED
          BY <4>2, <3>2, <2>1, Zenon
      <3>3. QED
        BY <3>1, <3>2
    <2>3. ContextIntegrity'
      BY <2>1 DEF ContextIntegrity
    <2>4. QED
      BY <1>0, <2>1, <2>2, <2>3 DEF ProcContexts
  <1>3. CASE LoadIntoFullTable \/ start_scheduler \/ timer_init
    <2>1. /\ UNCHANGED <<processes, proc_count, current_proc, view, kind, loaded, dropped>>
          /\ phase' # "running" /\ phase \in {"loading", "irq_off"}
      BY <1>3 DEF LoadIntoFullTable, start_scheduler, timer_init
    <2>2. \A p : Lost(p)' = Lost(p)
      BY <2>1, Zenon DEF Lost
    <2>3. QED
      BY <2>1, <2>2 DEF ProcContexts, ContextIntegrity, SavedContextIntact
  <1>4. CASE FirstSwitch
    <2>1. CASE proc_count = 0
      <3>1. cpu' = cpu /\ phase' = "stopped" /\ current_proc' = current_proc
        BY <1>4, <2>1, NoDispatch DEF FirstSwitch
      <3>2. \A p : Lost(p)' = Lost(p)
        BY <1>4, Zenon DEF FirstSwitch, Lost
      <3>3. QED
        BY <1>4, <3>1, <3>2
        DEF FirstSwitch, ProcContexts, ContextIntegrity, SavedContextIntact
    <2>2. CASE proc_count # 0
      <3>1. /\ current_proc' \in Slot /\ current_proc' < proc_count
            /\ cpu' = restore_context(processes[current_proc'].ctx)
            /\ phase' = "running"
        BY <1>4, <2>2, Dispatch, Zenon DEF FirstSwitch, Control
      <3>2. \A p \in Slot : p < proc_count =>
               Holds(restore_context(processes[p].ctx), view[p], Lost(p))
        BY <1>4 DEF FirstSwitch, ProcContexts, SavedContextIntact
      <3>3. UNCHANGED <<processes, proc_count, view, kind, loaded, dropped>>
        BY <1>4 DEF FirstSwitch
      <3>4. QED
        BY <3>1, <3>2, <3>3, DispatchContexts
    <2>3. QED
      BY <2>1, <2>2
  <1>5. CASE TimerExpires
    BY <1>5, SMTT(30) DEF TimerExpires, Lost, ProcContexts, ContextIntegrity, SavedContextIntact
  <1>6. CASE TimerIrq
    <2>1. /\ phase = "running" /\ proc_count # 0 /\ current_proc < proc_count
      BY <1>6, <1>0 DEF TimerIrq, Interruptible, TypeOK, Control, Phase, Slot
    <2>2. /\ SaveCurrent \in [Slot -> [ctx : Context, state : ProcState]]
          /\ \A p \in Slot : SaveCurrent[p].state = "READY"
          /\ \A p \in Slot : p # current_proc => SaveCurrent[p] = processes[p]
          /\ SaveCurrent[current_proc].ctx
                = SaveInterrupted(cpu, processes[current_proc].ctx)
      BY SaveCurrentType, SMTT(30)
    <2>3. /\ current_proc' \in Slot /\ current_proc' < proc_count
          /\ cpu' = restore_context(SaveCurrent[current_proc'].ctx)
          /\ phase' = "running"
      BY <1>6, <2>1, <2>2, Dispatch, Zenon DEF TimerIrq
    <2>4. processes' = SaveCurrent /\ UNCHANGED <<proc_count, view, kind, loaded, dropped>>
      BY <1>6, SMTT(30) DEF TimerIrq
    <2>5. Holds(restore_context(SaveCurrent[current_proc].ctx),
                view[current_proc], Lost(current_proc))
      <3>1. Holds(cpu, view[current_proc], Lost(current_proc))
        BY <2>1 DEF ProcContexts, ContextIntegrity
      <3>2. processes[current_proc].ctx \in Context
        BY <1>0, SMTT(30) DEF TypeOK
      <3>3. QED
        BY <1>0, <2>2, <3>1, <3>2, HoldsSurvivesSave, LostFacts, Zenon
    <2>6. \A p \in Slot : p < proc_count =>
             Holds(restore_context(SaveCurrent[p].ctx), view[p], Lost(p))
      BY <2>1, <2>2, <2>5, Zenon DEF ProcContexts, SavedContextIntact
    <2>7. \A p \in Slot : p >= proc_count => SaveCurrent[p] = processes[p]
      BY <1>0, <2>1, <2>2
    <2>8. QED
      BY <2>3, <2>4, <2>6, <2>7, DispatchContexts, Zenon
  <1>7. CASE SpuriousIrq
    <2>1. /\ phase = "running" /\ processes' = SaveCurrent
          /\ cpu' = EretWithoutSwitch(cpu) /\ dropped' = dropped \cup {current_proc}
          /\ UNCHANGED <<proc_count, current_proc, phase, view, kind, loaded>>
      BY <1>7 DEF SpuriousIrq
    <2>2. \A p \in Slot : p # current_proc => SaveCurrent[p] = processes[p]
      BY SaveCurrentType, SMTT(30)
    <2>3. /\ Lost(current_proc)' = Reserved \cup {"x0", "x1", "x30"}
          /\ \A p \in Slot : p # current_proc => Lost(p)' = Lost(p)
      BY <2>1, Zenon DEF Lost
    <2>4. Holds(cpu, view[current_proc], Lost(current_proc)')
      BY <2>1, <2>3, HoldsOutsideMore, LostFacts, Zenon DEF ProcContexts, ContextIntegrity
    <2>5. Holds(cpu', view[current_proc], Lost(current_proc)')
      BY <1>0, <2>1, <2>3, <2>4, HoldsSurvivesEret, Zenon
    <2>6. ContextIntegrity'
      BY <2>1, <2>5, Zenon DEF ContextIntegrity
    <2>7. SavedContextIntact'
      BY <2>1, <2>2, <2>3, Zenon DEF ProcContexts, SavedContextIntact
    <2>8. \A p \in Slot : p >= proc_count => processes'[p] = processes[p]
      BY <1>0, <2>1, <2>2 DEF Control
    <2>9. QED
      BY <2>1, <2>6, <2>7, <2>8, Zenon DEF ProcContexts
  <1>8. CASE ProcStep
    <2>1. PICK i \in Images[current_proc] :
            /\ cpu' = IF AtEL0(cpu.pstate)
                      THEN [cpu EXCEPT !.x = i.x, !.pc = i.pc, !.sp_el0 = i.sp]
                      ELSE [cpu EXCEPT !.x = i.x, !.pc = i.pc, !.sp_el1 = i.sp]
            /\ view' = [view EXCEPT ![current_proc] =
                          [x |-> i.x, pc |-> i.pc, sp |-> i.sp, pstate |-> cpu.pstate]]
      BY <1>8, Zenon DEF ProcStep
    <2>2. view'[current_proc]
            = [x |-> i.x, pc |-> i.pc, sp |-> i.sp, pstate |-> cpu.pstate]
      BY <1>0, <2>1
    <2>3. Holds(cpu', view'[current_proc], Reserved)
      BY <1>0, <2>1, <2>2 DEF Holds, Cpu
    <2>4. Holds(cpu', view'[current_proc], Lost(current_proc)')
      BY <2>3, HoldsOutsideMore, Zenon DEF Lost
    <2>5. \A p \in Slot : p # current_proc => view'[p] = view[p] /\ (p \in dropped' <=> p \in dropped)
      BY <1>0, <1>8, <2>1 DEF ProcStep
    <2>6. QED
      BY <1>8, <2>2, <2>4, <2>5, OwnStepContexts DEF ProcStep, Executing
  <1>9. CASE kprintf_args \/ panic_with_info
    <2>1. /\ cpu' = [cpu EXCEPT !.pstate = EL1h]
          /\ view' = [view EXCEPT ![current_proc].pstate = EL1h]
          /\ phase = "running" /\ ~AtEL0(cpu.pstate)
          /\ UNCHANGED <<processes, proc_count, current_proc, phase, kind, loaded, dropped>>
      BY <1>9 DEF kprintf_args, panic_with_info, Executing
    <2>a. Lost(current_proc)' = Lost(current_proc)
      BY <2>1, Zenon DEF Lost
    <2>2. Holds(cpu, view[current_proc], Lost(current_proc))
      BY <2>1 DEF ProcContexts, ContextIntegrity
    <2>3. /\ view'[current_proc].pstate = EL1h
          /\ view'[current_proc].x = view[current_proc].x
          /\ view'[current_proc].pc = view[current_proc].pc
          /\ view'[current_proc].sp = view[current_proc].sp
      BY <1>0, <2>1
    <2>4. /\ cpu'.pstate = EL1h /\ cpu'.x = cpu.x
          /\ cpu'.pc = cpu.pc /\ cpu'.sp_el1 = cpu.sp_el1
      BY <1>0, <2>1 DEF Cpu
    <2>5. Holds(cpu', view'[current_proc], Lost(current_proc)')
      BY <2>1, <2>2, <2>3, <2>4, <2>a, Zenon DEF Holds
    <2>6. ~AtEL0(view'[current_proc].pstate)
      BY <2>3 DEF AtEL0, EL0t, EL1h
    <2>7. QED
      BY <2>1, <2>5, <2>6, OwnStepContexts
  <1>10. CASE sync_el0_handler_c
    <2>a. Lost(current_proc)' = Lost(current_proc) /\ dropped' = dropped
      BY <1>10, Zenon DEF sync_el0_handler_c, Lost
    <2>1. Holds(cpu, view[current_proc], Lost(current_proc))
      BY <1>10 DEF sync_el0_handler_c, Executing, ProcContexts, ContextIntegrity
    <2>2. /\ view'[current_proc].pstate = view[current_proc].pstate
          /\ view'[current_proc].pc = view[current_proc].pc
          /\ \A r \in Reg : view'[current_proc].x[r] =
               IF r \in CallClobbered THEN Junk ELSE view[current_proc].x[r]
      BY <1>0, <1>10 DEF sync_el0_handler_c
    <2>3. /\ cpu'.pstate = cpu.pstate /\ cpu'.pc = cpu.pc
          /\ \A r \in Reg \ Reserved : cpu'.x[r] =
               IF r \in CallClobbered THEN Junk ELSE cpu.x[r]
      BY <1>0, <1>10 DEF sync_el0_handler_c, Cpu, Reserved
    <2>4. AtEL0(view'[current_proc].pstate) /\ AtEL0(cpu.pstate)
      BY <1>10, <2>1, <2>2, SMTT(30) DEF sync_el0_handler_c, Holds
    <2>5. Holds(cpu', view'[current_proc], Lost(current_proc)')
      BY <2>1, <2>2, <2>3, <2>4, <2>a, LostFacts, Zenon DEF Holds
    <2>6. QED
      BY <1>10, <2>4, <2>5, <2>a, OwnStepContexts DEF sync_el0_handler_c, Executing
  <1>11. CASE handle_exception \/ sync_el1_handler
    BY <1>11, Zenon DEF handle_exception, sync_el1_handler, Stackless, Lost, ProcContexts, ContextIntegrity, SavedContextIntact
  <1>12. CASE UNCHANGED vars
    BY <1>12, Zenon DEF vars, Lost, ProcContexts, ContextIntegrity, SavedContextIntact
  <1>13. QED
    BY <1>1, <1>2, <1>3, <1>4, <1>5, <1>6, <1>7, <1>8, <1>9, <1>10, <1>11, <1>12
    DEF Next, create_kernel_process, create_process

(***************************************************************************)
(* Preemption is transparent: the process on the CPU always finds its pc,  *)
(* its PSTATE, its kernel stack pointer and every register outside         *)
(* Reserved as its own code left them, except x0, x1 and x30 after an      *)
(* interrupt that led to no switch.                                        *)
(***************************************************************************)
THEOREM ContextsKept ==
    Spec => []ContextIntegrity
  <1>1. Init => TypeOK /\ Control /\ ProcContexts
    BY InitType, InitContexts
  <1>2. TypeOK /\ Control /\ ProcContexts /\ [Next]_vars
          => (TypeOK /\ Control /\ ProcContexts)'
    BY NextType, NextContexts
  <1>3. ProcContexts => ContextIntegrity
    BY DEF ProcContexts
  <1>4. QED
    BY <1>1, <1>2, <1>3, PTL DEF Spec

(***************************************************************************)
(* The slot of a process that is not on the CPU always restores to what    *)
(* that process computed, with the same exception: neither kernel_main nor *)
(* another process is ever saved over it.                                  *)
(***************************************************************************)
THEOREM SlotsKept ==
    Spec => []SavedContextIntact
  <1>1. Init => TypeOK /\ Control /\ ProcContexts
    BY InitType, InitContexts
  <1>2. TypeOK /\ Control /\ ProcContexts /\ [Next]_vars
          => (TypeOK /\ Control /\ ProcContexts)'
    BY NextType, NextContexts
  <1>3. ProcContexts => SavedContextIntact
    BY DEF ProcContexts
  <1>4. QED
    BY <1>1, <1>2, <1>3, PTL DEF Spec

(***************************************************************************)
(* No process ever runs at another exception level than the one its loader *)
(* put into spsr.                                                          *)
(***************************************************************************)
THEOREM LevelsKept ==
    Spec => []LevelKept
  <1>1. Init => TypeOK /\ Control /\ ProcContexts
    BY InitType, InitContexts
  <1>2. TypeOK /\ Control /\ ProcContexts /\ [Next]_vars
          => (TypeOK /\ Control /\ ProcContexts)'
    BY NextType, NextContexts
  <1>3. TypeOK /\ ProcContexts => LevelKept
    BY Zenon DEF TypeOK, ProcContexts, ContextIntegrity, Holds, LevelKept
  <1>4. QED
    BY <1>1, <1>2, <1>3, PTL DEF Spec

------------------------------------------------------------------------------
(* Relocation: one instruction.                                            *)

(***************************************************************************)
(* Division and remainder, for a divisor that is not a literal.            *)
(***************************************************************************)
LEMMA Divided ==
    ASSUME NEW m \in Nat \ {0}, NEW a \in Int, NEW q \in Int, q = a \div m
    PROVE  a = q * m + (a % m)
OBVIOUS

(***************************************************************************)
(* Quotient and remainder of a multiple with a rest.                       *)
(***************************************************************************)
LEMMA Remainder ==
    ASSUME NEW m \in Nat \ {0}, NEW q \in Int, NEW r \in 0 .. m - 1
    PROVE  (q * m + r) % m = r /\ (q * m + r) \div m = q
<1>1. (q * m + r) % m = r
  OBVIOUS
<1>2. (q * m + r) \div m = q
  OBVIOUS
<1> QED
  BY <1>1, <1>2

(***************************************************************************)
(* An offset within half of a field's range survives the field: what the   *)
(* mask by the field's width takes away, sign extension gives back.        *)
(***************************************************************************)
LEMMA SignedBack ==
    ASSUME NEW r \in Nat \ {0}, NEW d \in Int, -(r \div 2) <= d, d < r \div 2
    PROVE  d % r \in 0 .. r - 1 /\ Signed(d % r, r) = d
<1>1. CASE 0 <= d
  <2>1. d % r = d
    BY <1>1
  <2> QED
    BY <1>1, <2>1 DEF Signed
<1>2. CASE d < 0
  <2>1. d % r = d + r
    BY <1>2
  <2> QED
    BY <1>2, <2>1 DEF Signed
<1> QED
  BY <1>1, <1>2

(***************************************************************************)
(* What is as far from one place as from another stays so under a common   *)
(* distance.                                                               *)
(***************************************************************************)
LEMMA MovesAlong ==
    ASSUME NEW a \in Int, NEW a0 \in Int, NEW b \in Int, NEW b0 \in Int, NEW s \in Int,
           a - a0 = b - b0
    PROVE  b + s = b0 + (a + s - a0)
OBVIOUS

(***************************************************************************)
(* relocate_code's B and BL: the copy leads to the copy of a target in the *)
(* program, and to the target itself elsewhere.                            *)
(***************************************************************************)
LEMMA BranchMoves ==
    ASSUME NEW imm \in 0 .. BRange - 1, NEW src_base \in Int, NEW dst_base \in Int,
           NEW size \in Nat, NEW src \in Int, NEW dst \in Int, src - src_base = dst - dst_base,
           Reaches(dst, Moved(src + Signed(imm, BRange), src_base, size, dst_base), BRange)
    PROVE  dst + Signed(Branch(imm, src, dst, src_base, size), BRange)
             = Moved(src + Signed(imm, BRange), src_base, size, dst_base)
<1> DEFINE target == src + Signed(imm, BRange)
           moved == Moved(target, src_base, size, dst_base)
           new == Branch(imm, src, dst, src_base, size)
<1>0. BRange \in Nat \ {0} /\ Signed(imm, BRange) \in Int
  BY FieldAssumption DEF Signed
<1>1. CASE In(target, src_base, size)
  <2>1. moved = dst_base + (target - src_base) /\ new = imm
    BY <1>1, Zenon DEF Branch, Moved
  <2>2. PICK s : s = Signed(imm, BRange)
    BY Zenon
  <2>3. s \in Int
    BY <1>0, <2>2, Zenon
  <2>4. dst + s = dst_base + (src + s - src_base)
    BY <2>3, MovesAlong
  <2>5. target = src + s
    BY <2>2, Zenon
  <2>6. Signed(new, BRange) = s
    BY <2>1, <2>2, Zenon
  <2> HIDE DEF target, moved, new
  <2>7. dst + Signed(new, BRange) = moved
    BY <2>1, <2>3, <2>4, <2>5, <2>6
  <2> QED
    BY <2>7, Zenon DEF target, moved, new
<1>2. CASE ~In(target, src_base, size)
  <2>1. moved = target /\ new = (target - dst) % BRange
    BY <1>2, Zenon DEF Branch, Moved
  <2>2. PICK d : d = target - dst
    OBVIOUS
  <2>3. d \in Int /\ -(BRange \div 2) <= d /\ d < BRange \div 2
    BY <1>0, <2>1, <2>2 DEF Reaches
  <2>4. Signed(d % BRange, BRange) = d
    BY <1>0, <2>3, SignedBack
  <2> QED
    BY <1>0, <2>1, <2>2, <2>4
<1> QED
  BY <1>1, <1>2, Zenon

(***************************************************************************)
(* The same for B.cond, when it branches ahead.                            *)
(***************************************************************************)
LEMMA CondBranchMoves ==
    ASSUME NEW imm \in 0 .. CondRange - 1, NEW src_base \in Int, NEW dst_base \in Int,
           NEW size \in Nat, NEW src \in Int, NEW dst \in Int, src - src_base = dst - dst_base,
           src + Signed(imm, CondRange) >= src,
           Reaches(dst, Moved(src + Signed(imm, CondRange), src_base, size, dst_base), CondRange)
    PROVE  dst + Signed(CondBranch(imm, src, dst, src_base, size), CondRange)
             = Moved(src + Signed(imm, CondRange), src_base, size, dst_base)
<1> DEFINE target == src + Signed(imm, CondRange)
           moved == Moved(target, src_base, size, dst_base)
           new == CondBranch(imm, src, dst, src_base, size)
<1>0. CondRange \in Nat \ {0} /\ RelRange \in Nat \ {0} /\ CondRange <= RelRange
  BY FieldAssumption
<1>1. Signed(imm, CondRange) = imm
  BY <1>0 DEF Signed
<1>2. CASE In(target, src_base, size)
  BY <1>0, <1>1, <1>2, SMTT(30) DEF CondBranch, Moved
<1>3. CASE ~In(target, src_base, size)
  <2>1. moved = target /\ new = Signed((target - dst) % RelRange, RelRange) % CondRange
    BY <1>1, <1>3, Zenon DEF CondBranch, Moved
  <2>2. PICK d : d = target - dst
    OBVIOUS
  <2>3. d \in Int /\ -(CondRange \div 2) <= d /\ d < CondRange \div 2
    BY <1>0, <1>1, <2>1, <2>2 DEF Reaches
  <2>4. -(RelRange \div 2) <= d /\ d < RelRange \div 2
    BY <1>0, <2>3
  <2>5. Signed(d % RelRange, RelRange) = d
    BY <1>0, <2>3, <2>4, SignedBack
  <2>6. Signed(d % CondRange, CondRange) = d
    BY <1>0, <2>3, SignedBack
  <2> QED
    BY <1>0, <1>1, <2>1, <2>2, <2>3, <2>5, <2>6, SMTT(30)
<1> QED
  BY <1>2, <1>3

(***************************************************************************)
(* Offsets in whole pages.  A range of w pages, w even, reaches w/2 pages  *)
(* in either direction.                                                    *)
(***************************************************************************)
LEMMA PagesReached ==
    ASSUME NEW w \in Nat \ {0}, w % 2 = 0, NEW P \in Nat \ {0}, NEW q \in Int, NEW d \in Int,
           Reaches(q * P, d * P, w * P)
    PROVE  -(w \div 2) <= d - q /\ d - q < w \div 2
<1>1. PICK h : h = w \div 2
  OBVIOUS
<1>2. h \in Nat /\ w = h + h
  BY <1>1
<1>3. (w * P) \div 2 = h * P
  <2>1. w * P = h * P + h * P /\ h * P \in Nat
    BY <1>2
  <2> QED
    BY <2>1
<1>4. PICK e : e = d - q
  OBVIOUS
<1>5. e \in Int /\ e * P = d * P - q * P
  BY <1>4
<1>6. -(h * P) <= e * P /\ e * P < h * P
  BY <1>3, <1>5 DEF Reaches
<1>7. e < h
  <2>1. SUFFICES ASSUME e >= h PROVE FALSE
    BY <1>2, <1>5
  <2>2. e * P >= h * P
    BY <1>2, <1>5, <2>1
  <2> QED
    BY <1>2, <1>5, <1>6, <2>2
<1>8. -h <= e
  <2>1. SUFFICES ASSUME e < -h PROVE FALSE
    BY <1>2, <1>5
  <2>2. PICK f : f = -e - h
    OBVIOUS
  <2>3. f \in Nat \ {0} /\ e = -h - f
    BY <1>2, <1>5, <2>1, <2>2
  <2>4. f * P \in Nat \ {0} /\ e * P = -(h * P) - f * P
    BY <1>2, <2>3, SMTT(30)
  <2> QED
    BY <1>2, <1>6, <2>4
<1> QED
  BY <1>1, <1>4, <1>7, <1>8

(***************************************************************************)
(* relocate_code's ADRP: the copy names the page that holds the copy of    *)
(* the start of the page in the data.                                      *)
(***************************************************************************)
LEMMA AdrpMoves ==
    ASSUME NEW imm \in 0 .. AdrpRange - 1, NEW src \in Int, NEW dst \in Int,
           NEW data \in [src : Nat, dst : Nat, size : Nat], NEW target, NEW moved,
           target = PageOf(src) + Signed(imm, AdrpRange) * PageSize,
           In(target, data.src, data.size), moved = Moved(target, data.src, data.size, data.dst),
           Reaches(PageOf(src), target, AdrpWindow * PageSize),
           Reaches(PageOf(dst), PageOf(moved), AdrpRange * PageSize)
    PROVE  PageOf(dst) + Signed(Adrp(imm, src, dst, data), AdrpRange) * PageSize = PageOf(moved)
<1>n. PICK new : new = Adrp(imm, src, dst, data)
  OBVIOUS
<1>0. PICK P, A, W : P = PageSize /\ A = AdrpRange /\ W = AdrpWindow
  OBVIOUS
<1>1. P \in Nat \ {0} /\ A \in Nat \ {0} /\ W \in Nat \ {0} /\ W % 2 = 0 /\ A % W = 0
  BY <1>0, FieldAssumption, Zenon
<1>2. PICK S, p, q : S = Signed(imm, A) /\ p = src \div P /\ q = dst \div P
  BY Zenon
<1>3. S \in Int /\ p \in Int /\ q \in Int
  BY <1>0, <1>1, <1>2 DEF Signed
<1>4. PageOf(src) = p * P /\ PageOf(dst) = q * P
  BY <1>0, <1>2, Zenon DEF PageOf
<1>5. target = (p + S) * P /\ target \in Int
  <2>1. target = p * P + S * P
    BY <1>0, <1>2, <1>4, Zenon
  <2> QED
    BY <1>1, <1>3, <2>1
<1>6. -(W \div 2) <= S /\ S < W \div 2
  <2>1. PICK d : d = p + S
    OBVIOUS
  <2>2. Reaches(p * P, d * P, W * P) /\ d \in Int
    BY <1>0, <1>3, <1>4, <1>5, <2>1
  <2>3. -(W \div 2) <= d - p /\ d - p < W \div 2
    BY <1>1, <1>3, <2>2, PagesReached, Zenon
  <2> QED
    BY <1>1, <1>3, <2>1, <2>3
<1>7. PICK k : k \in Nat /\ A = k * W
  <2>1. PICK m : m = A \div W
    OBVIOUS
  <2>2. m \in Int /\ A = m * W + (A % W)
    BY <1>1, <2>1, Divided
  <2>3. m \in Nat /\ A = m * W
    BY <1>1, <2>1, <2>2, SMTT(30)
  <2> QED
    BY <2>3, SMTT(30)
<1>8. Signed(imm % W, W) = S
  <2>1. imm % W = S % W
    <3>1. imm \in Int /\ (imm = S \/ imm = S + k * W)
      BY <1>0, <1>1, <1>2, <1>7, SMTT(30) DEF Signed
    <3>2. CASE imm = S + k * W
      <4>1. PICK r, m : r = S % W /\ m = S \div W
        OBVIOUS
      <4>2. r \in 0 .. W - 1 /\ m \in Int
        BY <1>1, <1>3, <4>1, SMTT(30)
      <4>3. S = m * W + r
        BY <1>1, <1>3, <4>1, <4>2, Divided, Zenon
      <4>4. imm = (m + k) * W + r /\ m + k \in Int
        BY <1>1, <1>7, <3>2, <4>2, <4>3
      <4> QED
        BY <1>1, <4>1, <4>2, <4>4, Remainder, Zenon
    <3> QED
      BY <3>1, <3>2, Zenon
  <2> QED
    BY <1>1, <1>3, <1>6, <2>1, SignedBack, Zenon
<1>9. moved = data.dst + target - data.src /\ moved \in Int
  BY <1>5 DEF Moved
<1>10. PICK e, r : e = moved \div P /\ r = moved % P
  BY SMTT(30)
<1>11. /\ e \in Int /\ r \in 0 .. P - 1 /\ moved = e * P + r
       /\ PageOf(moved) = e * P
  <2>1. e \in Int /\ r \in 0 .. P - 1 /\ PageOf(moved) = e * P
    BY <1>0, <1>1, <1>9, <1>10 DEF PageOf
  <2> QED
    BY <1>1, <1>9, <1>10, <2>1, Divided, Zenon
<1>12. new = (e - q) % A
  <2>1. target = PageOf(src) + Signed(imm % AdrpWindow, AdrpWindow) * PageSize
    BY <1>0, <1>2, <1>8, Zenon
  <2>2. new = ((data.dst + target - data.src - PageOf(dst)) \div P) % A
    BY <1>0, <1>n, <2>1, Zenon DEF Adrp
  <2>3. PICK f : f = e - q
    BY Zenon
  <2>4. f \in Int /\ e = f + q
    BY <1>3, <1>11, <2>3, SMTT(30)
  <2>5. moved - q * P = f * P + r
    <3>1. e * P = f * P + q * P
      BY <1>1, <1>3, <2>4, SMTT(30)
    <3>2. PICK x, y, z : x = e * P /\ y = f * P /\ z = q * P
      BY Zenon
    <3>3. x \in Int /\ y \in Int /\ z \in Int /\ r \in Int
      BY <1>1, <1>3, <1>11, <2>4, <3>2
    <3>4. x = y + z /\ moved = x + r
      BY <1>11, <3>1, <3>2, Zenon
    <3>5. moved - z = y + r
      BY ONLY <3>3, <3>4
    <3> QED
      BY <3>2, <3>5, Zenon
  <2>6. (f * P + r) \div P = f
    BY <1>1, <1>11, <2>4, Remainder, Zenon
  <2>7. data.dst + target - data.src - PageOf(dst) = f * P + r
    <3>1. PICK u : u = q * P
      OBVIOUS
    <3>2. u \in Int /\ PageOf(dst) = u /\ moved - u = f * P + r
      BY <1>1, <1>3, <1>4, <2>5, <3>1, SMTT(30)
    <3> QED
      BY <1>5, <1>9, <3>2, SMTT(30)
  <2> QED
    BY <2>2, <2>3, <2>6, <2>7, Zenon
<1>13. A % 2 = 0
  <2>1. PICK h : h = W \div 2
    OBVIOUS
  <2>2. h \in Nat /\ W = h + h
    BY <1>1, <2>1, SMTT(30)
  <2>3. A = k * h + k * h /\ k * h \in Nat
    BY <1>7, <2>2
  <2> QED
    BY <2>3, SMTT(30)
<1>14. -(A \div 2) <= e - q /\ e - q < A \div 2
  <2>1. Reaches(q * P, e * P, A * P)
    BY <1>0, <1>4, <1>11, Zenon
  <2> QED
    BY <1>1, <1>3, <1>11, <1>13, <2>1, PagesReached, Zenon
<1>15. Signed(new, A) = e - q
  <2>1. e - q \in Int
    BY <1>3, <1>11
  <2> QED
    BY <1>1, <1>12, <1>14, <2>1, SignedBack, Zenon
<1>16. q * P + (e - q) * P = e * P
  BY <1>1, <1>3, <1>11, SMTT(30)
<1> QED
  BY <1>0, <1>4, <1>11, <1>15, <1>16, <1>n, Zenon

------------------------------------------------------------------------------
(* Relocation: the program.                                                *)

\* The inductive invariant of RelocationSpec.
RelocationInv ==
    /\ call.over \in BOOLEAN
    /\ call.fn = "relocate" =>
         in \in Loads /\ out = relocate_code(in.code, in.src, in.dst, in.data)

(***************************************************************************)
(* A relocated program does what the original did.                         *)
(***************************************************************************)
LEMMA RelocationRight ==
    ASSUME RelocationInv
    PROVE  RelocatedTargets
<1> SUFFICES ASSUME Returned("relocate"), NEW n \in 1 .. Len(in.code)
             PROVE  LET instr == in.code[n]
                        src == in.src + n - 1
                        dst == in.dst + n - 1
                        target == Target(instr, src)
                        moved == Moved(target, in.src, Len(in.code), in.dst)
                        data == Moved(target, in.data.src, in.data.size, in.data.dst)
                    IN  CASE instr.kind = "b" ->
                               Reaches(dst, moved, BRange) => Target(out[n], dst) = moved
                          [] instr.kind = "cond" ->
                               target >= src /\ Reaches(dst, moved, CondRange)
                                 => Target(out[n], dst) = moved
                          [] instr.kind = "adrp" ->
                               (/\ In(target, in.data.src, in.data.size)
                                /\ Reaches(PageOf(src), target, AdrpWindow * PageSize)
                                /\ Reaches(PageOf(dst), PageOf(data), AdrpRange * PageSize))
                                 => Target(out[n], dst) = PageOf(data)
                          [] OTHER -> out[n] = instr
  BY DEF RelocatedTargets
<1>1. PICK l : l = in /\ l \in Loads /\ out = relocate_code(l.code, l.src, l.dst, l.data)
  BY Zenon DEF RelocationInv, Returned
<1>2. PICK size, src_base, dst_base, instr, k :
        /\ size = Len(l.code) /\ src_base = l.src /\ dst_base = l.dst /\ instr = l.code[n]
        /\ k = n - 1
  BY Zenon
<1>3. /\ l.code \in Seq(Instructions) /\ src_base \in Nat /\ dst_base \in Nat
      /\ l.data \in [src : Nat, dst : Nat, size : Nat]
  BY <1>1, <1>2, LoadsAssumption, Zenon
<1>4. n \in 1 .. size /\ size \in Nat /\ instr \in Instructions /\ k \in Int
  BY <1>1, <1>2, <1>3
<1>5. PICK src, dst : src = l.src + n - 1 /\ dst = l.dst + n - 1
  OBVIOUS
<1>6. src = src_base + k /\ dst = dst_base + k /\ src \in Int /\ dst \in Int
  <2>1. src = src_base + n - 1 /\ dst = dst_base + n - 1 /\ k = n - 1
    BY <1>2, <1>5, Zenon
  <2>2. src_base \in Nat /\ dst_base \in Nat
    BY <1>3, Zenon
  <2>3. n \in 1 .. size /\ size \in Nat
    BY <1>4, Zenon
  <2> QED
    BY <2>1, <2>2, <2>3
<1>7. out[n] = CASE instr.kind = "b" -> Instr("b", Branch(instr.imm, src, dst, src_base, size))
                 [] instr.kind = "cond" ->
                      Instr("cond", CondBranch(instr.imm, src, dst, src_base, size))
                 [] instr.kind = "adrp" -> Instr("adrp", Adrp(instr.imm, src, dst, l.data))
                 [] OTHER -> instr
  BY <1>1, <1>2, <1>4, <1>5, Zenon DEF relocate_code
<1>8. \/ instr.kind = "other"
      \/ instr.kind = "b" /\ instr.imm \in 0 .. BRange - 1
      \/ instr.kind = "cond" /\ instr.imm \in 0 .. CondRange - 1
      \/ instr.kind = "adrp" /\ instr.imm \in 0 .. AdrpRange - 1
  BY <1>4 DEF Instructions, Instr
<1> DEFINE target == Target(instr, src)
           moved == Moved(target, src_base, size, dst_base)
           data == Moved(target, l.data.src, l.data.size, l.data.dst)
<1>9. CASE instr.kind = "other"
  BY <1>1, <1>2, <1>7, <1>9, SMTT(30)
<1>10. CASE instr.kind = "b"
  <2>1. SUFFICES ASSUME Reaches(dst, moved, BRange) PROVE Target(out[n], dst) = moved
    BY <1>1, <1>2, <1>5, <1>10
  <2>2. PICK new : new = Branch(instr.imm, src, dst, src_base, size)
    OBVIOUS
  <2>3. out[n] = Instr("b", new)
    BY <1>7, <1>10, <2>2
  <2>4. target = src + Signed(instr.imm, BRange) /\ Target(out[n], dst) = dst + Signed(new, BRange)
    BY <1>10, <2>3 DEF Target, Instr
  <2>5. src_base \in Int /\ dst_base \in Int /\ instr.imm \in 0 .. BRange - 1
    BY <1>3, <1>8, <1>10
  <2>6. src - src_base = dst - dst_base
    BY <1>3, <1>4, <1>6, SMTT(30)
  <2> QED
    BY <1>4, <1>6, <2>1, <2>2, <2>4, <2>5, <2>6, BranchMoves
<1>11. CASE instr.kind = "cond"
  <2>1. SUFFICES ASSUME target >= src, Reaches(dst, moved, CondRange)
                 PROVE  Target(out[n], dst) = moved
    BY <1>1, <1>2, <1>5, <1>11
  <2>2. PICK new : new = CondBranch(instr.imm, src, dst, src_base, size)
    OBVIOUS
  <2>3. out[n] = Instr("cond", new)
    BY <1>7, <1>11, <2>2
  <2>4. /\ target = src + Signed(instr.imm, CondRange)
        /\ Target(out[n], dst) = dst + Signed(new, CondRange)
    BY <1>11, <2>3 DEF Target, Instr
  <2>5. src_base \in Int /\ dst_base \in Int /\ instr.imm \in 0 .. CondRange - 1
    BY <1>3, <1>8, <1>11, SMTT(30)
  <2>6. src - src_base = dst - dst_base
    BY <1>3, <1>4, <1>6
  <2> QED
    BY <1>4, <1>6, <2>1, <2>2, <2>4, <2>5, <2>6, CondBranchMoves
<1>12. CASE instr.kind = "adrp"
  <2>1. SUFFICES ASSUME In(target, l.data.src, l.data.size),
                        Reaches(PageOf(src), target, AdrpWindow * PageSize),
                        Reaches(PageOf(dst), PageOf(data), AdrpRange * PageSize)
                 PROVE  Target(out[n], dst) = PageOf(data)
    BY <1>1, <1>2, <1>5, <1>12
  <2>2. PICK new : new = Adrp(instr.imm, src, dst, l.data)
    OBVIOUS
  <2>3. out[n] = Instr("adrp", new)
    BY <1>7, <1>12, <2>2
  <2>4. /\ target = PageOf(src) + Signed(instr.imm, AdrpRange) * PageSize
        /\ Target(out[n], dst) = PageOf(dst) + Signed(new, AdrpRange) * PageSize
    BY <1>12, <2>3 DEF Target, Instr
  <2>5. instr.imm \in 0 .. AdrpRange - 1
    BY <1>8, <1>12
  <2>6. PICK t, m : t = target /\ m = data
    OBVIOUS
  <2>7. /\ t = PageOf(src) + Signed(instr.imm, AdrpRange) * PageSize
        /\ In(t, l.data.src, l.data.size) /\ m = Moved(t, l.data.src, l.data.size, l.data.dst)
        /\ Reaches(PageOf(src), t, AdrpWindow * PageSize)
        /\ Reaches(PageOf(dst), PageOf(m), AdrpRange * PageSize)
    BY <2>1, <2>4, <2>6, Zenon
  <2>8. l.data \in [src : Nat, dst : Nat, size : Nat] /\ src \in Int /\ dst \in Int
    BY <1>3, <1>6, Zenon
  <2>9. PageOf(dst) + Signed(new, AdrpRange) * PageSize = PageOf(m)
    BY <2>2, <2>5, <2>7, <2>8, AdrpMoves, SMTT(30)
  <2> QED
    BY <2>4, <2>6, <2>9, Zenon
<1> QED
  BY <1>8, <1>9, <1>10, <1>11, <1>12, Zenon

(***************************************************************************)
(* A call of relocate_code has returned what that computes of its input.   *)
(***************************************************************************)
THEOREM RelocationInvariant == RelocationSpec => []RelocationInv
<1>1. CallsInit => RelocationInv
  <2>1. SUFFICES ASSUME call = [fn |-> "none", in |-> 0, out |-> 0, over |-> TRUE]
                 PROVE  RelocationInv
    BY Zenon DEF CallsInit, None
  <2>2. call.fn = "none" /\ call.over = TRUE
    BY <2>1, Zenon
  <2>3. call.fn \notin {"relocate"}
    BY <2>2, Zenon
  <2> QED
    BY <2>2, <2>3, Zenon DEF RelocationInv
<1>2. ASSUME RelocationInv, Relocation \/ Return
      PROVE  RelocationInv'
  <2>1. CASE Relocation
    <3>1. PICK l \in Loads :
            Compute("relocate", l, relocate_code(l.code, l.src, l.dst, l.data))
      BY <2>1, Zenon DEF Relocation
    <3>2. PICK o : o = relocate_code(l.code, l.src, l.dst, l.data)
      BY Zenon
    <3>3. call' = [fn |-> "relocate", in |-> l, out |-> o, over |-> TRUE]
      BY <3>1, <3>2, Zenon DEF Compute
    <3>4. call'.fn = "relocate" /\ in' = l /\ out' = o /\ call'.over = TRUE
      BY <3>3, Zenon DEF in, out
    <3> QED
      BY <3>2, <3>3, <3>4, Zenon DEF RelocationInv, in, out
  <2>2. CASE Return
    BY <2>2, Zenon DEF Return, RelocationInv, None
  <2> QED
    BY <1>2, <2>1, <2>2, Zenon
<1>3. ASSUME RelocationInv, UNCHANGED call
      PROVE  RelocationInv'
  BY <1>3, Zenon DEF RelocationInv, in, out
<1> QED
  BY <1>1, <1>2, <1>3, PTL DEF RelocationSpec

(***************************************************************************)
(* relocate_code keeps the targets, for every program, data and places.    *)
(***************************************************************************)
THEOREM TargetsAreKept == RelocationSpec => []RelocatedTargets
<1>1. RelocationInv => RelocatedTargets
  BY RelocationRight
<1> QED
  BY <1>1, RelocationInvariant, PTL
=============================================================================
