------------------------------ MODULE Scheduler ------------------------------
(***************************************************************************)
(* Process table, loaders, start_scheduler, the timer interrupt and the    *)
(* round-robin switch of craybond-os on its one CPU, from kernel_main's    *)
(* first process creation on.                                              *)
(*                                                                         *)
(* The interrupt handler and the system-call handler run with IRQs masked  *)
(* from entry to eret and are one action each.  start_scheduler is three   *)
(* actions, because the timer can expire between its calls.                *)
(*                                                                         *)
(* view, kind, loaded and dropped are history variables: the registers     *)
(* each process computed for itself, what its loader was asked for and     *)
(* achieved, and the processes an interrupt without a switch returned to   *)
(* since they last computed anything.                                      *)
(***************************************************************************)
EXTENDS ContextSwitch, FiniteSetsExt

CONSTANTS
    MAX_PROCS,     \* length of processes[]
    Kinds,         \* the loaders used: a subset of {"kernel", "user"}
    Images,        \* per slot: register files the code of its process may compute
    UserRam,       \* first stack page handed out by alloc_proc_mem
    StackSize,     \* stack_size of both loaders
    Frame,         \* stack frame of sync_el0_handler_c
    Entry,         \* address of the code of the process in slot 0
    Spurious       \* whether the GIC may answer 1023 to the acknowledge read

Slot == 0 .. MAX_PROCS - 1

ASSUME MaxProcsAssumption == MAX_PROCS \in Nat \ {0}
ASSUME KindsAssumption == Kinds \subseteq {"kernel", "user"}
ASSUME ImagesAssumption ==
    Images \in [Slot -> SUBSET [x : [Reg -> Nat], pc : Nat \ {0}, sp : Nat \ {0}]]
ASSUME LayoutAssumption ==
    /\ UserRam \in Nat \ {0} /\ StackSize \in Nat \ {0}
    /\ Frame \in Nat \ {0} /\ Entry \in Nat \ {0}
    /\ Spurious \in BOOLEAN

VARIABLES
    processes,     \* the process table: saved context and state per slot
    proc_count, current_proc,
    cpu,           \* registers of the CPU
    phase,         \* where kernel_main is, and how the system ended
    tick,          \* the timer interrupt is pending
    spin,          \* processes in the endless loop of panic_with_info
    view, kind, loaded, dropped

table == <<processes, proc_count>>
history == <<view, kind, loaded, dropped>>
vars == <<processes, proc_count, current_proc, cpu, phase, tick, spin,
          view, kind, loaded, dropped>>

ProcState == {"READY", "RUNNING", "BLOCKED"}
Phase == {"loading", "irq_off", "timer_on", "running", "stopped",
          "panicked", "aborting"}

StackBase(p) == UserRam + p * StackSize

ZeroView == [x |-> [r \in Reg |-> 0], pc |-> 0, sp |-> 0, pstate |-> EL0t]

(***************************************************************************)
(* kernel_main has just printed with kprintf, which leaves IRQs unmasked.  *)
(* processes[] is in .bss, and READY is 0.                                 *)
(***************************************************************************)
Init ==
    /\ processes = [p \in Slot |-> [ctx |-> ZeroContext, state |-> "READY"]]
    /\ proc_count = 0
    /\ current_proc = 0
    /\ cpu = [x |-> [r \in Reg |-> Junk], pc |-> Junk,
              sp_el0 |-> Junk, sp_el1 |-> Junk, pstate |-> EL1h]
    /\ phase = "loading"
    /\ tick = FALSE
    /\ spin = {}
    /\ view = [p \in Slot |-> ZeroView]
    /\ kind = [p \in Slot |-> "none"]
    /\ loaded = [p \in Slot |-> FALSE]
    /\ dropped = {}

------------------------------------------------------------------------------
(* The loaders.                                                            *)

SpsrOf(k) == IF k = "kernel" THEN EL1hMasked ELSE EL0t

EntryContext(p, k) ==
    [regs |-> [r \in SavedReg |-> 0], sp |-> StackBase(p) + StackSize,
     pc |-> Entry + p, spsr |-> SpsrOf(k)]

\* init_process hands out the next slot; the rest of the loader fills it in.
Load(k) ==
    /\ phase = "loading"
    /\ proc_count < MAX_PROCS
    /\ LET p == proc_count IN
         /\ processes' = [processes EXCEPT
                            ![p] = [ctx |-> EntryContext(p, k), state |-> "READY"]]
         /\ view' = [view EXCEPT
                       ![p] = [x |-> [r \in Reg |-> 0], pc |-> Entry + p,
                               sp |-> StackBase(p) + StackSize,
                               pstate |-> SpsrOf(k)]]
         /\ kind' = [kind EXCEPT ![p] = k]
         /\ loaded' = [loaded EXCEPT ![p] = TRUE]
    /\ proc_count' = proc_count + 1
    /\ UNCHANGED <<current_proc, cpu, phase, tick, spin, dropped>>

create_kernel_process == "kernel" \in Kinds /\ Load("kernel")
create_process == "user" \in Kinds /\ Load("user")

\* An alloc_proc_mem of either loader returned 0: the loader returns 0, and
\* the slot init_process counted stays zero, which reads as READY.
LoadFails(k) ==
    /\ phase = "loading"
    /\ proc_count < MAX_PROCS
    /\ proc_count' = proc_count + 1
    /\ kind' = [kind EXCEPT ![proc_count] = k]
    /\ UNCHANGED <<processes, current_proc, cpu, phase, tick, spin, view, loaded, dropped>>

\* init_process returned 0 and the loader writes through it: data abort at
\* EL1, handle_exception, panic, with IRQs masked by the exception.
LoadIntoFullTable ==
    /\ phase = "loading"
    /\ proc_count >= MAX_PROCS
    /\ phase' = "panicked"
    /\ UNCHANGED <<table, current_proc, cpu, tick, spin, history>>

------------------------------------------------------------------------------
(* switch_proc and start_scheduler.                                        *)

\* Distances from current_proc at which the loop of switch_proc stops: the
\* loop gives up when it comes round to current_proc.
Candidates(procs) ==
    {k \in 1 .. proc_count :
        /\ k < proc_count \/ proc_count = 1
        /\ procs[(current_proc + k) % proc_count].state = "READY"}

\* Mutant: the assignment to current_proc is missing.
switch_proc_Stuck(procs, back, otherwise) ==
    /\ Candidates(procs) # {}
    /\ LET next == (current_proc + Min(Candidates(procs))) % proc_count IN
         cpu' = restore_context(procs[next].ctx)
    /\ phase' = "running"
    /\ UNCHANGED current_proc

\* back is the CPU state in which a call that finds nobody to run returns.
switch_proc(procs, back, otherwise) ==
    IF Candidates(procs) = {}
    THEN /\ cpu' = back
         /\ phase' = otherwise
         /\ UNCHANGED current_proc
    ELSE LET next == (current_proc + Min(Candidates(procs))) % proc_count IN
         /\ current_proc' = next
         /\ cpu' = restore_context(procs[next].ctx)
         /\ phase' = "running"

\* Mutant: start_scheduler without disable_interrupt.
start_scheduler_Unmasked ==
    /\ phase = "loading"
    /\ phase' = "irq_off"
    /\ UNCHANGED <<table, current_proc, cpu, tick, spin, history>>

start_scheduler ==
    /\ phase = "loading"
    /\ cpu' = [cpu EXCEPT !.pstate = EL1hMasked]
    /\ phase' = "irq_off"
    /\ UNCHANGED <<table, current_proc, tick, spin, history>>

timer_init ==
    /\ phase = "irq_off"
    /\ phase' = "timer_on"
    /\ UNCHANGED <<table, current_proc, cpu, tick, spin, history>>

\* With no process switch_proc returns, and so does kernel_main.
FirstSwitch ==
    /\ phase = "timer_on"
    /\ switch_proc(processes, cpu, "stopped")
    /\ UNCHANGED <<table, tick, spin, history>>

------------------------------------------------------------------------------
(* Interrupts.                                                             *)

\* The physical timer expires; its interrupt stays pending until timer_reset.
TimerExpires ==
    /\ phase \in {"timer_on", "running", "stopped"}
    /\ ~tick
    /\ tick' = TRUE
    /\ UNCHANGED <<table, current_proc, cpu, phase, spin, history>>

\* A slot that was never filled in runs with sp = 0: no handler can push.
Stackless == phase = "running" /\ cpu.sp_el1 = 0

Interruptible ==
    ~Masked(cpu.pstate) /\ phase \notin {"panicked", "aborting"} /\ ~Stackless

SaveCurrent ==
    [processes EXCEPT ![current_proc].ctx = SaveInterrupted(cpu, @)]

\* Mutant: the timer interrupt is handled like every other one.
TimerIrq_NoSwitch ==
    /\ tick /\ Interruptible
    /\ processes' = SaveCurrent
    /\ tick' = FALSE
    /\ cpu' = EretWithoutSwitch(cpu)
    /\ UNCHANGED <<proc_count, current_proc, phase, spin, history>>

\* irq_el1_handler with IRQ_TIMER acknowledged.
TimerIrq ==
    /\ tick /\ Interruptible
    /\ processes' = SaveCurrent
    /\ tick' = FALSE
    /\ switch_proc(SaveCurrent, EretWithoutSwitch(cpu), phase)
    /\ UNCHANGED <<proc_count, spin, history>>

\* irq_el1_handler with any other answer: the saves happen, no switch does.
SpuriousIrq ==
    /\ Spurious /\ phase = "running" /\ Interruptible
    /\ processes' = SaveCurrent
    /\ cpu' = EretWithoutSwitch(cpu)
    /\ dropped' = dropped \cup {current_proc}
    /\ UNCHANGED <<proc_count, current_proc, phase, tick, spin, view, kind, loaded>>

------------------------------------------------------------------------------
(* What the process on the CPU does.                                       *)

\* It has code to run and is not in panic_with_info's loop.
Executing == phase = "running" /\ cpu.pc # 0 /\ current_proc \notin spin

\* Its own instructions: any register file, with its level and mask kept.
ProcStep ==
    /\ Executing
    /\ \E i \in Images[current_proc] :
         /\ cpu' = IF AtEL0(cpu.pstate)
                   THEN [cpu EXCEPT !.x = i.x, !.pc = i.pc, !.sp_el0 = i.sp]
                   ELSE [cpu EXCEPT !.x = i.x, !.pc = i.pc, !.sp_el1 = i.sp]
         /\ view' = [view EXCEPT ![current_proc] =
                       [x |-> i.x, pc |-> i.pc, sp |-> i.sp, pstate |-> cpu.pstate]]
    /\ dropped' = dropped \ {current_proc}
    /\ UNCHANGED <<table, current_proc, phase, tick, spin, kind, loaded>>

\* Kernel code prints with kprintf: the whole output happens with IRQs
\* masked, and enable_interrupt ends it whatever the mask was before.
kprintf_args ==
    /\ Executing /\ ~AtEL0(cpu.pstate)
    /\ cpu' = [cpu EXCEPT !.pstate = EL1h]
    /\ view' = [view EXCEPT ![current_proc].pstate = EL1h]
    /\ UNCHANGED <<table, current_proc, phase, tick, spin, kind, loaded, dropped>>

\* Kernel code calls panic_with_info (bootscreen does): uart_puthex unmasks
\* IRQs on the way into the endless loop.
panic_with_info ==
    /\ Executing /\ ~AtEL0(cpu.pstate)
    /\ spin' = spin \cup {current_proc}
    /\ cpu' = [cpu EXCEPT !.pstate = EL1h]
    /\ view' = [view EXCEPT ![current_proc].pstate = EL1h]
    /\ UNCHANGED <<table, current_proc, phase, tick, kind, loaded, dropped>>

\* svc with x8 = 3.  The handler's frame is never popped (eret precedes the
\* epilogue), and the x29 it "restores" is its own frame pointer.  Registers a
\* call may overwrite are no longer the process's.
CallClobbered == {"x0", "x1", "x2", "x10", "x11", "x12", "x13", "x14", "x15"}

sync_el0_handler_c ==
    /\ Executing /\ AtEL0(cpu.pstate)
    /\ cpu.sp_el1 >= StackBase(current_proc) + Frame   \* bound: the stack page
    /\ cpu' = [cpu EXCEPT
                 !.x = [r \in Reg |-> IF r \in CallClobbered THEN Junk
                                      ELSE IF r = "x29" THEN cpu.sp_el1 - Frame
                                      ELSE cpu.x[r]],
                 !.sp_el1 = cpu.sp_el1 - Frame]
    /\ view' = [view EXCEPT ![current_proc].x =
                  [r \in Reg |-> IF r \in CallClobbered THEN Junk ELSE @[r]]]
    /\ UNCHANGED <<table, current_proc, phase, tick, spin, kind, loaded, dropped>>

\* Any other exception of a process (another x8, an abort) ends in panic, IRQs
\* masked.
handle_exception ==
    /\ phase = "running" /\ current_proc \notin spin /\ ~Stackless
    /\ phase' = "panicked"
    /\ UNCHANGED <<table, current_proc, cpu, tick, spin, history>>

\* The fetch from address 0 of a slot that was never filled in, or a tick just
\* before it: the prologue of sync_el0_handler_c or irq_el1_handler stores below
\* address 0 and aborts, and so does that of sync_el1_handler from then on,
\* IRQs masked.  handle_exception is never reached.
sync_el1_handler ==
    /\ Stackless
    /\ phase' = "aborting"
    /\ UNCHANGED <<table, current_proc, cpu, tick, spin, history>>

Next ==
    \/ create_kernel_process \/ create_process
    \/ \E k \in Kinds : LoadFails(k)
    \/ LoadIntoFullTable
    \/ start_scheduler \/ timer_init \/ FirstSwitch
    \/ TimerExpires \/ TimerIrq \/ SpuriousIrq
    \/ ProcStep \/ kprintf_args \/ panic_with_info
    \/ sync_el0_handler_c \/ handle_exception \/ sync_el1_handler

\* The timer is hardware that keeps counting, an unmasked pending interrupt
\* is taken, a fetch from address 0 aborts, and start_scheduler is straight-line
\* code.
Fairness ==
    /\ WF_vars(TimerExpires) /\ WF_vars(TimerIrq) /\ WF_vars(sync_el1_handler)
    /\ WF_vars(timer_init) /\ WF_vars(FirstSwitch)

Spec == Init /\ [][Next]_vars /\ Fairness

------------------------------------------------------------------------------
(* Properties.                                                             *)

(***************************************************************************)
(* Shape of the state: in particular proc_count and current_proc index     *)
(* processes[] (scheduler.c), which init_process and switch_proc write     *)
(* into without any further check.                                         *)
(***************************************************************************)
TypeOK ==
    /\ processes \in [Slot -> [ctx : Context, state : ProcState]]
    /\ proc_count \in 0 .. MAX_PROCS
    /\ current_proc \in Slot
    /\ cpu \in Cpu
    /\ phase \in Phase
    /\ tick \in BOOLEAN
    /\ spin \subseteq Slot
    /\ view \in [Slot -> [x : [Reg -> Nat], pc : Nat, sp : Nat, pstate : Nat]]
    /\ kind \in [Slot -> {"none", "kernel", "user"}]
    /\ loaded \in [Slot -> BOOLEAN]
    /\ dropped \subseteq Slot

\* The registers the code reserves for itself: the stub overwrites x10-x15,
\* and restore_context sets x29 to sp.
Reserved == {"x10", "x11", "x12", "x13", "x14", "x15", "x29"}

\* The return from an interrupt without a switch does not bring back x0, x1 and
\* x30 either.
Lost(p) == Reserved \cup (IF p \in dropped THEN {"x0", "x1", "x30"} ELSE {})

\* c holds what process view v computed, outside of the set lost; the stack
\* pointer is compared for EL1 only, where SP_EL1 is the process's own.
Holds(c, v, lost) ==
    /\ c.pc = v.pc
    /\ c.pstate = v.pstate
    /\ \A r \in Reg \ lost : c.x[r] = v.x[r]
    /\ AtEL0(v.pstate) \/ c.sp_el1 = v.sp

(***************************************************************************)
(* The process on the CPU finds its pc, level, interrupt mask, kernel      *)
(* stack pointer and every register outside Reserved as its own code left  *)
(* them, across any number of preemptions, other processes and system      *)
(* calls (irq_el1_asm_handler, save_context, restore_context, switch_proc);*)
(* an interrupt that leads to no switch costs it x0, x1 and x30 besides,   *)
(* and nothing more, also when it is preempted afterwards.                 *)
(***************************************************************************)
ContextIntegrity ==
    phase = "running" => Holds(cpu, view[current_proc], Lost(current_proc))

(***************************************************************************)
(* The slot of every process that is not on the CPU restores to what that  *)
(* process computed, or to its entry point when it has not run: nobody     *)
(* else's interrupt is saved over it.  irq_el1_handler saves into          *)
(* processes[current_proc] even while kernel_main still runs, so this      *)
(* depends on start_scheduler masking IRQs before timer_init.              *)
(***************************************************************************)
SavedContextIntact ==
    \A p \in Slot :
        p < proc_count /\ (phase \in {"running", "panicked", "aborting"} => p # current_proc)
          => Holds(restore_context(processes[p].ctx), view[p], Lost(p))

(***************************************************************************)
(* A process runs at the exception level its loader chose: code of a user  *)
(* process never gets EL1 and a loaded kernel process never drops to EL0,  *)
(* whatever is saved and restored in between (spsr of the two loaders).    *)
(***************************************************************************)
LevelKept ==
    phase = "running" /\ loaded[current_proc] =>
        (AtEL0(cpu.pstate) <=> kind[current_proc] = "user")

(***************************************************************************)
(* Every process that is in the table once scheduling has started gets the *)
(* CPU again and again, unless the kernel panics, a slot that was never    *)
(* filled in ends it, or a kernel process never again unmasks the IRQs it  *)
(* was started without: nothing else keeps a process waiting for ever      *)
(* (switch_proc's round robin driven by the timer, spsr of the loaders).   *)
(***************************************************************************)
EveryProcessRuns ==
    \A p \in Slot :
        (phase = "running" /\ p < proc_count)
          ~> \/ phase \in {"panicked", "aborting"} \/ current_proc = p
             \/ [](Masked(cpu.pstate) /\ kind[current_proc] = "kernel")

------------------------------------------------------------------------------
(* What comments in the code promise and the code does not do.             *)

\* The registers the program on CPU c can see are those of CPU d.
SameRegisters(c, d) ==
    /\ c.x = d.x /\ c.pc = d.pc /\ c.pstate = d.pstate
    /\ IF AtEL0(c.pstate) THEN c.sp_el0 = d.sp_el0 ELSE c.sp_el1 = d.sp_el1

(***************************************************************************)
(* "Save general-purpose registers x1-x30" / "Restore general-purpose      *)
(* registers x1-x30" and "Save SP" (context_switch.S): when the timer      *)
(* preempts a process that has run, the slot it is saved to restores to    *)
(* the registers and the stack pointer it was interrupted with.            *)
(***************************************************************************)
AllRegistersKept ==
    [][ TimerIrq /\ view[current_proc].pc \in {i.pc : i \in Images[current_proc]}
          => SameRegisters(cpu, restore_context(processes'[current_proc].ctx)) ]_vars
==============================================================================
