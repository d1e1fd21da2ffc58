---------------------------- MODULE ContextSwitch ----------------------------
(***************************************************************************)
(* What the interrupt entry code and the context switch do to the machine  *)
(* registers: exception_vectors_as.S and process/context_switch.S, as      *)
(* operators on a register file.                                           *)
(*                                                                         *)
(* "x2" stands for x2-x9 and x16-x18, "x19" for x19-x28: the code moves    *)
(* the registers of one class in the same way, and the ABI lets a call     *)
(* overwrite all of the first and none of the second.                      *)
(***************************************************************************)
EXTENDS Naturals

CONSTANT Junk  \* what the compiled C of a handler leaves in a register

ASSUME JunkAssumption == Junk \in Nat

Reg == {"x0", "x1", "x2", "x10", "x11", "x12", "x13", "x14", "x15",
        "x19", "x29", "x30"}

\* process_t.regs has a slot for x1-x30 and none for x0.
SavedReg == Reg \ {"x0"}

\* The PSTATE values the code uses: 0 in create_process, 0x3C5 in
\* create_kernel_process, and 0x345, which is 0x3C5 after "msr daifclr, #2".
EL0t == 0
EL1hMasked == 965
EL1h == 837
PState == {EL0t, EL1hMasked, EL1h}

Masked(pstate) == pstate = EL1hMasked
AtEL0(pstate) == pstate = EL0t

Context == [regs : [SavedReg -> Nat], sp : Nat, pc : Nat, spsr : Nat]

Cpu == [x : [Reg -> Nat], pc : Nat, sp_el0 : Nat, sp_el1 : Nat, pstate : Nat]

ZeroContext == [regs |-> [r \in SavedReg |-> 0], sp |-> 0, pc |-> 0, spsr |-> 0]

\* Mutant: the stub forgets "mrs x10, spsr_el1".
irq_el1_asm_handler_NoSpsr(c) ==
    [c.x EXCEPT !["x15"] = c.x["x0"], !["x14"] = c.x["x1"],
                !["x13"] = c.x["x29"], !["x12"] = c.x["x30"],
                !["x11"] = c.sp_el1]

(***************************************************************************)
(* The vector stub.  Exception entry has selected SP_EL1, so "mov x11, sp" *)
(* reads sp_el1 whatever level was interrupted.                            *)
(***************************************************************************)
irq_el1_asm_handler(c) ==
    [c.x EXCEPT !["x15"] = c.x["x0"], !["x14"] = c.x["x1"],
                !["x13"] = c.x["x29"], !["x12"] = c.x["x30"],
                !["x11"] = c.sp_el1, !["x10"] = c.pstate]

\* irq_el1_handler's compiled prologue and the address computation of
\* save_context_registers use x0, x1, x29 and x30 before save_context runs.
CompiledCall(x) ==
    [x EXCEPT !["x0"] = Junk, !["x1"] = Junk, !["x29"] = Junk, !["x30"] = Junk]

save_context(x, ctx) ==
    [ctx EXCEPT !.regs = [r \in SavedReg |-> x[r]],
                !.sp = x["x11"], !.spsr = x["x10"]]

save_pc_interrupt(elr, ctx) == [ctx EXCEPT !.pc = elr]

\* Both saves of irq_el1_handler, into the slot ctx.
SaveInterrupted(c, ctx) ==
    save_pc_interrupt(c.pc, save_context(CompiledCall(irq_el1_asm_handler(c)), ctx))

\* Mutant: without the final "mov x30, x12".
restore_context_StaleLink(ctx) ==
    [x |-> [r \in Reg |->
              CASE r = "x0"  -> ctx.regs["x15"]
                [] r = "x1"  -> ctx.regs["x14"]
                [] r = "x29" -> ctx.sp
                [] r = "x11" -> ctx.pc
                [] OTHER     -> ctx.regs[r]],
     pc |-> ctx.pc, sp_el0 |-> ctx.sp, sp_el1 |-> ctx.sp, pstate |-> ctx.spsr]

restore_context(ctx) ==
    [x |-> [r \in Reg |->
              CASE r = "x0"  -> ctx.regs["x15"]
                [] r = "x1"  -> ctx.regs["x14"]
                [] r = "x30" -> ctx.regs["x12"]
                [] r = "x29" -> ctx.sp
                [] r = "x11" -> ctx.pc
                [] OTHER     -> ctx.regs[r]],
     pc |-> ctx.pc, sp_el0 |-> ctx.sp, sp_el1 |-> ctx.sp, pstate |-> ctx.spsr]

(***************************************************************************)
(* The "eret" after irq_el1_handler returned without a switch: sp and x29  *)
(* are the C epilogue's, the registers the stub moved are not moved back.  *)
(***************************************************************************)
EretWithoutSwitch(c) ==
    [c EXCEPT !.x = [irq_el1_asm_handler(c) EXCEPT
                        !["x0"] = Junk, !["x1"] = Junk, !["x30"] = Junk]]
==============================================================================
