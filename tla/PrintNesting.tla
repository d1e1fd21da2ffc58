---------------------------- MODULE PrintNesting ----------------------------
(***************************************************************************)
(* What one kprintf calls: kprintf_args masks IRQs, prints to the console  *)
(* and unmasks them, kprintf_args_raw only prints; the console clears the  *)
(* screen through gpu_clear when it starts and when it scrolls; and        *)
(* vgp_clear prints.  The call stack is a variable, top last.  A text fits *)
(* its row, so a print ends one line.  Boot composes these actions with    *)
(* the code that prints.                                                   *)
(***************************************************************************)
EXTENDS Integers, Sequences

CONSTANTS
    rows,         \* 48 on the 768-line screen
    StackFrames   \* nested calls the kernel stack holds

ASSUME RowsAssumption == rows \in Nat \ {0}
ASSUME StackAssumption == StackFrames \in Nat

VARIABLES
    stack, masked,
    use_visual,   \* kio.c: print to the console too
    chosen_GPU,   \* "NONE", "VIRTIO_GPU_PCI" or "RAMFB"
    is_initialized, cursor_y, overflowed

printVars == <<stack, masked, use_visual, chosen_GPU, is_initialized, cursor_y, overflowed>>
screen == <<use_visual, chosen_GPU>>

\* kprintf_args or kprintf_args_raw, by what it does next.
Printing(at, raw) == [fn |-> "kprintf", at |-> at, raw |-> raw, left |-> 0]
\* gpu_clear, by the prints its driver has still to make.
Clearing(left) == [fn |-> "gpu_clear", at |-> "print", raw |-> FALSE, left |-> left]

\* rfb_clear prints nothing.  vgp_clear prints once, then transfers (two
\* prints) and flushes (a transfer and two more).
gpu_clear == Clearing(IF chosen_GPU = "VIRTIO_GPU_PCI" THEN 7 ELSE 0)

\* Nothing is being printed.
Idle == stack = <<>> /\ ~overflowed

PrintInit ==
    /\ stack = <<>> /\ masked = TRUE
    /\ use_visual = TRUE /\ chosen_GPU = "NONE"
    /\ is_initialized = FALSE /\ cursor_y = 0 /\ overflowed = FALSE

Top == stack[Len(stack)]
Below == SubSeq(stack, 1, Len(stack) - 1)
In(fn, at) == ~overflowed /\ stack # <<>> /\ Top.fn = fn /\ Top.at = at
Now(at) == Append(Below, Printing(at, Top.raw))

\* A call on top of frames: a new frame, if the stack holds it.
Push(frames, frame) ==
    IF Len(frames) < StackFrames
    THEN stack' = Append(frames, frame) /\ UNCHANGED overflowed
    ELSE overflowed' = TRUE /\ UNCHANGED stack

------------------------------------------------------------------------------
\* kprintf_args: disable_interrupt.
Enter(frames) ==
    /\ Push(frames, Printing("text", FALSE))
    /\ masked' = TRUE
    /\ UNCHANGED <<screen, is_initialized, cursor_y>>

EnterRaw(frames) ==
    /\ Push(frames, Printing("text", TRUE))
    /\ UNCHANGED <<masked, screen, is_initialized, cursor_y>>

\* puts and putc: the serial line always, the console when it is in use.
Visible == use_visual /\ chosen_GPU # "NONE"

SerialOnly ==
    /\ In("kprintf", "text") /\ ~Visible
    /\ stack' = Now("return")
    /\ UNCHANGED <<masked, screen, is_initialized, cursor_y, overflowed>>

\* Mutant: the console is taken for initialised only after it was cleared.
check_ready_Late ==
    /\ In("kprintf", "text") /\ Visible
    /\ ~is_initialized
    /\ Push(Now("cleared"), gpu_clear)
    /\ UNCHANGED <<masked, screen, is_initialized, cursor_y>>

\* check_ready: the first print clears the console.
check_ready ==
    /\ In("kprintf", "text") /\ Visible
    /\ ~is_initialized
    /\ is_initialized' = TRUE
    /\ Push(Now("cleared"), gpu_clear)
    /\ UNCHANGED <<masked, screen, cursor_y>>

\* The rest of clear, after gpu_clear.
clear ==
    /\ In("kprintf", "cleared")
    /\ cursor_y' = 0
    /\ stack' = Now("text")
    /\ UNCHANGED <<masked, screen, is_initialized, overflowed>>

\* newline: scroll is called before cursor_y is brought back into the rows.
newline ==
    /\ In("kprintf", "text") /\ Visible
    /\ is_initialized
    /\ cursor_y' = cursor_y + 1
    /\ IF cursor_y + 1 >= rows
       THEN Push(Now("scrolled"), gpu_clear)
       ELSE stack' = Now("return") /\ UNCHANGED overflowed
    /\ UNCHANGED <<masked, screen, is_initialized>>

scroll_return ==
    /\ In("kprintf", "scrolled")
    /\ cursor_y' = rows - 1
    /\ stack' = Now("return")
    /\ UNCHANGED <<masked, screen, is_initialized, overflowed>>

\* kprintf_args: enable_interrupt.
Leave ==
    /\ In("kprintf", "return")
    /\ masked' = (Top.raw /\ masked)
    /\ stack' = Below
    /\ UNCHANGED <<screen, is_initialized, cursor_y, overflowed>>

\* The next print of vgp_clear, or the return of gpu_clear.
Driver ==
    /\ In("gpu_clear", "print")
    /\ IF Top.left > 0 THEN Enter(Append(Below, Clearing(Top.left - 1)))
                       ELSE stack' = Below
                            /\ UNCHANGED <<masked, screen, is_initialized, cursor_y, overflowed>>

PrintStep ==
    \/ SerialOnly \/ check_ready \/ clear \/ newline \/ scroll_return
    \/ Leave \/ Driver

------------------------------------------------------------------------------
(* Properties.                                                             *)

\* Frames of kprintf_args, which disables and enables interrupts.
Masking(frame) == frame.fn = "kprintf" /\ ~frame.raw

(***************************************************************************)
(* kprintf_args: "IRQs are disabled during the execution of this function  *)
(* to prevent context switches that could interfere with the formatted     *)
(* output".  With the VirtIO GPU the prints of vgp_clear, inside the print *)
(* that clears the screen, end its masked section.                         *)
(***************************************************************************)
MaskedWhilePrinting == (\E n \in 1 .. Len(stack) : Masking(stack[n])) => masked

(***************************************************************************)
(* A print returns, with whatever it clears, scrolls and logs, and leaves  *)
(* the cursor on a row.  The one exception is a scroll with the VirtIO     *)
(* GPU: newline calls vgp_clear, which prints, before the cursor is back   *)
(* on a row, so that the print inside scrolls again until the stack is     *)
(* full.                                                                   *)
(***************************************************************************)
PrintReturns ==
    stack # <<>> ~>
      \/ stack = <<>> /\ cursor_y < rows
      \/ overflowed /\ chosen_GPU = "VIRTIO_GPU_PCI" /\ cursor_y >= rows
=============================================================================
