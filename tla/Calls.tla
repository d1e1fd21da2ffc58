------------------------------- MODULE Calls -------------------------------
(***************************************************************************)
(* The last call of a routine that has no state of its own: the function,  *)
(* its input, what it has computed and whether it has returned.  A routine *)
(* whose loop carries something from one turn to the next takes one step   *)
(* per turn.                                                               *)
(***************************************************************************)
VARIABLE call

None == [fn |-> "none", in |-> 0, out |-> 0, over |-> TRUE]
CallsInit == call = None

Free == call.fn = "none"
Begin(fn, in, out) == call' = [fn |-> fn, in |-> in, out |-> out, over |-> FALSE]
Compute(fn, in, out) == call' = [fn |-> fn, in |-> in, out |-> out, over |-> TRUE]
Running(fn) == call.fn = fn /\ ~call.over
Continue(out, over) == call' = [fn |-> call.fn, in |-> call.in, out |-> out, over |-> over]
Returned(fn) == call.fn = fn /\ call.over
in == call.in
out == call.out

Return == ~Free /\ call.over /\ call' = None
=============================================================================
