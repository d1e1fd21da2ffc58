---------------------------- MODULE MCScheduler ----------------------------
(* Small instances of Scheduler for TLC.                                    *)
EXTENDS Scheduler, Sequences

RegOrder == <<"x0", "x1", "x2", "x10", "x11", "x12", "x13", "x14", "x15",
              "x19", "x29", "x30">>

\* A register file in which every register, pc and sp differ from each other,
\* from those of every other image and from all other values of the model.
Image(n) ==
    [x  |-> [r \in Reg |-> 100 * n + CHOOSE i \in 1 .. Len(RegOrder) : RegOrder[i] = r],
     pc |-> 100 * n + 50,
     sp |-> 100 * n + 60]

\* The processes compute different values, so that no mix-up goes unseen.
OwnImages == [p \in Slot |-> {Image(20 + p)}]
=============================================================================
