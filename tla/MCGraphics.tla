----------------------------- MODULE MCGraphics -----------------------------
(* Instances of Graphics for TLC. *)
EXTENDS Graphics

Either == {TRUE, FALSE}
Yes == {TRUE}
No == {FALSE}

Other(n) == [name |-> "opt/other", selector |-> 40 + n]
TheRamfb == [name |-> Ramfb, selector |-> 32]

\* ramfb at each place of directories of up to MaxEntries files.
MaxEntries == 5
With == UNION {{[n \in 1 .. len |-> IF n = at THEN TheRamfb ELSE Other(n)] : at \in 1 .. len} :
               len \in 1 .. MaxEntries}
Without == {[n \in 1 .. len |-> Other(n)] : len \in 0 .. MaxEntries}
Any == With \cup Without
OneWithout == {<<Other(1)>>}

MCGarbage == {0, 7}
MCCounts == {0, 3}
Zero == {0}
=============================================================================
