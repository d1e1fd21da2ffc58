------------------------------ MODULE Terminal ------------------------------
(***************************************************************************)
(* What the kernel console promises: once it is on, it keeps the last Rows *)
(* lines of what was printed, wrapped at Columns.  10 is the line feed.    *)
(***************************************************************************)
EXTENDS Integers, Sequences

CONSTANTS Rows, Columns, Texts

VARIABLES on, lines, input

vars == <<on, lines, input>>

Blank == << <<>> >>

Feed(ls) == LET all == Append(ls, <<>>)
            IN SubSeq(all, IF Len(all) > Rows THEN Len(all) - Rows + 1 ELSE 1, Len(all))

Type(ls, c) ==
    LET room == IF Len(ls[Len(ls)]) = Columns THEN Feed(ls) ELSE ls
    IN IF c = 10 THEN Feed(ls)
       ELSE [room EXCEPT ![Len(room)] = Append(@, c)]

Init == on = FALSE /\ lines = <<>> /\ input = <<>>

\* One kprintf: the text and a line feed, character by character.
Show(text) ==
    /\ input = <<>> /\ input' = Append(text, 10)
    /\ on' = TRUE /\ lines' = IF on THEN lines ELSE Blank

Put ==
    /\ input # <<>> /\ input' = Tail(input)
    /\ lines' = Type(lines, Head(input))
    /\ UNCHANGED on

Clear == on /\ input = <<>> /\ lines' = Blank /\ UNCHANGED <<on, input>>

Next == Clear \/ Put \/ \E text \in Texts : Show(text)

Spec == Init /\ [][Next]_vars
=============================================================================
