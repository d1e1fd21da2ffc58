------------------------------ MODULE KString ------------------------------
(***************************************************************************)
(* kstring.c: comparing and measuring strings.  A string is the sequence   *)
(* of its characters without the final 0.                                  *)
(***************************************************************************)
EXTENDS Calls, Integers, Sequences

CONSTANT Texts    \* strings that are compared

CharAt(s, n) == IF n <= Len(s) THEN s[n] ELSE 0

\* The loop goes on to place n: both strings have agreed so far.
Agree(a, b, n) == \A m \in 1 .. n - 1 : CharAt(a, m) # 0 /\ CharAt(a, m) = CharAt(b, m)

\* Mutant: the end of the first string decides.
strcmp_Prefix(a, b) ==
    \E n \in 1 .. Len(a) : Agree(a, b, n) /\ CharAt(a, n) # CharAt(b, n)

\* The difference of the characters where the loop stops, as a bool.
strcmp(a, b) ==
    \E n \in 1 .. Len(a) + 1 : Agree(a, b, n) /\ CharAt(a, n) # CharAt(b, n)

string_equals(a, b) == ~strcmp(a, b)

\* From every place of a, both strings as far as they agree.
strcont(a, b) ==
    \E n \in 1 .. Len(a) :
        LET agreed == CHOOSE k \in 0 .. Len(b) :
                        /\ \A m \in 1 .. k : CharAt(a, n + m - 1) = b[m]
                        /\ k = Len(b) \/ CharAt(a, n + k) # b[k + 1]
        IN  agreed = Len(b)

\* Up to max_length characters, or all of them for 0.
compute_length(s, max_length) ==
    IF max_length = 0 \/ Len(s) < max_length THEN Len(s) ELSE max_length

string_l(literal) == [data |-> literal, length |-> compute_length(literal, 0)]
string_ca_max(array, max_length) ==
    [data |-> array, length |-> compute_length(array, max_length)]

------------------------------------------------------------------------------
(* Calls.                                                                  *)

ASSUME TextsAssumption == \A t \in Texts : t \in Seq(Nat \ {0})

Compare ==
    Free /\ \E a \in Texts, b \in Texts :
        Compute("compare", [a |-> a, b |-> b],
                [equal |-> string_equals(a, b), cont |-> strcont(a, b),
                 lengths |-> [n \in 1 .. Len(a) + 1 |-> string_ca_max(a, n).length]])

(***************************************************************************)
(* string_equals says that two strings are equal exactly if they are,      *)
(* prefixes of each other included, strcont finds a part at any place of a *)
(* string, and string_ca_max stops at both of its limits.                  *)
(***************************************************************************)
StringsCompared ==
    Returned("compare") =>
        /\ out.equal = (in.a = in.b)
        /\ in.a # <<>> =>
             out.cont = \E n \in 0 .. Len(in.a) - Len(in.b) :
                          in.b = [m \in 1 .. Len(in.b) |-> in.a[n + m]]
        /\ \A n \in 1 .. Len(in.a) + 1 : \/ out.lengths[n] = n /\ n <= Len(in.a)
                                         \/ out.lengths[n] = Len(in.a) /\ Len(in.a) <= n

StringsSpec == CallsInit /\ [][Compare \/ Return]_call
=============================================================================
