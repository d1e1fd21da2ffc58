----------------------------- MODULE MCKConsole -----------------------------
(* Instances of KConsole for TLC. *)
EXTENDS KConsole

\* Empty, shorter than a row of three, a row, more than a row, with line feeds.
MCTexts == {<<>>, <<97>>, <<98, 97>>, <<97, 98, 98>>, <<98, 98, 98, 97>>,
            <<98, 10, 97>>, <<97, 97, 98, 10>>, <<98, 97, 98, 97, 98, 97>>}
=============================================================================
