------------------------------ MODULE KConsole ------------------------------
(***************************************************************************)
(* The kernel console (kconsole.cpp) over the RAM framebuffer: a ring of   *)
(* rows with a scroll offset, drawn cell by cell with a transparent font.  *)
(* A print puts its characters one after the other; kprintf_args runs with *)
(* IRQs masked, so nothing else happens between them.                      *)
(*                                                                         *)
(* A character is its code: a member of Glyphs, 10 for a line feed, or 0,  *)
(* the empty cell.  fb holds, per character cell, the glyphs drawn since   *)
(* it was last cleared.                                                    *)
(***************************************************************************)
EXTENDS Integers, Sequences, FiniteSets

CONSTANTS
    screen_width, screen_height,   \* 1024, 768
    Glyphs,                        \* codes of printable characters
    Texts                          \* what callers print

ASSUME ScreenAssumption == screen_width \in Nat /\ screen_height \in Nat
                           /\ screen_width >= 8 /\ screen_height >= 16
ASSUME GlyphAssumption == Glyphs \subseteq 1 .. 127 /\ 10 \notin Glyphs
ASSUME TextAssumption == Texts \subseteq Seq(Glyphs \cup {10})

\* resize, with char_width = 8 and char_height = 16.
columns == screen_width \div 8
rows == screen_height \div 16
X == 0 .. columns - 1
Y == 0 .. rows - 1

VARIABLES
    gpu_ready,
    use_visual,
    kconsole,      \* the KernelConsole object and the framebuffer it draws on
    str            \* what the print in progress has still to put on the console

vars == <<gpu_ready, use_visual, kconsole, str>>

EmptyRow == [x \in X |-> 0]

\* The constructor of the global object never runs: it starts as zeros.
Init ==
    /\ gpu_ready = FALSE /\ use_visual = TRUE /\ str = <<>>
    /\ kconsole = [is_initialized |-> FALSE, cursor_x |-> 0, cursor_y |-> 0,
                   scroll_row_offset |-> 0,
                   buffer |-> [y \in Y |-> EmptyRow],
                   fb |-> [y \in Y |-> [x \in X |-> {}]]]

------------------------------------------------------------------------------
(* The methods, as functions of the object.                                *)

Drawn(c) == IF c = 0 THEN {} ELSE {c}       \* the glyph of 0 has no pixels

Row(k, y) == (k.scroll_row_offset + y) % rows

screen_clear(k) == [k EXCEPT !.fb = [y \in Y |-> [x \in X |-> {}]]]

redraw(k) ==
    [screen_clear(k) EXCEPT !.fb = [y \in Y |-> [x \in X |-> Drawn(k.buffer[Row(k, y)][x])]]]

clear(k) ==
    [screen_clear(k) EXCEPT !.buffer = [y \in Y |-> EmptyRow],
                            !.cursor_x = 0, !.cursor_y = 0, !.scroll_row_offset = 0]

\* Mutant: the new bottom row keeps what the top row held.
scroll_Unwiped(k) == redraw([k EXCEPT !.scroll_row_offset = (@ + 1) % rows])

\* Mutant: the screen is not redrawn.
scroll_Undrawn(k) ==
    LET moved == [k EXCEPT !.scroll_row_offset = (@ + 1) % rows]
    IN [moved EXCEPT !.buffer[Row(moved, rows - 1)] = EmptyRow]

scroll(k) ==
    LET moved == [k EXCEPT !.scroll_row_offset = (@ + 1) % rows]
    IN redraw([moved EXCEPT !.buffer[Row(moved, rows - 1)] = EmptyRow])

\* Mutant: the cursor stays below the last row.
newline_Below(k) ==
    LET next == [k EXCEPT !.buffer[Row(k, k.cursor_y)] =
                              [x \in X |-> IF x >= k.cursor_x THEN 0 ELSE @[x]],
                          !.cursor_x = 0, !.cursor_y = @ + 1]
    IN IF next.cursor_y >= rows THEN scroll(next) ELSE next

newline(k) ==
    LET next == [k EXCEPT !.buffer[Row(k, k.cursor_y)] =
                              [x \in X |-> IF x >= k.cursor_x THEN 0 ELSE @[x]],
                          !.cursor_x = 0, !.cursor_y = @ + 1]
    IN IF next.cursor_y >= rows THEN [scroll(next) EXCEPT !.cursor_y = rows - 1] ELSE next

put_char(k, c) ==
    LET room == IF k.cursor_x >= columns THEN newline(k) ELSE k
    IN IF c = 10 THEN newline(k)
       ELSE [room EXCEPT !.buffer[Row(room, room.cursor_y)][room.cursor_x] = c,
                         !.fb[room.cursor_y][room.cursor_x] = @ \cup Drawn(c),
                         !.cursor_x = @ + 1]

\* The first call after the GPU is ready sizes and clears the console.
check_ready(k) == IF k.is_initialized THEN k ELSE clear([k EXCEPT !.is_initialized = TRUE])

------------------------------------------------------------------------------
\* Nothing is being printed.
Idle == str = <<>>

gpu_init ==
    /\ Idle /\ ~gpu_ready
    /\ gpu_ready' = TRUE
    /\ UNCHANGED <<use_visual, kconsole, str>>

\* puts the text, putc the line feed; put_string gets the console ready first.
kprintf_args_raw(text) ==
    /\ Idle
    /\ IF use_visual /\ gpu_ready
       THEN kconsole' = check_ready(kconsole) /\ str' = Append(text, 10)
       ELSE UNCHANGED <<kconsole, str>>
    /\ UNCHANGED <<gpu_ready, use_visual>>

\* One turn of the loop of put_string, and at the end putc's character.
put_string ==
    /\ ~Idle
    /\ kconsole' = put_char(kconsole, Head(str))
    /\ str' = Tail(str)
    /\ UNCHANGED <<gpu_ready, use_visual>>

\* clear does not check; before the first print there are no rows to clear.
kconsole_clear ==
    /\ Idle
    /\ kconsole' = IF ~gpu_ready THEN kconsole
                   ELSE IF kconsole.is_initialized THEN clear(kconsole)
                   ELSE screen_clear(kconsole)
    /\ UNCHANGED <<gpu_ready, use_visual, str>>

\* The bootscreen process takes the screen over.
bootscreen ==
    /\ Idle /\ gpu_ready
    /\ use_visual' = FALSE
    /\ kconsole' = screen_clear(kconsole)
    /\ UNCHANGED <<gpu_ready, str>>

Next ==
    \/ gpu_init
    \/ (\E text \in Texts : kprintf_args_raw(text)) \/ put_string
    \/ kconsole_clear
    \/ bootscreen

Spec == Init /\ [][Next]_vars

------------------------------------------------------------------------------
(* Properties.                                                             *)

(***************************************************************************)
(* The cursor never leaves the rows, so every buffer access of put_char,   *)
(* newline and scroll is in bounds (cursor_x = columns is a pending wrap). *)
(***************************************************************************)
TypeOK ==
    /\ gpu_ready \in BOOLEAN /\ use_visual \in BOOLEAN
    /\ str \in Seq(Glyphs \cup {10})
    /\ kconsole.is_initialized \in BOOLEAN
    /\ kconsole.cursor_x \in 0 .. columns /\ kconsole.cursor_y \in Y
    /\ kconsole.scroll_row_offset \in Y
    /\ kconsole.buffer \in [Y -> [X -> Glyphs \cup {0}]]
    /\ kconsole.fb \in [Y -> [X -> SUBSET Glyphs]]

(***************************************************************************)
(* The screen shows the buffer: each cell shows its character and nothing  *)
(* of an earlier one, although put_char draws only one transparent glyph,  *)
(* newline draws nothing, and scroll moves rows by their offset alone.     *)
(***************************************************************************)
ScreenShowsBuffer ==
    use_visual => \A y \in Y, x \in X :
        kconsole.fb[y][x] = Drawn(kconsole.buffer[Row(kconsole, y)][x])

\* The text of a row: its characters, which stand before its zeros.
TextOf(row) == LET n == Cardinality({x \in X : row[x] # 0})
               IN [i \in 1 .. n |-> row[i - 1]]

Term == INSTANCE Terminal WITH
            Rows <- rows, Columns <- columns, input <- str,
            on <- kconsole.is_initialized,
            lines <- IF kconsole.is_initialized
                     THEN [i \in 1 .. kconsole.cursor_y + 1 |->
                               TextOf(kconsole.buffer[Row(kconsole, i - 1)])]
                     ELSE <<>>

(***************************************************************************)
(* The ring of rows with its scroll offset implements a terminal that      *)
(* keeps the last rows lines of what was printed.                          *)
(***************************************************************************)
IsTerminal == Term!Spec
=============================================================================
