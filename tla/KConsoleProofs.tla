--------------------------- MODULE KConsoleProofs ---------------------------
(***************************************************************************)
(* Proofs about KConsole for every size of the screen, every set of glyphs *)
(* and all texts: the cursor stays on the screen, the screen shows the     *)
(* buffer after every character, and the ring of rows is a terminal.       *)
(***************************************************************************)
EXTENDS KConsole, FiniteSetTheorems, SequenceTheorems, TLAPS

------------------------------------------------------------------------------
(* The ring of rows.                                                       *)

(***************************************************************************)
(* A number less than one, or than two, turns of the ring past its start.  *)
(***************************************************************************)
LEMMA Turn ==
    ASSUME NEW r \in Nat \ {0}, NEW a \in Nat
    PROVE  /\ a < r => a % r = a
           /\ r <= a /\ a < 2 * r => a % r = a - r
<1>1. ASSUME NEW q \in Nat, NEW s \in 0 .. r - 1
      PROVE  (q * r + s) % r = s
  BY <1>1, SMT
<1>2. a < r => (0 * r + a) % r = a
  BY <1>1
<1>3. r <= a /\ a < 2 * r => (1 * r + (a - r)) % r = a - r
  BY <1>1
<1> QED
  BY <1>2, <1>3

(***************************************************************************)
(* The screen has at least one row and one column.                         *)
(***************************************************************************)
LEMMA Sizes == rows \in Nat \ {0} /\ columns \in Nat \ {0}
BY ScreenAssumption, SMT DEF rows, columns

Ring(o, y) == (o + y) % rows

(***************************************************************************)
(* Which row of the buffer is shown at a row of the screen: each is shown  *)
(* once, and one step of the scroll offset moves all of them up by one and *)
(* the first one to the bottom.                                            *)
(***************************************************************************)
LEMMA RingRows ==
    ASSUME NEW o \in Y, NEW y \in Y
    PROVE  /\ Ring(o, y) \in Y
           /\ \A z \in Y : Ring(o, z) = Ring(o, y) => z = y
           /\ (o + 1) % rows \in Y
           /\ y + 1 < rows => Ring((o + 1) % rows, y) = Ring(o, y + 1)
           /\ Ring((o + 1) % rows, rows - 1) = Ring(o, 0)
<1>0. PICK R : R = rows
  OBVIOUS
<1>r. R \in Nat \ {0} /\ o \in 0 .. R - 1 /\ y \in 0 .. R - 1 /\ Y = 0 .. R - 1
  BY <1>0, Sizes DEF Y
<1>1. \A a \in Nat : (a < R => a % R = a) /\ (R <= a /\ a < 2 * R => a % R = a - R)
  BY <1>r, Turn, Zenon
<1>2. \A z \in 0 .. R : (o + z) % R = IF o + z < R THEN o + z ELSE o + z - R
  BY <1>1, <1>r
<1>3. PICK p : p = (o + 1) % R
  OBVIOUS
<1>4. p = IF o + 1 < R THEN o + 1 ELSE 0
  <2>1. 1 \in 0 .. R
    BY <1>r
  <2>2. p = IF o + 1 < R THEN o + 1 ELSE o + 1 - R
    BY <1>2, <1>3, <2>1, Zenon
  <2> QED
    BY ONLY <1>r, <2>2
<1>p. p \in 0 .. R - 1
  BY ONLY <1>r, <1>4
<1>5. \A z \in 0 .. R - 1 : (p + z) % R = IF p + z < R THEN p + z ELSE p + z - R
  BY ONLY <1>1, <1>p, <1>r
<1>6. (o + y) % R \in Y /\ \A z \in Y : (o + z) % R = (o + y) % R => z = y
  BY <1>2, <1>r
<1>7. y + 1 < R => (p + y) % R = (o + (y + 1)) % R
  <2> SUFFICES ASSUME y + 1 < R PROVE (p + y) % R = (o + (y + 1)) % R
    OBVIOUS
  <2>1. PICK u, v, z : u = (p + y) % R /\ v = (o + z) % R /\ z = y + 1
    BY Zenon
  <2>2. z \in 0 .. R /\ y \in 0 .. R - 1
    BY <1>r, <2>1
  <2>3. /\ u = IF p + y < R THEN p + y ELSE p + y - R
        /\ v = IF o + z < R THEN o + z ELSE o + z - R
    BY <1>2, <1>5, <2>1, <2>2, Zenon
  <2>4. z = y + 1
    BY <2>1, Zenon
  <2>5. u = v
    BY ONLY <1>4, <1>r, <2>2, <2>3, <2>4
  <2> QED
    BY <2>1, <2>5, Zenon
<1>8. (p + (R - 1)) % R = (o + 0) % R
  <2>1. (p + (R - 1)) % R = IF p + (R - 1) < R THEN p + (R - 1) ELSE p + (R - 1) - R
    BY <1>5, <1>r
  <2>2. o % R = o /\ o + 0 = o
    BY <1>1, <1>r
  <2>3. (o + 0) % R = o
    BY <2>2, Zenon
  <2> QED
    BY <1>4, <1>r, <2>1, <2>3
<1> QED
  BY <1>0, <1>r, <1>3, <1>4, <1>6, <1>7, <1>8, SMTT(30) DEF Ring

(***************************************************************************)
(* Two rows of the screen never show the same row of the buffer.           *)
(***************************************************************************)
LEMMA RowsApart ==
    \A o \in Y, y \in Y :
        Ring(o, y) \in Y /\ \A z \in Y : Ring(o, z) = Ring(o, y) => z = y
<1> TAKE o \in Y, y \in Y
<1> QED
  BY RingRows, Zenon

------------------------------------------------------------------------------
(* What the methods make of the object.                                    *)

Buffers == [Y -> [X -> Glyphs \cup {0}]]
Screens == [Y -> [X -> SUBSET Glyphs]]

\* The object; inside newline the cursor is below the last row for a moment.
Object == [is_initialized : BOOLEAN, cursor_x : 0 .. columns, cursor_y : 0 .. rows,
           scroll_row_offset : Y, buffer : Buffers, fb : Screens]

\* The row of the buffer that is shown at a row of the screen.
Line(k, y) == k.buffer[Row(k, y)]

\* What the screen should show.
Picture(k) == [y \in Y |-> [x \in X |-> Drawn(Line(k, y)[x])]]

(***************************************************************************)
(* scroll turns the ring, wipes the row that comes to the bottom and draws *)
(* the screen anew.                                                        *)
(***************************************************************************)
LEMMA ScrollFields ==
    ASSUME NEW k \in Object
    PROVE  /\ scroll(k).is_initialized = k.is_initialized
           /\ scroll(k).cursor_x = k.cursor_x
           /\ scroll(k).cursor_y = k.cursor_y
           /\ scroll(k).scroll_row_offset = (k.scroll_row_offset + 1) % rows
           /\ scroll(k).buffer = [k.buffer EXCEPT ![Ring((k.scroll_row_offset + 1) % rows, rows - 1)] = EmptyRow]
           /\ scroll(k).fb = Picture(scroll(k))
BY DEF Object, scroll, redraw, screen_clear, Row, Ring, Line, Picture

(***************************************************************************)
(* A drawn buffer is a screen.                                             *)
(***************************************************************************)
LEMMA Pictures ==
    ASSUME NEW k, k.buffer \in Buffers, k.scroll_row_offset \in Y
    PROVE  /\ Picture(k) \in Screens
           /\ \A y \in Y : Line(k, y) \in [X -> Glyphs \cup {0}]
<1>1. \A y \in Y : Line(k, y) \in [X -> Glyphs \cup {0}]
  BY RowsApart, Zenon DEF Line, Row, Ring, Buffers
<1>2. \A y \in Y, x \in X : Drawn(Line(k, y)[x]) \in SUBSET Glyphs
  BY <1>1 DEF Drawn
<1> QED
  BY <1>1, <1>2 DEF Picture, Screens

(***************************************************************************)
(* Seen from the screen, scroll moves every line up by one and leaves the  *)
(* last one empty.                                                         *)
(***************************************************************************)
LEMMA ScrollLines ==
    ASSUME NEW k \in Object
    PROVE  /\ scroll(k) \in Object
           /\ \A y \in Y : Line(scroll(k), y) = IF y + 1 < rows THEN Line(k, y + 1) ELSE EmptyRow
<1> DEFINE s == scroll(k)
           o == k.scroll_row_offset
           p == (o + 1) % rows
           b == [k.buffer EXCEPT ![Ring(p, rows - 1)] = EmptyRow]
<1>0. o \in Y /\ k.buffer \in Buffers
  BY DEF Object
<1>1. rows - 1 \in Y
  BY Sizes DEF Y
<1>2. p \in Y /\ Ring(p, rows - 1) \in Y
  <2>1. p \in Y
    BY <1>0, <1>1, RingRows
  <2> QED
    BY <2>1, <1>1, RingRows, Zenon
<1>3. EmptyRow \in [X -> Glyphs \cup {0}]
  BY DEF EmptyRow
<1>4. b \in Buffers
  BY <1>0, <1>2, <1>3 DEF Buffers
<1>5. s.scroll_row_offset = p /\ s.buffer = b /\ s.fb = Picture(s)
  BY ScrollFields
<1>6. s.fb \in Screens
  BY <1>2, <1>4, <1>5, Pictures
<1>7. s \in Object
  <2> DEFINE moved == [k EXCEPT !.scroll_row_offset = p]
             wiped == [moved EXCEPT !.buffer = b]
  <2>1. moved \in Object
    BY <1>2 DEF Object
  <2>2. wiped \in Object
    <3> HIDE DEF moved, b
    <3> QED
      BY <1>4, <2>1 DEF Object
  <2>3. s = [[wiped EXCEPT !.fb = [y \in Y |-> [x \in X |-> {}]]] EXCEPT !.fb = s.fb]
    BY DEF Object, scroll, redraw, screen_clear, Row, Ring
  <2> HIDE DEF s, wiped
  <2> QED
    BY <1>6, <2>2, <2>3, Zenon DEF Object
<1>8. ASSUME NEW y \in Y
      PROVE  Line(s, y) = IF y + 1 < rows THEN Line(k, y + 1) ELSE EmptyRow
  <2>1. Line(s, y) = b[Ring(p, y)]
    BY <1>5 DEF Line, Row, Ring
  <2>2. Ring(p, y) \in Y /\ (Ring(p, y) = Ring(p, rows - 1) <=> y = rows - 1)
    BY <1>1, <1>2, RowsApart, Zenon
  <2>3. CASE y + 1 < rows
    <3>1. y # rows - 1
      BY <2>3, Sizes DEF Y
    <3>2. Ring(p, y) = Ring(o, y + 1)
      BY <1>0, <2>3, RingRows
    <3> QED
      BY <1>0, <2>1, <2>2, <2>3, <3>1, <3>2 DEF Line, Row, Ring, Buffers
  <2>4. CASE ~(y + 1 < rows)
    <3>1. y = rows - 1
      BY <2>4, Sizes DEF Y
    <3> QED
      BY <1>0, <1>2, <2>1, <2>4, <3>1 DEF Buffers
  <2> QED
    BY <2>3, <2>4
<1> QED
  BY <1>7, <1>8

\* Between two characters the cursor is on a row.
Console == {k \in Object : k.cursor_y \in Y}

\* The row holds n characters, and nothing after them.
Holds(row, n) == \A x \in X : row[x] # 0 <=> x < n

\* Every line is a text, the cursor's ends at the cursor, and none follows it.
Filled(k) ==
    /\ \A y \in Y : \E n \in 0 .. columns : Holds(Line(k, y), n)
    /\ Holds(Line(k, k.cursor_y), k.cursor_x)
    /\ \A y \in Y : y > k.cursor_y => Line(k, y) = EmptyRow

\* newline's object before it scrolls.
Down(k) == [k EXCEPT !.buffer[Row(k, k.cursor_y)] =
                         [x \in X |-> IF x >= k.cursor_x THEN 0 ELSE @[x]],
                     !.cursor_x = 0, !.cursor_y = @ + 1]

(***************************************************************************)
(* What newline wipes behind the cursor is empty already.                  *)
(***************************************************************************)
LEMMA DownFields ==
    ASSUME NEW k \in Console, Filled(k)
    PROVE  /\ Down(k) \in Object
           /\ Down(k).is_initialized = k.is_initialized
           /\ Down(k).cursor_x = 0 /\ Down(k).cursor_y = k.cursor_y + 1
           /\ Down(k).scroll_row_offset = k.scroll_row_offset
           /\ Down(k).buffer = k.buffer /\ Down(k).fb = k.fb
<1> DEFINE row == k.buffer[Row(k, k.cursor_y)]
           wiped == [x \in X |-> IF x >= k.cursor_x THEN 0 ELSE row[x]]
<1>0. /\ k \in Object /\ k.cursor_y \in Y /\ k.cursor_x \in 0 .. columns
      /\ k.scroll_row_offset \in Y /\ k.buffer \in Buffers
  BY DEF Console, Object
<1>1. Row(k, k.cursor_y) \in Y
  BY <1>0, RowsApart, Zenon DEF Row, Ring
<1>2. row \in [X -> Glyphs \cup {0}]
  BY <1>0, <1>1 DEF Buffers
<1>3. \A x \in X : x >= k.cursor_x => row[x] = 0
  BY <1>0, Sizes DEF Filled, Holds, Line, X
<1>4. wiped = row
  BY <1>2, <1>3
<1>5. [k.buffer EXCEPT ![Row(k, k.cursor_y)] = wiped] = k.buffer
  <2> HIDE DEF wiped
  <2> QED
    BY <1>0, <1>1, <1>4 DEF Buffers
<1>6. Down(k) = [k EXCEPT !.buffer = [k.buffer EXCEPT ![Row(k, k.cursor_y)] = wiped],
                          !.cursor_x = 0, !.cursor_y = k.cursor_y + 1]
  BY <1>0 DEF Down, Object
<1> HIDE DEF wiped
<1>7. Down(k) = [k EXCEPT !.buffer = k.buffer, !.cursor_x = 0, !.cursor_y = k.cursor_y + 1]
  BY <1>5, <1>6, Zenon
<1>8. 0 \in 0 .. columns /\ k.cursor_y + 1 \in 0 .. rows
  BY <1>0, Sizes DEF Y
<1> QED
  BY <1>0, <1>7, <1>8, Zenon DEF Object

(***************************************************************************)
(* newline starts the next line, and only if there is no row for it it     *)
(* moves the others up and redraws.                                        *)
(***************************************************************************)
LEMMA NewlineLines ==
    ASSUME NEW k \in Console, Filled(k)
    PROVE  /\ newline(k) \in Console
           /\ newline(k).is_initialized = k.is_initialized
           /\ newline(k).cursor_x = 0
           /\ k.cursor_y + 1 < rows =>
                /\ newline(k).cursor_y = k.cursor_y + 1
                /\ newline(k).fb = k.fb
                /\ \A y \in Y : Line(newline(k), y) = Line(k, y)
           /\ ~(k.cursor_y + 1 < rows) =>
                /\ newline(k).cursor_y = rows - 1
                /\ newline(k).fb = Picture(newline(k))
                /\ \A y \in Y : Line(newline(k), y)
                                  = IF y + 1 < rows THEN Line(k, y + 1) ELSE EmptyRow
<1> DEFINE d == Down(k)
           n == newline(k)
<1>0. k \in Object /\ k.cursor_y \in Y /\ rows \in Nat \ {0} /\ rows - 1 \in Y
  BY Sizes DEF Console, Y
<1>1. /\ d \in Object /\ d.is_initialized = k.is_initialized
      /\ d.cursor_x = 0 /\ d.cursor_y = k.cursor_y + 1
      /\ d.scroll_row_offset = k.scroll_row_offset
      /\ d.buffer = k.buffer /\ d.fb = k.fb
  BY DownFields
<1>2. \A y \in Y : Line(d, y) = Line(k, y)
  BY <1>1 DEF Line, Row
<1>3. n = IF d.cursor_y >= rows THEN [scroll(d) EXCEPT !.cursor_y = rows - 1] ELSE d
  BY DEF newline, Down
<1> HIDE DEF d, n
<1>4. CASE k.cursor_y + 1 < rows
  <2>1. n = d /\ d.cursor_y \in Y
    BY <1>0, <1>1, <1>3, <1>4 DEF Y
  <2> QED
    BY <1>1, <1>2, <1>4, <2>1 DEF Console, n
<1>5. CASE ~(k.cursor_y + 1 < rows)
  <2> DEFINE s == scroll(d)
  <2>1. n = [s EXCEPT !.cursor_y = rows - 1]
    BY <1>0, <1>1, <1>3, <1>5 DEF Y
  <2>2. /\ s \in Object
        /\ s.is_initialized = d.is_initialized
        /\ s.cursor_x = d.cursor_x /\ s.fb = Picture(s)
    BY <1>1, ScrollLines, ScrollFields, Zenon
  <2>3. \A y \in Y : Line(s, y) = IF y + 1 < rows THEN Line(d, y + 1) ELSE EmptyRow
    BY <1>1, ScrollLines
  <2> HIDE DEF s
  <2>4. /\ n \in Object /\ n.cursor_y = rows - 1 /\ n.cursor_x = s.cursor_x
        /\ n.is_initialized = s.is_initialized /\ n.fb = s.fb
        /\ n.buffer = s.buffer /\ n.scroll_row_offset = s.scroll_row_offset
    BY <1>0, <2>1, <2>2 DEF Object, Y
  <2>5. \A y \in Y : Line(n, y) = Line(s, y)
    BY <2>4 DEF Line, Row
  <2>6. n.fb = Picture(n)
    BY <2>2, <2>4, <2>5 DEF Picture
  <2>7. \A y \in Y : Line(n, y) = IF y + 1 < rows THEN Line(k, y + 1) ELSE EmptyRow
    <3> TAKE y \in Y
    <3>1. y + 1 < rows => y + 1 \in Y
      BY <1>0 DEF Y
    <3> QED
      BY <1>2, <2>3, <2>5, <3>1
  <2> QED
    BY <1>0, <1>1, <1>5, <2>2, <2>4, <2>6, <2>7, SMTT(30) DEF Console, n
<1> QED
  BY <1>4, <1>5

\* The screen shows the buffer.
Shown(k) == k.fb = Picture(k)

(***************************************************************************)
(* newline leaves texts behind, and a screen that shows them.              *)
(***************************************************************************)
LEMMA NewlineFilled ==
    ASSUME NEW k \in Console, Filled(k)
    PROVE  Filled(newline(k)) /\ (Shown(k) => Shown(newline(k)))
<1> DEFINE n == newline(k)
<1>0. /\ k.cursor_y \in Y /\ rows \in Nat \ {0} /\ columns \in Nat \ {0}
      /\ k.cursor_x \in 0 .. columns
  BY Sizes DEF Console, Object
<1>e. Holds(EmptyRow, 0)
  BY DEF Holds, EmptyRow, X
<1>1. CASE k.cursor_y + 1 < rows
  <2>1. /\ n.cursor_y = k.cursor_y + 1 /\ n.cursor_x = 0 /\ n.fb = k.fb
        /\ \A y \in Y : Line(n, y) = Line(k, y)
    BY <1>1, NewlineLines
  <2> HIDE DEF n
  <2>2. k.cursor_y + 1 \in Y /\ Line(k, k.cursor_y + 1) = EmptyRow
    BY <1>0, <1>1 DEF Filled, Y
  <2>3. Filled(n)
    BY <1>0, <1>e, <2>1, <2>2 DEF Filled, Y
  <2>4. Picture(n) = Picture(k)
    BY <2>1 DEF Picture
  <2> QED
    BY <2>1, <2>3, <2>4 DEF Shown, n
<1>2. CASE ~(k.cursor_y + 1 < rows)
  <2>1. /\ n.cursor_y = rows - 1 /\ n.cursor_x = 0 /\ n.fb = Picture(n)
        /\ \A y \in Y : Line(n, y) = IF y + 1 < rows THEN Line(k, y + 1) ELSE EmptyRow
    BY <1>2, NewlineLines
  <2> HIDE DEF n
  <2>2. \A y \in Y : \E m \in 0 .. columns : Holds(Line(n, y), m)
    <3> TAKE y \in Y
    <3>1. CASE y + 1 < rows
      <4>1. y + 1 \in Y
        BY <1>0, <3>1 DEF Y
      <4> QED
        BY <2>1, <3>1, <4>1 DEF Filled
    <3>2. CASE ~(y + 1 < rows)
      BY <1>0, <1>e, <2>1, <3>2
    <3> QED
      BY <3>1, <3>2
  <2>3. Filled(n)
    BY <1>0, <1>e, <2>1, <2>2, SMTT(30) DEF Filled, Y
  <2> QED
    BY <2>1, <2>3 DEF Shown, n
<1> QED
  BY <1>1, <1>2

\* put_char's object once there is room for the character.
Write(k, c) == [k EXCEPT !.buffer[Row(k, k.cursor_y)][k.cursor_x] = c,
                         !.fb[k.cursor_y][k.cursor_x] = @ \cup Drawn(c),
                         !.cursor_x = @ + 1]

(***************************************************************************)
(* A character is written into the cell at the cursor and nowhere else.    *)
(***************************************************************************)
LEMMA WriteLines ==
    ASSUME NEW k \in Console, k.cursor_x < columns, NEW c \in Glyphs
    PROVE  /\ Write(k, c) \in Console
           /\ Write(k, c).is_initialized = k.is_initialized
           /\ Write(k, c).cursor_x = k.cursor_x + 1
           /\ Write(k, c).cursor_y = k.cursor_y
           /\ Write(k, c).fb = [k.fb EXCEPT ![k.cursor_y][k.cursor_x] = @ \cup {c}]
           /\ \A y \in Y : Line(Write(k, c), y) =
                IF y = k.cursor_y THEN [Line(k, y) EXCEPT ![k.cursor_x] = c] ELSE Line(k, y)
<1> DEFINE w == Write(k, c)
           b == [k.buffer EXCEPT ![Row(k, k.cursor_y)][k.cursor_x] = c]
           f == [k.fb EXCEPT ![k.cursor_y][k.cursor_x] = @ \cup {c}]
<1>0. /\ k \in Object /\ k.cursor_y \in Y /\ k.cursor_x \in X
      /\ k.scroll_row_offset \in Y /\ k.buffer \in Buffers /\ k.fb \in Screens
      /\ k.cursor_x + 1 \in 0 .. columns
  BY Sizes DEF Console, Object, X
<1>1. \A y \in Y : Row(k, y) \in Y /\ (Row(k, y) = Row(k, k.cursor_y) <=> y = k.cursor_y)
  <2>1. PICK o, cy : o = k.scroll_row_offset /\ cy = k.cursor_y
    OBVIOUS
  <2>2. o \in Y /\ cy \in Y
    BY <1>0, <2>1
  <2>3. Ring(o, cy) \in Y /\ \A y \in Y : Ring(o, y) = Ring(o, cy) => y = cy
    BY <2>2, RowsApart, Zenon
  <2>4. \A y \in Y : Ring(o, y) \in Y
    BY <2>2, RowsApart, Zenon
  <2>5. \A y \in Y : Row(k, y) = Ring(o, y)
    BY <2>1 DEF Row, Ring
  <2> QED
    BY <2>1, <2>2, <2>3, <2>4, <2>5
<1>2. Drawn(c) = {c}
  BY GlyphAssumption DEF Drawn
<1>3. b \in Buffers
  <2>1. k.buffer[Row(k, k.cursor_y)] \in [X -> Glyphs \cup {0}]
    BY <1>0, <1>1 DEF Buffers
  <2> QED
    BY <1>0, <1>1, <2>1 DEF Buffers
<1>4. f \in Screens
  <2>1. k.fb[k.cursor_y] \in [X -> SUBSET Glyphs]
    BY <1>0 DEF Screens
  <2>2. k.fb[k.cursor_y][k.cursor_x] \cup {c} \in SUBSET Glyphs
    BY <1>0, <2>1
  <2> QED
    BY <1>0, <2>1, <2>2, Zenon DEF Screens
<1>5. w = [k EXCEPT !.buffer = b, !.fb = f, !.cursor_x = k.cursor_x + 1]
  BY <1>0, <1>2 DEF Write, Object
<1>6. /\ w \in Object /\ w.is_initialized = k.is_initialized
      /\ w.cursor_x = k.cursor_x + 1 /\ w.cursor_y = k.cursor_y
      /\ w.scroll_row_offset = k.scroll_row_offset /\ w.buffer = b /\ w.fb = f
  <2> HIDE DEF w, b, f
  <2> QED
    BY <1>0, <1>3, <1>4, <1>5, Zenon DEF Object
<1>7. ASSUME NEW y \in Y
      PROVE  Line(w, y) = IF y = k.cursor_y THEN [Line(k, y) EXCEPT ![k.cursor_x] = c]
                                            ELSE Line(k, y)
  <2>1. Line(w, y) = b[Row(k, y)]
    BY <1>6, Zenon DEF Line, Row
  <2>2. Line(k, y) = k.buffer[Row(k, y)]
    BY DEF Line
  <2> QED
    BY <1>0, <1>1, <2>1, <2>2, SMTT(30) DEF Buffers
<1> QED
  BY <1>0, <1>6, <1>7, Zenon DEF Console

(***************************************************************************)
(* The character ends its line's text, and the cell was empty before, so   *)
(* that the transparent glyph alone is seen in it.                         *)
(***************************************************************************)
LEMMA WriteFilled ==
    ASSUME NEW k \in Console, Filled(k), k.cursor_x < columns, NEW c \in Glyphs
    PROVE  Filled(Write(k, c)) /\ (Shown(k) => Shown(Write(k, c)))
<1> DEFINE w == Write(k, c)
<1>0. /\ k.cursor_y \in Y /\ k.cursor_x \in X /\ c # 0 /\ columns \in Nat
      /\ k.cursor_x + 1 \in 0 .. columns /\ k.fb \in Screens
  BY Sizes, GlyphAssumption DEF Console, Object, X
<1>1. /\ w.cursor_x = k.cursor_x + 1 /\ w.cursor_y = k.cursor_y
      /\ w.fb = [k.fb EXCEPT ![k.cursor_y][k.cursor_x] = @ \cup {c}]
      /\ \A y \in Y : Line(w, y) =
           IF y = k.cursor_y THEN [Line(k, y) EXCEPT ![k.cursor_x] = c] ELSE Line(k, y)
  BY WriteLines, Zenon
<1>2. \A y \in Y : Line(k, y) \in [X -> Glyphs \cup {0}]
  BY Pictures DEF Console, Object
<1> HIDE DEF w
<1>3. Holds(Line(w, w.cursor_y), w.cursor_x)
  <2>1. Line(w, k.cursor_y) = [Line(k, k.cursor_y) EXCEPT ![k.cursor_x] = c]
    BY <1>0, <1>1
  <2>2. Holds(Line(k, k.cursor_y), k.cursor_x)
    BY DEF Filled
  <2> QED
    BY <1>0, <1>1, <1>2, <2>1, <2>2, SMTT(30) DEF Holds, X
<1>4. Filled(w)
  <2>1. \A y \in Y : \E n \in 0 .. columns : Holds(Line(w, y), n)
    <3> TAKE y \in Y
    <3>1. CASE y = k.cursor_y
      BY <1>0, <1>1, <1>3, <3>1, Zenon
    <3>2. CASE y # k.cursor_y
      BY <1>1, <3>2 DEF Filled
    <3> QED
      BY <3>1, <3>2
  <2>2. \A y \in Y : y > w.cursor_y => Line(w, y) = EmptyRow
    BY <1>0, <1>1, Sizes DEF Filled, Y
  <2> QED
    BY <1>3, <2>1, <2>2 DEF Filled
<1>5. ASSUME Shown(k) PROVE Shown(w)
  <2>1. ASSUME NEW y \in Y, NEW x \in X
        PROVE  w.fb[y][x] = Drawn(Line(w, y)[x])
    <3>1. k.fb[y][x] = Drawn(Line(k, y)[x])
      BY <1>5 DEF Shown, Picture
    <3>2. CASE y = k.cursor_y /\ x = k.cursor_x
      <4>1. Line(k, y)[x] = 0
        BY <1>0, <3>2 DEF Filled, Holds, X
      <4>2. k.fb[y][x] = {}
        BY <3>1, <4>1 DEF Drawn
      <4>3. w.fb[y][x] = {c}
        BY <1>0, <1>1, <3>2, <4>2 DEF Screens
      <4>4. Line(w, y)[x] = c
        BY <1>0, <1>1, <1>2, <3>2
      <4> QED
        BY <1>0, <4>3, <4>4, SMTT(30) DEF Drawn
    <3>3. CASE ~(y = k.cursor_y /\ x = k.cursor_x)
      <4>1. w.fb[y][x] = k.fb[y][x]
        BY <1>0, <1>1, <3>3 DEF Screens
      <4>2. Line(w, y)[x] = Line(k, y)[x]
        BY <1>0, <1>1, <1>2, <3>3, Zenon
      <4> QED
        BY <3>1, <4>1, <4>2
    <3> QED
      BY <3>2, <3>3
  <2>2. w.fb \in Screens
    <3>1. w \in Object
      BY WriteLines, Zenon DEF w, Console
    <3> QED
      BY <3>1 DEF Object
  <2> QED
    BY <2>1, <2>2 DEF Shown, Picture, Screens
<1> QED
  BY <1>4, <1>5 DEF w

(***************************************************************************)
(* clear leaves an empty first line, and a screen that shows it.           *)
(***************************************************************************)
LEMMA ClearLines ==
    ASSUME NEW k \in Console
    PROVE  /\ clear(k) \in Console /\ Filled(clear(k)) /\ Shown(clear(k))
           /\ clear(k).is_initialized = k.is_initialized
           /\ clear(k).cursor_y = 0 /\ Line(clear(k), 0) = EmptyRow
<1> DEFINE n == clear(k)
           b == [y \in Y |-> EmptyRow]
           f == [y \in Y |-> [x \in X |-> {}]]
<1>0. k \in Object /\ 0 \in Y /\ 0 \in 0 .. columns /\ 0 \in 0 .. rows
  BY Sizes DEF Console, Y
<1>1. b \in Buffers /\ f \in Screens
  BY DEF Buffers, Screens, EmptyRow
<1>2. n = [[k EXCEPT !.fb = f] EXCEPT !.buffer = b, !.cursor_x = 0, !.cursor_y = 0,
                                      !.scroll_row_offset = 0]
  BY DEF clear, screen_clear
<1>3. /\ n \in Object /\ n.is_initialized = k.is_initialized
      /\ n.cursor_x = 0 /\ n.cursor_y = 0 /\ n.scroll_row_offset = 0
      /\ n.buffer = b /\ n.fb = f
  <2> HIDE DEF n, b, f
  <2>1. [k EXCEPT !.fb = f] \in Object /\ [k EXCEPT !.fb = f].is_initialized = k.is_initialized
        /\ [k EXCEPT !.fb = f].fb = f
    BY <1>0, <1>1 DEF Object
  <2> QED
    BY <1>0, <1>1, <1>2, <2>1, Zenon DEF Object
<1> HIDE DEF n
<1>4. \A y \in Y : Line(n, y) = EmptyRow
  BY <1>0, <1>3, RowsApart, Zenon DEF Line, Row, Ring
<1>5. Holds(EmptyRow, 0)
  BY DEF Holds, EmptyRow, X
<1>6. Filled(n)
  BY <1>0, <1>3, <1>4, <1>5 DEF Filled
<1>7. Picture(n) = f
  BY <1>4 DEF Picture, EmptyRow, Drawn
<1> QED
  BY <1>0, <1>3, <1>4, <1>6, <1>7 DEF Console, Shown, n

(***************************************************************************)
(* screen_clear wipes the screen and leaves the lines as they are: the     *)
(* screen then shows them only if there are none.                          *)
(***************************************************************************)
LEMMA ScreenClearLines ==
    ASSUME NEW k \in Console
    PROVE  /\ screen_clear(k) \in Console
           /\ screen_clear(k).is_initialized = k.is_initialized
           /\ screen_clear(k).cursor_x = k.cursor_x /\ screen_clear(k).cursor_y = k.cursor_y
           /\ \A y \in Y : Line(screen_clear(k), y) = Line(k, y)
           /\ Filled(k) => Filled(screen_clear(k))
           /\ (\A y \in Y : Line(k, y) = EmptyRow) => Shown(screen_clear(k))
<1>1. [y \in Y |-> [x \in X |-> {}]] \in Screens
  BY DEF Screens
<1>2. /\ screen_clear(k) \in Object
      /\ screen_clear(k).is_initialized = k.is_initialized
      /\ screen_clear(k).cursor_x = k.cursor_x /\ screen_clear(k).cursor_y = k.cursor_y
      /\ screen_clear(k).buffer = k.buffer
      /\ screen_clear(k).scroll_row_offset = k.scroll_row_offset
  BY <1>1, Zenon DEF screen_clear, Console, Object
<1>3. /\ screen_clear(k) \in Console
      /\ \A y \in Y : Line(screen_clear(k), y) = Line(k, y)
  BY <1>2 DEF Console, Line, Row
<1>4. Filled(k) => Filled(screen_clear(k))
  BY <1>2, <1>3 DEF Filled, Console
<1>5. ASSUME \A y \in Y : Line(k, y) = EmptyRow
      PROVE  Shown(screen_clear(k))
  <2>1. screen_clear(k).fb = [y \in Y |-> [x \in X |-> {}]]
    BY DEF screen_clear, Console, Object
  <2>2. Picture(screen_clear(k)) = [y \in Y |-> [x \in X |-> {}]]
    BY <1>3, <1>5 DEF Picture, EmptyRow, Drawn
  <2> QED
    BY <2>1, <2>2 DEF Shown
<1> QED
  BY <1>2, <1>3, <1>4, <1>5, SMTT(30)

(***************************************************************************)
(* check_ready leaves a console that is initialised, and clears it at most *)
(* once.                                                                   *)
(***************************************************************************)
LEMMA ReadyLines ==
    ASSUME NEW k \in Console, Filled(k)
    PROVE  /\ check_ready(k) \in Console /\ Filled(check_ready(k))
           /\ Shown(k) => Shown(check_ready(k))
           /\ check_ready(k).is_initialized
           /\ k.is_initialized => check_ready(k) = k
           /\ ~k.is_initialized => /\ check_ready(k).cursor_y = 0
                                   /\ Line(check_ready(k), 0) = EmptyRow
<1> DEFINE i == [k EXCEPT !.is_initialized = TRUE]
<1>1. i \in Console /\ i.is_initialized
  BY Zenon DEF Console, Object
<1>2. check_ready(k) = IF k.is_initialized THEN k ELSE clear(i)
  BY DEF check_ready
<1> HIDE DEF i
<1>3. /\ clear(i) \in Console /\ Filled(clear(i)) /\ Shown(clear(i))
      /\ clear(i).is_initialized = i.is_initialized
      /\ clear(i).cursor_y = 0 /\ Line(clear(i), 0) = EmptyRow
  BY <1>1, ClearLines, Zenon
<1> QED
  BY <1>1, <1>2, <1>3, Zenon

(***************************************************************************)
(* put_char, with the newline it makes room with, keeps what newline and   *)
(* the write of one cell keep.                                             *)
(***************************************************************************)
LEMMA PutLines ==
    ASSUME NEW k \in Console, Filled(k), NEW c \in Glyphs \cup {10}
    PROVE  /\ put_char(k, c) \in Console /\ Filled(put_char(k, c))
           /\ Shown(k) => Shown(put_char(k, c))
           /\ put_char(k, c).is_initialized = k.is_initialized
<1>1. /\ newline(k) \in Console /\ Filled(newline(k))
      /\ Shown(k) => Shown(newline(k))
      /\ newline(k).is_initialized = k.is_initialized /\ newline(k).cursor_x = 0
  BY NewlineLines, NewlineFilled
<1>2. CASE c = 10
  BY <1>1, <1>2 DEF put_char
<1>3. CASE c # 10
  <2> DEFINE room == IF k.cursor_x >= columns THEN newline(k) ELSE k
  <2>1. put_char(k, c) = Write(room, c)
    BY <1>3 DEF put_char, Write
  <2>2. /\ room \in Console /\ Filled(room) /\ (Shown(k) => Shown(room))
        /\ room.is_initialized = k.is_initialized
    BY <1>1
  <2>3. room.cursor_x < columns
    <3>1. columns \in Nat \ {0} /\ k.cursor_x \in 0 .. columns
      BY Sizes DEF Console, Object
    <3> QED
      BY <1>1, <3>1
  <2> HIDE DEF room
  <2>4. c \in Glyphs
    BY <1>3
  <2>5. /\ Write(room, c) \in Console /\ Filled(Write(room, c))
        /\ Shown(room) => Shown(Write(room, c))
        /\ Write(room, c).is_initialized = room.is_initialized
    BY <2>2, <2>3, <2>4, WriteLines, WriteFilled, Zenon
  <2> QED
    BY <2>1, <2>2, <2>5, Zenon
<1> QED
  BY <1>2, <1>3

------------------------------------------------------------------------------
(* The invariant.                                                          *)

(***************************************************************************)
(* The inductive invariant: the object with its lines filled from the left *)
(* and from the top; a print in progress has got the console ready; before *)
(* the first print there is no text; and the screen shows the buffer for   *)
(* as long as the console is in use.                                       *)
(***************************************************************************)
ConsoleInv ==
    /\ gpu_ready \in BOOLEAN /\ use_visual \in BOOLEAN
    /\ str \in Seq(Glyphs \cup {10})
    /\ kconsole \in Console /\ Filled(kconsole)
    /\ str # <<>> => kconsole.is_initialized
    /\ ~kconsole.is_initialized => \A y \in Y : Line(kconsole, y) = EmptyRow
    /\ use_visual => Shown(kconsole)

(***************************************************************************)
(* The initial state satisfies the invariant.                              *)
(***************************************************************************)
LEMMA InitConsole == Init => ConsoleInv
<1> SUFFICES ASSUME Init PROVE ConsoleInv
  OBVIOUS
<1>0. 0 \in Y /\ 0 \in 0 .. columns /\ 0 \in 0 .. rows
  BY Sizes DEF Y
<1>1. kconsole \in Object /\ kconsole.cursor_y = 0 /\ kconsole.cursor_x = 0
  BY <1>0, Zenon DEF Init, Object, Buffers, Screens, EmptyRow
<1>2. \A y \in Y : Line(kconsole, y) = EmptyRow
  BY <1>0, RowsApart, Zenon DEF Init, Line, Row, Ring
<1>3. Holds(EmptyRow, 0)
  BY DEF Holds, EmptyRow, X
<1>4. Filled(kconsole)
  BY <1>0, <1>1, <1>2, <1>3 DEF Filled
<1>5. Shown(kconsole)
  BY <1>2, ZenonT(40) DEF Init, Shown, Picture, EmptyRow, Drawn
<1>6. gpu_ready \in BOOLEAN /\ use_visual \in BOOLEAN
  BY Zenon DEF Init
<1>7. str = <<>> /\ str \in Seq(Glyphs \cup {10})
  BY EmptySeq, Zenon DEF Init
<1> QED
  BY <1>0, <1>1, <1>2, <1>4, <1>5, <1>6, <1>7, SMTT(30) DEF ConsoleInv, Console

(***************************************************************************)
(* Every step keeps the invariant.                                         *)
(***************************************************************************)
LEMMA NextConsole == ConsoleInv /\ [Next]_vars => ConsoleInv'
<1> SUFFICES ASSUME ConsoleInv, [Next]_vars PROVE ConsoleInv'
  OBVIOUS
<1> USE DEF ConsoleInv
<1>1. CASE gpu_init
  BY <1>1, Zenon DEF gpu_init, Filled, Shown, Picture, Line, Row
<1>2. ASSUME NEW text \in Texts, kprintf_args_raw(text)
      PROVE  ConsoleInv'
  <2>1. CASE use_visual /\ gpu_ready
    <3>1. /\ kconsole' = check_ready(kconsole) /\ str' = Append(text, 10)
          /\ UNCHANGED <<gpu_ready, use_visual>>
      BY <1>2, <2>1 DEF kprintf_args_raw
    <3>2. str' \in Seq(Glyphs \cup {10})
      BY <3>1, TextAssumption, AppendProperties, SMTT(30)
    <3>3. /\ kconsole' \in Console /\ Filled(kconsole')
          /\ Shown(kconsole) => Shown(kconsole')
          /\ kconsole'.is_initialized
      BY <3>1, ReadyLines, Zenon
    <3> QED
      BY <2>1, <3>1, <3>2, <3>3, ZenonT(40) DEF Filled, Shown, Picture, Line, Row
  <2>2. CASE ~(use_visual /\ gpu_ready)
    BY <1>2, <2>2, Zenon DEF kprintf_args_raw, Filled, Shown, Picture, Line, Row
  <2> QED
    BY <2>1, <2>2
<1>3. CASE put_string
  <2>1. /\ kconsole' = put_char(kconsole, Head(str)) /\ str' = Tail(str) /\ str # <<>>
        /\ UNCHANGED <<gpu_ready, use_visual>>
    BY <1>3, SMTT(30) DEF put_string, Idle
  <2>2. Head(str) \in Glyphs \cup {10} /\ str' \in Seq(Glyphs \cup {10})
    BY <2>1, HeadTailProperties, SMTT(30)
  <2>3. /\ kconsole' \in Console /\ Filled(kconsole')
        /\ Shown(kconsole) => Shown(kconsole')
        /\ kconsole'.is_initialized = kconsole.is_initialized
    BY <2>1, <2>2, PutLines, SMTT(30)
  <2> QED
    BY <2>1, <2>2, <2>3, SMTT(30)
<1>4. CASE kconsole_clear
  <2>1. UNCHANGED <<gpu_ready, use_visual, str>> /\ str = <<>>
    BY <1>4 DEF kconsole_clear, Idle
  <2>2. /\ kconsole' \in Console /\ Filled(kconsole')
        /\ Shown(kconsole) => Shown(kconsole')
        /\ kconsole'.is_initialized = kconsole.is_initialized
        /\ ~kconsole.is_initialized => \A y \in Y : Line(kconsole', y) = EmptyRow
    <3>1. CASE ~gpu_ready
      BY <1>4, <3>1 DEF kconsole_clear
    <3>2. CASE gpu_ready /\ kconsole.is_initialized
      BY <1>4, <3>2, ClearLines, Zenon DEF kconsole_clear
    <3>3. CASE gpu_ready /\ ~kconsole.is_initialized
      BY <1>4, <3>3, ScreenClearLines, Zenon DEF kconsole_clear
    <3> QED
      BY <3>1, <3>2, <3>3
  <2> QED
    BY <2>1, <2>2, Zenon
<1>5. CASE bootscreen
  <2>1. UNCHANGED <<gpu_ready, str>> /\ use_visual' = FALSE /\ str = <<>>
    BY <1>5 DEF bootscreen, Idle
  <2>2. /\ kconsole' \in Console /\ Filled(kconsole')
        /\ kconsole'.is_initialized = kconsole.is_initialized
        /\ ~kconsole.is_initialized => \A y \in Y : Line(kconsole', y) = EmptyRow
    BY <1>5, ScreenClearLines, SMTT(30) DEF bootscreen
  <2> QED
    BY <2>1, <2>2, Zenon
<1>6. CASE UNCHANGED vars
  BY <1>6, Zenon DEF vars, Filled, Shown, Picture, Line, Row
<1> QED
  BY <1>1, <1>2, <1>3, <1>4, <1>5, <1>6, Zenon DEF Next

(***************************************************************************)
(* The invariant holds in every state.                                     *)
(***************************************************************************)
THEOREM ConsoleInvariant == Spec => []ConsoleInv
<1> QED
  BY InitConsole, NextConsole, PTL DEF Spec

(***************************************************************************)
(* On every screen the cursor stays on a row, and every access of put_char,*)
(* newline and scroll to the buffer is in bounds.                          *)
(***************************************************************************)
THEOREM ConsoleTypeCorrect == Spec => []TypeOK
<1>1. ConsoleInv => TypeOK
  BY DEF ConsoleInv, Console, Object, Buffers, Screens, TypeOK
<1> QED
  BY <1>1, ConsoleInvariant, PTL

(***************************************************************************)
(* While the console is in use the screen shows its buffer, after every    *)
(* single character of every text.                                         *)
(***************************************************************************)
THEOREM BufferShown == Spec => []ScreenShowsBuffer
<1>1. ConsoleInv => ScreenShowsBuffer
  BY DEF ConsoleInv, Shown, Picture, Line, ScreenShowsBuffer
<1> QED
  BY <1>1, ConsoleInvariant, PTL

------------------------------------------------------------------------------
(* The refinement.                                                         *)

\* The lines of the terminal that an initialised console implements.
Lines(k) == [i \in 1 .. k.cursor_y + 1 |-> TextOf(k.buffer[Row(k, i - 1)])]

(***************************************************************************)
(* The text of a row that holds n characters.                              *)
(***************************************************************************)
LEMMA TextOfRow ==
    ASSUME NEW row \in [X -> Glyphs \cup {0}], NEW n \in 0 .. columns, Holds(row, n)
    PROVE  /\ TextOf(row) = [i \in 1 .. n |-> row[i - 1]]
           /\ TextOf(row) \in Seq(Glyphs) /\ Len(TextOf(row)) = n
<1>0. columns \in Nat /\ n \in Nat
  BY Sizes
<1>1. {x \in X : row[x] # 0} = 0 .. n - 1
  BY <1>0 DEF Holds, X
<1>2. Cardinality(0 .. n - 1) = n
  <2>1. 0 \in Int /\ n - 1 \in Int
    BY <1>0
  <2>2. Cardinality(0 .. n - 1) = IF 0 > n - 1 THEN 0 ELSE n - 1 - 0 + 1
    BY <2>1, FS_Interval, Zenon
  <2> QED
    BY <1>0, <2>2
<1>3. TextOf(row) = [i \in 1 .. n |-> row[i - 1]]
  BY <1>1, <1>2, Zenon DEF TextOf
<1>4. \A i \in 1 .. n : row[i - 1] \in Glyphs
  BY <1>0 DEF Holds, X
<1> QED
  BY <1>0, <1>3, <1>4

(***************************************************************************)
(* Two sequences with the same elements are the same, counted from 0.      *)
(***************************************************************************)
LEMMA SameLines ==
    ASSUME NEW S, NEW s \in Seq(S), NEW t \in Seq(S), Len(s) = Len(t),
           \A y \in 0 .. Len(s) - 1 : s[y + 1] = t[y + 1]
    PROVE  s = t
<1>1. \A i \in 1 .. Len(s) : s[i] = t[i]
  <2> TAKE i \in 1 .. Len(s)
  <2>1. Len(s) \in Nat
    BY LenProperties
  <2>2. i - 1 \in 0 .. Len(s) - 1 /\ (i - 1) + 1 = i
    BY <2>1
  <2>3. s[(i - 1) + 1] = t[(i - 1) + 1]
    BY <2>2, Zenon
  <2> QED
    BY <2>2, <2>3
<1> QED
  BY <1>1, SeqEqual, Zenon

(***************************************************************************)
(* A sequence without its first element.                                   *)
(***************************************************************************)
LEMMA WithoutFirst ==
    ASSUME NEW S, NEW s \in Seq(S), NEW n \in Nat, Len(s) = n + 1
    PROVE  /\ SubSeq(s, 2, n + 1) \in Seq(S) /\ Len(SubSeq(s, 2, n + 1)) = n
           /\ \A i \in 1 .. n : SubSeq(s, 2, n + 1)[i] = s[i + 1]
BY SMT

(***************************************************************************)
(* The lines are a sequence of texts, one for each row down to the cursor, *)
(* and the cursor stands at the end of the last one.                       *)
(***************************************************************************)
LEMMA LinesShape ==
    ASSUME NEW k \in Console, Filled(k)
    PROVE  /\ Lines(k) \in Seq(Seq(Glyphs)) /\ Len(Lines(k)) = k.cursor_y + 1
           /\ \A y \in 0 .. k.cursor_y : Lines(k)[y + 1] = TextOf(Line(k, y))
           /\ Len(Lines(k)[k.cursor_y + 1]) = k.cursor_x
<1>0. k.cursor_y \in Nat /\ k.cursor_y < rows /\ rows \in Nat /\ k.cursor_x \in 0 .. columns
      /\ k.cursor_y \in Y
  BY Sizes DEF Console, Object, Y
<1>1. \A y \in Y : Line(k, y) \in [X -> Glyphs \cup {0}]
  BY Pictures, Zenon DEF Console, Object
<1>2. Lines(k) = [i \in 1 .. k.cursor_y + 1 |-> TextOf(Line(k, i - 1))]
  BY DEF Lines, Line
<1>3. \A y \in Y : TextOf(Line(k, y)) \in Seq(Glyphs)
  BY <1>1, TextOfRow, Zenon DEF Filled
<1>4. Lines(k) \in Seq(Seq(Glyphs)) /\ Len(Lines(k)) = k.cursor_y + 1
  <2>1. \A i \in 1 .. k.cursor_y + 1 : i - 1 \in Y
    BY <1>0 DEF Y
  <2>2. \A i \in 1 .. k.cursor_y + 1 : TextOf(Line(k, i - 1)) \in Seq(Glyphs)
    BY <1>3, <2>1
  <2>3. PICK T, m : T = Seq(Glyphs) /\ m = k.cursor_y + 1
    OBVIOUS
  <2>4. m \in Nat /\ \A i \in 1 .. m : TextOf(Line(k, i - 1)) \in T
    BY <1>0, <2>2, <2>3, SMTT(30)
  <2>5. /\ [i \in 1 .. m |-> TextOf(Line(k, i - 1))] \in Seq(T)
        /\ Len([i \in 1 .. m |-> TextOf(Line(k, i - 1))]) = m
    BY <2>4
  <2> QED
    BY <1>2, <2>3, <2>5, Zenon
<1>5. ASSUME NEW y \in 0 .. k.cursor_y
      PROVE  Lines(k)[y + 1] = TextOf(Line(k, y))
  <2>1. y + 1 \in 1 .. k.cursor_y + 1 /\ (y + 1) - 1 = y
    BY <1>0
  <2>2. Lines(k)[y + 1] = TextOf(Line(k, (y + 1) - 1))
    BY <1>2, <2>1
  <2> QED
    BY <2>1, <2>2
<1>6. Len(TextOf(Line(k, k.cursor_y))) = k.cursor_x
  BY <1>0, <1>1, TextOfRow, Zenon DEF Filled
<1>7. Lines(k)[k.cursor_y + 1] = TextOf(Line(k, k.cursor_y))
  BY <1>0, <1>5
<1> QED
  BY <1>4, <1>5, <1>6, <1>7, Zenon

(***************************************************************************)
(* An empty row has no text.                                               *)
(***************************************************************************)
LEMMA EmptyText == TextOf(EmptyRow) = <<>>
<1>1. EmptyRow \in [X -> Glyphs \cup {0}] /\ Holds(EmptyRow, 0)
  BY DEF EmptyRow, Holds, X
<1>2. 0 \in 0 .. columns
  BY Sizes
<1>3. TextOf(EmptyRow) \in Seq(Glyphs) /\ Len(TextOf(EmptyRow)) = 0
  BY <1>1, <1>2, TextOfRow
<1> QED
  BY <1>3, EmptySeq

(***************************************************************************)
(* newline implements the terminal's line feed, with the scroll when the   *)
(* last row is reached.                                                    *)
(***************************************************************************)
LEMMA FeedLines ==
    ASSUME NEW k \in Console, Filled(k)
    PROVE  Lines(newline(k)) = Term!Feed(Lines(k))
<1> DEFINE T == Seq(Glyphs)
           n == newline(k)
<1>c. PICK cy : cy = k.cursor_y
  OBVIOUS
<1>a. PICK all : all = Append(Lines(k), <<>>)
  BY Zenon
<1>0. cy \in Nat /\ cy < rows /\ rows \in Nat \ {0} /\ cy \in Y
  BY <1>c, Sizes DEF Console, Object, Y
<1>1. /\ Lines(k) \in Seq(T) /\ Len(Lines(k)) = cy + 1
      /\ \A y \in 0 .. cy : Lines(k)[y + 1] = TextOf(Line(k, y))
  BY <1>c, LinesShape
<1>2. <<>> \in T
  BY EmptySeq
<1>3. /\ all \in Seq(T) /\ Len(all) = cy + 2
      /\ \A y \in 0 .. cy : all[y + 1] = TextOf(Line(k, y))
      /\ all[cy + 2] = <<>>
  <2>1. /\ all \in Seq(T) /\ Len(all) = Len(Lines(k)) + 1
        /\ \A i \in 1 .. Len(Lines(k)) : all[i] = Lines(k)[i]
        /\ all[Len(Lines(k)) + 1] = <<>>
    BY <1>a, <1>1, <1>2, AppendProperties, SMTT(30)
  <2>2. Len(all) = cy + 2 /\ all[cy + 2] = <<>>
    BY <1>0, <1>1, <2>1, SMTT(30)
  <2>3. ASSUME NEW y \in 0 .. cy PROVE all[y + 1] = TextOf(Line(k, y))
    <3>1. y + 1 \in 1 .. Len(Lines(k))
      BY <1>0, <1>1
    <3> QED
      BY <1>1, <2>1, <3>1, Zenon
  <2> QED
    BY <2>1, <2>2, <2>3, Zenon
<1>4. n \in Console /\ Filled(n)
  BY NewlineLines, NewlineFilled
<1>5. /\ Lines(n) \in Seq(T) /\ Len(Lines(n)) = n.cursor_y + 1
      /\ \A y \in 0 .. n.cursor_y : Lines(n)[y + 1] = TextOf(Line(n, y))
  BY <1>4, LinesShape, Zenon
<1>6. Term!Feed(Lines(k))
        = SubSeq(all, IF Len(all) > rows THEN Len(all) - rows + 1 ELSE 1, Len(all))
  BY <1>a DEF Term!Feed
<1>7. CASE cy + 1 < rows
  <2>1. n.cursor_y = cy + 1 /\ \A y \in Y : Line(n, y) = Line(k, y)
    BY <1>c, <1>7, NewlineLines
  <2>2. Line(k, cy + 1) = EmptyRow
    BY <1>c, <1>0, <1>7 DEF Filled, Y
  <2> HIDE DEF n
  <2>3. Term!Feed(Lines(k)) = SubSeq(all, 1, Len(all))
    BY <1>0, <1>3, <1>6, <1>7, SMTT(30)
  <2>4. SubSeq(all, 1, Len(all)) = all
    BY <1>3, SubSeqFull, Zenon
  <2>5. ASSUME NEW y \in 0 .. cy + 1 PROVE Lines(n)[y + 1] = all[y + 1]
    <3>1. y \in Y /\ Lines(n)[y + 1] = TextOf(Line(k, y))
      BY <1>0, <1>5, <1>7, <2>1, SMTT(30) DEF Y
    <3>2. CASE y = cy + 1
      <4>1. y + 1 = cy + 2
        BY <1>0, <3>2
      <4> QED
        BY <1>3, <2>2, <3>1, <3>2, <4>1, EmptyText, Zenon
    <3>3. CASE y # cy + 1
      <4>1. y \in 0 .. cy
        BY <1>0, <3>3
      <4> QED
        BY <1>3, <3>1, <4>1, Zenon
    <3> QED
      BY <3>2, <3>3, Zenon
  <2>6. Len(Lines(n)) = Len(all) /\ 0 .. Len(Lines(n)) - 1 = 0 .. cy + 1
    BY <1>0, <1>3, <1>5, <2>1
  <2>7. Lines(n) = all
    BY <1>3, <1>5, <2>5, <2>6, SameLines, Zenon
  <2> QED
    BY <2>3, <2>4, <2>7 DEF n
<1>8. CASE ~(cy + 1 < rows)
  <2>0. cy = rows - 1
    BY <1>0, <1>8
  <2>1. /\ n.cursor_y = rows - 1
        /\ \A y \in Y : Line(n, y) = IF y + 1 < rows THEN Line(k, y + 1) ELSE EmptyRow
    BY <1>c, <1>8, NewlineLines, Zenon
  <2> HIDE DEF n
  <2>b. PICK sub : sub = SubSeq(all, 2, rows + 1)
    BY Zenon
  <2>2. Term!Feed(Lines(k)) = sub
    <3>1. Len(all) = rows + 1 /\ Len(all) > rows /\ Len(all) - rows + 1 = 2
      BY <1>0, <1>3, <2>0
    <3> QED
      BY <1>6, <2>b, <3>1, Zenon
  <2>3. /\ sub \in Seq(T) /\ Len(sub) = rows
        /\ \A i \in 1 .. rows : sub[i] = all[i + 1]
    <3>1. Len(all) = rows + 1
      BY <1>0, <1>3, <2>0
    <3> QED
      BY <1>0, <1>3, <2>b, <3>1, WithoutFirst, Zenon
  <2>4. Lines(n) \in Seq(T) /\ Len(Lines(n)) = rows /\ 0 .. Len(Lines(n)) - 1 = 0 .. cy
    BY <1>0, <1>5, <2>0, <2>1, SMTT(30)
  <2>5. ASSUME NEW y \in 0 .. cy PROVE Lines(n)[y + 1] = sub[y + 1]
    <3>1. y \in Y /\ Lines(n)[y + 1] = TextOf(Line(n, y))
      BY <1>0, <1>5, <2>0, <2>1, SMTT(30) DEF Y
    <3>2. sub[y + 1] = all[(y + 1) + 1]
      BY <1>0, <2>0, <2>3
    <3>3. CASE y + 1 < rows
      <4>1. y + 1 \in 0 .. cy
        BY <1>0, <2>0, <3>3
      <4>2. Line(n, y) = Line(k, y + 1)
        BY <2>1, <3>1, <3>3
      <4>3. all[(y + 1) + 1] = TextOf(Line(k, y + 1))
        BY <1>3, <4>1, Zenon
      <4> QED
        BY <3>1, <3>2, <4>2, <4>3
    <3>4. CASE ~(y + 1 < rows)
      <4>1. (y + 1) + 1 = cy + 2
        BY <1>0, <2>0, <3>4
      <4>2. Line(n, y) = EmptyRow
        BY <2>1, <3>1, <3>4
      <4> QED
        BY <1>3, <3>1, <3>2, <4>1, <4>2, EmptyText, Zenon
    <3> QED
      BY <3>3, <3>4, Zenon
  <2>6. Lines(n) = sub
    BY <2>3, <2>4, <2>5, SameLines, Zenon
  <2> QED
    BY <2>2, <2>6 DEF n
<1> QED
  BY <1>7, <1>8

(***************************************************************************)
(* A written character implements the terminal's typing.                   *)
(***************************************************************************)
LEMMA TypeLines ==
    ASSUME NEW k \in Console, Filled(k), k.cursor_x < columns, NEW c \in Glyphs
    PROVE  Lines(Write(k, c)) = [Lines(k) EXCEPT ![Len(Lines(k))] = Append(@, c)]
<1> DEFINE T == Seq(Glyphs)
<1>c. PICK cy, w : cy = k.cursor_y /\ w = Write(k, c)
  OBVIOUS
<1>0. cy \in Nat /\ cy \in Y /\ rows \in Nat /\ cy < rows
  BY <1>c, Sizes DEF Console, Object, Y
<1>1. /\ Lines(k) \in Seq(T) /\ Len(Lines(k)) = cy + 1
      /\ \A y \in 0 .. cy : Lines(k)[y + 1] = TextOf(Line(k, y))
  BY <1>c, LinesShape
<1>2. /\ w \in Console /\ Filled(w) /\ w.cursor_y = cy /\ w.cursor_x = k.cursor_x + 1
      /\ \A y \in Y : Line(w, y) =
           IF y = cy THEN [Line(k, y) EXCEPT ![k.cursor_x] = c] ELSE Line(k, y)
  <2>1. Filled(Write(k, c))
    BY WriteFilled
  <2>2. /\ Write(k, c) \in Console /\ Write(k, c).cursor_y = k.cursor_y
        /\ Write(k, c).cursor_x = k.cursor_x + 1
        /\ \A y \in Y : Line(Write(k, c), y) =
             IF y = k.cursor_y THEN [Line(k, y) EXCEPT ![k.cursor_x] = c] ELSE Line(k, y)
    BY WriteLines, Zenon
  <2> QED
    BY <1>c, <2>1, <2>2, Zenon
<1>3. /\ Lines(w) \in Seq(T) /\ Len(Lines(w)) = cy + 1
      /\ \A y \in 0 .. cy : Lines(w)[y + 1] = TextOf(Line(w, y))
  BY <1>2, LinesShape
<1>4. TextOf(Line(w, cy)) = Append(TextOf(Line(k, cy)), c)
  <2> DEFINE row == Line(k, cy)
             new == [row EXCEPT ![k.cursor_x] = c]
  <2>1. PICK n : n = k.cursor_x
    OBVIOUS
  <2>2. /\ n \in Nat /\ n + 1 \in 0 .. columns /\ n \in 0 .. columns /\ n \in X
        /\ columns \in Nat
    BY <2>1, Sizes DEF Console, Object, X
  <2>3. row \in [X -> Glyphs \cup {0}] /\ Line(w, cy) = new
    BY <1>0, <1>2, Pictures DEF Console, Object
  <2>4. new \in [X -> Glyphs \cup {0}]
    BY <2>1, <2>2, <2>3, SMTT(30)
  <2>5. Holds(row, n) /\ Holds(new, n + 1)
    BY <1>c, <1>2, <2>1, <2>3, Zenon DEF Filled
  <2>6. /\ TextOf(row) = [i \in 1 .. n |-> row[i - 1]]
        /\ TextOf(row) \in T /\ Len(TextOf(row)) = n
    BY <2>2, <2>3, <2>5, TextOfRow, Zenon
  <2>7. /\ TextOf(new) = [i \in 1 .. n + 1 |-> new[i - 1]]
        /\ TextOf(new) \in T /\ Len(TextOf(new)) = n + 1
    BY <2>2, <2>4, <2>5, TextOfRow, Zenon
  <2>8. /\ Append(TextOf(row), c) \in T /\ Len(Append(TextOf(row), c)) = n + 1
        /\ \A i \in 1 .. n : Append(TextOf(row), c)[i] = TextOf(row)[i]
        /\ Append(TextOf(row), c)[n + 1] = c
    <3>1. PICK text : text = TextOf(row)
      OBVIOUS
    <3>2. text \in Seq(Glyphs) /\ Len(text) = n
      BY <2>6, <3>1, Zenon
    <3>3. /\ Append(text, c) \in Seq(Glyphs) /\ Len(Append(text, c)) = Len(text) + 1
          /\ \A i \in 1 .. Len(text) : Append(text, c)[i] = text[i]
          /\ Append(text, c)[Len(text) + 1] = c
      BY <3>2, AppendProperties
    <3> QED
      BY <3>1, <3>2, <3>3, Zenon
  <2>9. ASSUME NEW i \in 1 .. n + 1 PROVE TextOf(new)[i] = Append(TextOf(row), c)[i]
    <3>1. TextOf(new)[i] = new[i - 1] /\ i - 1 \in X
      BY <2>2, <2>7, SMTT(30) DEF X
    <3>2. CASE i = n + 1
      BY <2>1, <2>2, <2>3, <2>8, <3>1, <3>2, SMTT(30)
    <3>3. CASE i # n + 1
      <4>1. i \in 1 .. n /\ i - 1 # n
        BY <2>2, <3>3
      <4>2. new[i - 1] = row[i - 1]
        BY <2>1, <2>3, <3>1, <4>1, Zenon
      <4> QED
        BY <2>6, <2>8, <3>1, <4>1, <4>2, Zenon
    <3> QED
      BY <3>2, <3>3, Zenon
  <2> HIDE DEF row, new
  <2>10. TextOf(new) = Append(TextOf(row), c)
    BY <2>7, <2>8, <2>9, SeqEqual, Zenon
  <2> QED
    BY <2>3, <2>10 DEF row
<1>5. TextOf(Line(k, cy)) \in T /\ Append(TextOf(Line(k, cy)), c) \in T
  <2>1. Lines(k)[cy + 1] \in T /\ Lines(k)[cy + 1] = TextOf(Line(k, cy))
    BY <1>0, <1>1, ElementOfSeq
  <2> QED
    BY <2>1, AppendProperties, Zenon
<1>6. PICK new : new = [Lines(k) EXCEPT ![cy + 1] = Append(TextOf(Line(k, cy)), c)]
  BY Zenon
<1>7. /\ new \in Seq(T) /\ Len(new) = cy + 1
      /\ \A i \in 1 .. cy + 1 : new[i] = IF i = cy + 1 THEN Append(TextOf(Line(k, cy)), c)
                                                       ELSE Lines(k)[i]
  <2>1. cy + 1 \in 1 .. Len(Lines(k))
    BY <1>0, <1>1
  <2> QED
    BY <1>1, <1>5, <1>6, <2>1, ExceptSeq, SMTT(30)
<1>8. ASSUME NEW y \in 0 .. cy PROVE Lines(w)[y + 1] = new[y + 1]
  <2>1. y \in Y /\ y + 1 \in 1 .. cy + 1
    BY <1>0 DEF Y
  <2>2. CASE y = cy
    BY <1>3, <1>4, <1>7, <2>1, <2>2, ZenonT(40)
  <2>3. CASE y # cy
    <3>1. y + 1 # cy + 1
      BY <1>0, <2>3
    <3>2. Line(w, y) = Line(k, y)
      BY <1>2, <2>1, <2>3, Zenon
    <3>3. new[y + 1] = Lines(k)[y + 1]
      BY <1>7, <2>1, <3>1, Zenon
    <3>4. Lines(k)[y + 1] = TextOf(Line(k, y))
      BY <1>1, <2>1, Zenon
    <3>5. Lines(w)[y + 1] = TextOf(Line(w, y))
      BY <1>3, <2>1, Zenon
    <3> QED
      BY <3>2, <3>3, <3>4, <3>5, Zenon
  <2> QED
    BY <2>2, <2>3, Zenon
<1>9. Lines(w) = new
  <2>1. 0 .. Len(Lines(w)) - 1 = 0 .. cy
    BY <1>0, <1>3
  <2> QED
    BY <1>3, <1>7, <1>8, <2>1, SameLines, Zenon
<1>10. Lines(k)[cy + 1] = TextOf(Line(k, cy))
  BY <1>0, <1>1
<1> QED
  BY <1>c, <1>1, <1>6, <1>9, <1>10, Zenon

\* The terminal's lines, as Term maps them.
Mapped(k) == IF k.is_initialized THEN Lines(k) ELSE <<>>

(***************************************************************************)
(* put_char implements the terminal's typing of a character.               *)
(***************************************************************************)
LEMMA PutImplementsType ==
    ASSUME NEW k \in Console, Filled(k), NEW c \in Glyphs \cup {10}
    PROVE  Lines(put_char(k, c)) = Term!Type(Lines(k), c)
<1>1. Lines(newline(k)) = Term!Feed(Lines(k))
  BY FeedLines
<1>2. CASE c = 10
  BY <1>1, <1>2 DEF put_char, Term!Type
<1>3. CASE c # 10
  <2> DEFINE room == IF k.cursor_x >= columns THEN newline(k) ELSE k
             space == IF Len(Lines(k)[Len(Lines(k))]) = columns THEN Term!Feed(Lines(k))
                                                                ELSE Lines(k)
  <2>1. put_char(k, c) = Write(room, c)
    BY <1>3 DEF put_char, Write
  <2>2. columns \in Nat \ {0} /\ k.cursor_x \in 0 .. columns
    BY Sizes DEF Console, Object
  <2>3. room \in Console /\ Filled(room) /\ room.cursor_x < columns
    BY <2>2, NewlineLines, NewlineFilled
  <2>4. Len(Lines(k)[Len(Lines(k))]) = k.cursor_x
    BY LinesShape, Zenon
  <2>5. Lines(room) = space
    BY <1>1, <2>2, <2>4
  <2>6. Term!Type(Lines(k), c) = [space EXCEPT ![Len(space)] = Append(@, c)]
    BY <1>3 DEF Term!Type
  <2>7. c \in Glyphs
    BY <1>3
  <2> HIDE DEF room, space
  <2>8. Lines(Write(room, c)) = [Lines(room) EXCEPT ![Len(Lines(room))] = Append(@, c)]
    BY <2>3, <2>7, TypeLines
  <2> QED
    BY <2>1, <2>5, <2>6, <2>8, Zenon
<1> QED
  BY <1>2, <1>3, Zenon

(***************************************************************************)
(* A console whose lines are the same shows the same text.                 *)
(***************************************************************************)
LEMMA MappedSame ==
    ASSUME NEW k \in Console, NEW l \in Console,
           l.is_initialized = k.is_initialized, l.cursor_y = k.cursor_y,
           \A y \in Y : Line(l, y) = Line(k, y)
    PROVE  Mapped(l) = Mapped(k)
<1>1. \A i \in 1 .. k.cursor_y + 1 : i - 1 \in Y
  BY Sizes DEF Console, Y
<1>2. Lines(k) = [i \in 1 .. k.cursor_y + 1 |-> TextOf(Line(k, i - 1))]
  BY DEF Lines, Line
<1>3. Lines(l) = [i \in 1 .. k.cursor_y + 1 |-> TextOf(Line(l, i - 1))]
  BY DEF Lines, Line
<1>4. Lines(l) = Lines(k)
  BY <1>1, <1>2, <1>3
<1> QED
  BY <1>4 DEF Mapped

(***************************************************************************)
(* A cleared console shows one empty line.                                 *)
(***************************************************************************)
LEMMA BlankLines ==
    ASSUME NEW k \in Console, k.cursor_y = 0, Line(k, 0) = EmptyRow
    PROVE  Lines(k) = Term!Blank
<1>1. Lines(k) = [i \in 1 .. 1 |-> TextOf(Line(k, i - 1))]
  BY DEF Lines, Line
<1>2. \A i \in 1 .. 1 : TextOf(Line(k, i - 1)) = <<>>
  BY EmptyText
<1>3. Lines(k) = [i \in 1 .. 1 |-> <<>>]
  BY <1>1, <1>2
<1>4. << <<>> >> = [i \in 1 .. 1 |-> <<>>]
  OBVIOUS
<1> QED
  BY <1>3, <1>4, SMTT(30) DEF Term!Blank

(***************************************************************************)
(* Every step of the console is a step of the terminal or leaves it as it  *)
(* is.                                                                     *)
(***************************************************************************)
LEMMA NextTerminal == ConsoleInv /\ [Next]_vars => [Term!Next]_(Term!vars)
<1> SUFFICES ASSUME ConsoleInv, [Next]_vars PROVE [Term!Next]_(Term!vars)
  OBVIOUS
<1> USE DEF ConsoleInv
<1>m. /\ (IF kconsole.is_initialized
          THEN [i \in 1 .. kconsole.cursor_y + 1 |->
                    TextOf(kconsole.buffer[Row(kconsole, i - 1)])]
          ELSE <<>>) = Mapped(kconsole)
      /\ (IF kconsole.is_initialized
          THEN [i \in 1 .. kconsole.cursor_y + 1 |->
                    TextOf(kconsole.buffer[Row(kconsole, i - 1)])]
          ELSE <<>>)' = Mapped(kconsole')
  BY Zenon DEF Mapped, Lines, Row
<1>1. CASE gpu_init
  BY <1>1, Zenon DEF gpu_init, Term!vars, Row
<1>2. ASSUME NEW text \in Texts, kprintf_args_raw(text)
      PROVE  [Term!Next]_(Term!vars)
  <2>1. CASE use_visual /\ gpu_ready
    <3>1. /\ kconsole' = check_ready(kconsole) /\ str' = Append(text, 10) /\ str = <<>>
      BY <1>2, <2>1 DEF kprintf_args_raw, Idle
    <3>2. /\ kconsole' \in Console /\ kconsole'.is_initialized = TRUE
          /\ kconsole.is_initialized => kconsole' = kconsole
          /\ ~kconsole.is_initialized => kconsole'.cursor_y = 0 /\ Line(kconsole', 0) = EmptyRow
      <4>1. check_ready(kconsole).is_initialized \in BOOLEAN
        BY ReadyLines, Zenon DEF Console, Object
      <4> QED
        BY <3>1, <4>1, ReadyLines, Zenon
    <3>3. Mapped(kconsole') = IF kconsole.is_initialized THEN Mapped(kconsole) ELSE Term!Blank
      BY <3>2, BlankLines, Zenon DEF Mapped
    <3>4. Term!Show(text)
      BY <1>m, <3>1, <3>2, <3>3, Zenon DEF Term!Show
    <3> QED
      BY <3>4 DEF Term!Next
  <2>2. CASE ~(use_visual /\ gpu_ready)
    BY <1>2, <2>2, Zenon DEF kprintf_args_raw, Term!vars, Row
  <2> QED
    BY <2>1, <2>2
<1>3. CASE put_string
  <2>1. /\ kconsole' = put_char(kconsole, Head(str)) /\ str' = Tail(str) /\ str # <<>>
    BY <1>3 DEF put_string, Idle
  <2>2. Head(str) \in Glyphs \cup {10}
    BY <2>1, HeadTailProperties, SMTT(30)
  <2>3. kconsole'.is_initialized = kconsole.is_initialized /\ kconsole.is_initialized
    BY <2>1, <2>2, PutLines, Zenon
  <2>4. Mapped(kconsole') = Term!Type(Mapped(kconsole), Head(str))
    BY <2>1, <2>2, <2>3, PutImplementsType, Zenon DEF Mapped
  <2>5. Term!Put
    BY <1>m, <2>1, <2>3, <2>4, Zenon DEF Term!Put
  <2> QED
    BY <2>5 DEF Term!Next
<1>4. CASE kconsole_clear
  <2>1. str' = str /\ str = <<>>
    BY <1>4, SMTT(30) DEF kconsole_clear, Idle
  <2>2. CASE ~gpu_ready
    BY <1>4, <2>2, Zenon DEF kconsole_clear, Term!vars, Row
  <2>3. CASE gpu_ready /\ kconsole.is_initialized
    <3>1. kconsole' = clear(kconsole)
      BY <1>4, <2>3 DEF kconsole_clear
    <3>2. /\ kconsole' \in Console /\ kconsole'.is_initialized = kconsole.is_initialized
          /\ kconsole'.cursor_y = 0 /\ Line(kconsole', 0) = EmptyRow
      BY <3>1, ClearLines
    <3>3. Mapped(kconsole') = Term!Blank
      BY <2>3, <3>2, BlankLines, SMTT(30) DEF Mapped
    <3>4. Term!Clear
      BY <1>m, <2>1, <2>3, <3>2, <3>3, Zenon DEF Term!Clear
    <3> QED
      BY <3>4 DEF Term!Next
  <2>4. CASE gpu_ready /\ ~kconsole.is_initialized
    <3>1. kconsole' = screen_clear(kconsole)
      BY <1>4, <2>4 DEF kconsole_clear
    <3>2. kconsole'.is_initialized = kconsole.is_initialized /\ Mapped(kconsole') = Mapped(kconsole)
      BY <3>1, ScreenClearLines, MappedSame
    <3> QED
      BY <1>m, <2>1, <3>2, Zenon DEF Term!vars
  <2> QED
    BY <2>2, <2>3, <2>4
<1>5. CASE bootscreen
  <2>1. kconsole' = screen_clear(kconsole) /\ str' = str
    BY <1>5 DEF bootscreen
  <2>2. kconsole'.is_initialized = kconsole.is_initialized /\ Mapped(kconsole') = Mapped(kconsole)
    BY <2>1, ScreenClearLines, MappedSame
  <2> QED
    BY <1>m, <2>1, <2>2, Zenon DEF Term!vars
<1>6. CASE UNCHANGED vars
  BY <1>6 DEF vars, Term!vars, Row
<1> QED
  BY <1>1, <1>2, <1>3, <1>4, <1>5, <1>6, SMTT(30) DEF Next

(***************************************************************************)
(* The kernel console is a terminal: its ring of rows, scrolled by an      *)
(* offset, holds the last rows lines of all that was printed, in order and *)
(* wrapped at the last column, on every screen and for all texts.          *)
(***************************************************************************)
THEOREM ConsoleIsTerminal == Spec => IsTerminal
<1>1. Init => Term!Init
  BY DEF Init, Term!Init
<1> QED
  BY <1>1, NextTerminal, ConsoleInvariant, PTL DEF Spec, IsTerminal, Term!Spec
=============================================================================
