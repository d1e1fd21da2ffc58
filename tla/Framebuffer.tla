---------------------------- MODULE Framebuffer ----------------------------
(***************************************************************************)
(* What the drawing functions write: the set of places of the framebuffer  *)
(* a call colours.  Coordinates are uint32_t, of which the callers also    *)
(* make negative ones, so they wrap at Wrap.                               *)
(***************************************************************************)
EXTENDS Calls, Integers, Sequences, FiniteSets

CONSTANTS
    width, height,
    Wrap,      \* 2^32
    Glyph,     \* 8: rows and columns of a character
    Leading,   \* 2: lines between two rows of text
    Rects,     \* rectangles, whose corner may be left of or above the screen
    Lines,     \* the two ends of lines
    Captions   \* strings to draw, with their place and scale

ASSUME ScreenAssumption ==
    /\ width \in Nat /\ height \in Nat /\ Wrap \in Nat \ {0}
    /\ Glyph \in Nat \ {0} /\ Leading \in Nat
    /\ width <= Wrap /\ height <= Wrap

\* rfb_init's size in bytes, so also any place in it, is a uint32_t.
ASSUME SizeAssumption == width * height * 4 <= Wrap

U32(n) == n % Wrap
Pixels(f(_, _), w, h) == UNION {f(dx, dy) : dx \in 0 .. w - 1, dy \in 0 .. h - 1}

\* Mutant: only the column is checked.
rfb_draw_pixel_Below(x, y) == IF x >= width THEN {} ELSE {y * width + x}

rfb_draw_pixel(x, y) == IF x >= width \/ y >= height THEN {} ELSE {y * width + x}

rfb_fill_rect(x, y, w, h) ==
    LET At(dx, dy) == rfb_draw_pixel(U32(x + dx), U32(y + dy)) IN Pixels(At, w, h)

\* glyph: the bits that are set, as a set of <<row, column>>.
rfb_draw_char(x, y, glyph, scale) ==
    LET At(col, row) == IF <<row \div scale, col \div scale>> \in glyph
                        THEN rfb_draw_pixel(U32(x + col), U32(y + row)) ELSE {}
    IN  Pixels(At, Glyph * scale, Glyph * scale)

\* Mutant: a line end does not go back to the first column.
LineEnd_Below(pen, size) == [pen EXCEPT !.y = U32(@ + size + Leading)]
LineEnd(pen, size) == [pen EXCEPT !.y = U32(@ + size + Leading), !.xoff = 0]

\* A turn of rfb_draw_string.  A string is a sequence of glyphs, of which each
\* is a sequence with the bits, and line ends, which are <<>>.
rfb_draw_string(pen, c, x0, scale) ==
    LET size == Glyph * scale IN
    IF c = <<>> THEN LineEnd(pen, size)
    ELSE [pen EXCEPT !.xoff = @ + 1,
                     !.drawn = @ \cup rfb_draw_char(U32(x0 + pen.xoff * size), pen.y,
                                                    c[1], scale)]

------------------------------------------------------------------------------
Distance(a, b) == IF b > a THEN b - a ELSE a - b
\* Division as in C, towards 0.
Half(n) == IF n < 0 THEN -((-n) \div 2) ELSE n \div 2

\* Mutant: a step in y when the error equals dy, too.
LineStep_Closed(line) ==
    LET x == line.err > -line.dx
        y == line.err <= line.dy
    IN  [line EXCEPT !.err = @ - (IF x THEN line.dy ELSE 0) + (IF y THEN line.dx ELSE 0),
                     !.x = IF x THEN U32(@ + line.sx) ELSE @,
                     !.y = IF y THEN U32(@ + line.sy) ELSE @]

\* One turn of the loop, after the pixel: e2 is the error before it.
LineStep(line) ==
    LET x == line.err > -line.dx
        y == line.err < line.dy
    IN  [line EXCEPT !.err = @ - (IF x THEN line.dy ELSE 0) + (IF y THEN line.dx ELSE 0),
                     !.x = IF x THEN U32(@ + line.sx) ELSE @,
                     !.y = IF y THEN U32(@ + line.sy) ELSE @]

LineStart(x0, y0, x1, y1) ==
    LET dx == Distance(x0, x1)
        dy == Distance(y0, y1)
    IN  [x |-> x0, y |-> y0, dx |-> dx, dy |-> dy,
         sx |-> IF x0 < x1 THEN 1 ELSE -1, sy |-> IF y0 < y1 THEN 1 ELSE -1,
         err |-> Half(IF dx > dy THEN dx ELSE -dy)]

\* A turn of rfb_draw_line, and the points it has come to.
AtEnd(line, x1, y1) == line.x = x1 /\ line.y = y1
rfb_draw_line(drawing, x1, y1) ==
    LET line == drawing.line IN
    [line |-> IF AtEnd(line, x1, y1) THEN line ELSE LineStep(line),
     points |-> Append(drawing.points, [x |-> line.x, y |-> line.y]),
     drawn |-> drawing.drawn \cup rfb_draw_pixel(line.x, line.y)]

------------------------------------------------------------------------------
(* Calls.                                                                  *)

\* From x on, n columns or rows do not wrap around to the screen's length.
Unwrapped(x, n, length) == x \in Int /\ n \in Nat /\ length - Wrap <= x /\ x + n <= Wrap

ASSUME RectsAssumption ==
    \A r \in Rects : Unwrapped(r.x, r.w, width) /\ Unwrapped(r.y, r.h, height)

FillRect ==
    Free /\ \E r \in Rects : Compute("rect", r, rfb_fill_rect(U32(r.x), U32(r.y), r.w, r.h))

\* Further apart, the distance would not be positive as an int.
ASSUME LinesAssumption ==
    \A l \in Lines : l \in [x0 : 0 .. Wrap - 1, y0 : 0 .. Wrap - 1,
                            x1 : 0 .. Wrap - 1, y1 : 0 .. Wrap - 1]
                     /\ Distance(l.x0, l.x1) < Wrap \div 2 /\ Distance(l.y0, l.y1) < Wrap \div 2

DrawLine ==
    Free /\ \E l \in Lines : Begin("line", l, [line |-> LineStart(l.x0, l.y0, l.x1, l.y1),
                                       points |-> <<>>, drawn |-> {}])

LineTurn ==
    Running("line") /\ Continue(rfb_draw_line(out, in.x1, in.y1), AtEnd(out.line, in.x1, in.y1))

ASSUME CaptionsAssumption ==
    \A c \in Captions :
        /\ c.s \in Seq(Seq(SUBSET (Nat \X Nat))) /\ c.scale \in Nat \ {0}
        /\ Unwrapped(c.x, Len(c.s) * (Glyph * c.scale), width)
        /\ Unwrapped(c.y, (Len(c.s) + 1) * (Glyph * c.scale + Leading), height)

DrawString ==
    Free /\ \E c \in Captions :
        Begin("string", c, [i |-> 1, pen |-> [y |-> U32(c.y), xoff |-> 0, drawn |-> {}]])

StringTurn ==
    /\ Running("string")
    /\ IF out.i > Len(in.s) THEN Continue(out, TRUE)
       ELSE Continue([i |-> out.i + 1, pen |-> rfb_draw_string(out.pen, in.s[out.i], U32(in.x),
                                                               in.scale)], FALSE)

Screen == [x : 0 .. width - 1, y : 0 .. height - 1]
Place(p) == p.y * width + p.x

(***************************************************************************)
(* rfb_fill_rect colours the visible part of the rectangle and nothing     *)
(* else of the framebuffer or beyond it, also for a corner left of or      *)
(* above the screen, which reaches it as a large unsigned number.          *)
(***************************************************************************)
RectClipped ==
    Returned("rect") =>
        out = {Place(p) : p \in {q \in Screen : /\ in.x <= q.x /\ q.x < in.x + in.w
                                                /\ in.y <= q.y /\ q.y < in.y + in.h}}

\* The longer side, and the points within half a pixel of the line.
Longer(l) == LET dx == Distance(l.x0, l.x1)
                 dy == Distance(l.y0, l.y1)
             IN  IF dx > dy THEN dx ELSE dy
OnLine(l, p) == 2 * Distance(Distance(l.x0, l.x1) * Distance(p.y, l.y0),
                             Distance(l.y0, l.y1) * Distance(p.x, l.x0)) <= Longer(l)
Near(p, q) == Distance(p.x, q.x) <= 1 /\ Distance(p.y, q.y) <= 1
Visible(points) == {Place(p) : p \in {points[n] : n \in 1 .. Len(points)} \cap Screen}

(***************************************************************************)
(* rfb_draw_line ends, at the second point, after one pixel per column or  *)
(* row, each next to the last and none further than half a pixel from the  *)
(* true line, in all eight directions; the visible ones are coloured.      *)
(***************************************************************************)
LineDrawn ==
    call.fn = "line" =>
        LET points == out.points
            count == Len(points)
        IN  /\ \A n \in 1 .. count : /\ OnLine(in, points[n])
                                     /\ n > 1 => Near(points[n - 1], points[n])
            /\ count > 0 => points[1] = [x |-> in.x0, y |-> in.y0]
            /\ IF call.over
               THEN count = Longer(in) + 1 /\ points[count] = [x |-> in.x1, y |-> in.y1]
               ELSE count <= Longer(in)
            /\ out.drawn = Visible(points)

\* Where character n of a caption stands, and the pixels its bits cover.
LineEnds(s, n) == {m \in 1 .. n - 1 : s[m] = <<>>}
SameLine(s, n) == {m \in 1 .. n - 1 : \A e \in LineEnds(s, n) : m > e}
Column(s, n) == Cardinality(SameLine(s, n))
Covers(c, n, p) ==
    LET size == Glyph * c.scale
        col == p.x - c.x - Column(c.s, n) * size
        row == p.y - c.y - Cardinality(LineEnds(c.s, n)) * (size + Leading)
    IN  /\ c.s[n] # <<>> /\ col \in 0 .. size - 1 /\ row \in 0 .. size - 1
        /\ <<row \div c.scale, col \div c.scale>> \in c.s[n][1]

(***************************************************************************)
(* rfb_draw_string colours a pixel of the screen exactly if it lies on a   *)
(* set bit of the character of its line and column, scaled.                *)
(***************************************************************************)
TextDrawn ==
    Returned("string") =>
        out.pen.drawn
          = {Place(p) : p \in {q \in Screen : \E n \in 1 .. Len(in.s) : Covers(in, n, q)}}

DrawingNext == FillRect \/ DrawLine \/ LineTurn \/ DrawString \/ StringTurn
DrawingSpec == CallsInit /\ [][DrawingNext \/ Return]_call
=============================================================================
