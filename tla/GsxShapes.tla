------------------------------ MODULE GsxShapes ------------------------------
(***************************************************************************)
(* The GSX figures of gfx.c as sets of pixels <<x, y>>, with x to the      *)
(* right and y downwards, and what each should be.  Nothing is drawn with  *)
(* the arguments of the host but by gfx_line, which pulls points outside   *)
(* the screen to its edge, and gfx_pixel, which leaves them out.           *)
(***************************************************************************)
EXTENDS Integers, FiniteSets, Sequences, SequencesExt

CONSTANTS W, H,        \* the screen in pixels
          FONT_WIDTH,
          Glyph,       \* the set pixels of a character, <<xx, yy>>
          Halftone,    \* the pixels of a halftone: the four tables are data
  Angle,       \* [<<x, y>> -> its angle by atan2, a float series], tenths of a degree
  GSX_GC_ARMLNG

ASSUME GsxAssumption == W \in Nat \ {0} /\ H \in Nat \ {0} /\ FONT_WIDTH \in Nat

Screen == (0 .. W - 1) \X (0 .. H - 1)

AbsOf(n) == IF n < 0 THEN -n ELSE n
Square(n) == n * n

pixel(x, y) == {<<x, y>>} \cap Screen

-----------------------------------------------------------------------------
(* gfx_line *)
Clamped(v, n) == IF v > n - 1 THEN n - 1 ELSE IF v < 0 THEN 0 ELSE v

(* Steps along the longer side n: how far the line has come sideways.      *)
Sideways(n, delta) ==
  LET at[i \in 0 .. n] ==
        IF i = 0 THEN [error |-> n \div 2, aside |-> 0]
        ELSE LET before == at[i - 1]  error == before.error - delta
             IN  IF error < 0 THEN [error |-> error + n, aside |-> before.aside + 1]
                 ELSE [error |-> error, aside |-> before.aside]
  IN  [i \in 0 .. n |-> at[i].aside]

(* Slip: the ends are not put in order. *)
LineFromFirst(x0, y0, x1, y1) ==
  LET a == <<Clamped(x0, W), Clamped(y0, H)>>
      b == <<Clamped(x1, W), Clamped(y1, H)>>
      steep == AbsOf(b[2] - a[2]) > AbsOf(b[1] - a[1])
      major == IF steep THEN 2 ELSE 1
      minor == 3 - major
      n     == AbsOf(b[major] - a[major])
      away  == IF a[minor] < b[minor] THEN 1 ELSE -1
      aside == Sideways(n, AbsOf(b[minor] - a[minor]))
  IN  {[c \in 1 .. 2 |-> IF c = major THEN a[c] + i ELSE a[c] + away * aside[i]] : i \in 0 .. n}

line(x0, y0, x1, y1) ==
  LET p == <<Clamped(x0, W), Clamped(y0, H)>>
      q == <<Clamped(x1, W), Clamped(y1, H)>>
      steep == AbsOf(q[2] - p[2]) > AbsOf(q[1] - p[1])
      major == IF steep THEN 2 ELSE 1
      minor == 3 - major
      a == IF p[major] > q[major] THEN q ELSE p
      b == IF p[major] > q[major] THEN p ELSE q
      away  == IF a[minor] < b[minor] THEN 1 ELSE -1
      aside == Sideways(b[major] - a[major], AbsOf(b[minor] - a[minor]))
  IN  {[c \in 1 .. 2 |-> IF c = major THEN a[c] + i ELSE a[c] + away * aside[i]] :
         i \in DOMAIN aside}

-----------------------------------------------------------------------------
(* gfx_filled_hline.  Solid and the full rows of two hatches are lines.    *)
Styles == {"hollow", "solid", "halftone", "vertical", "horizontal", "plus45", "minus45",
           "cross", "x"}

Inked(style, x, y) ==
  CASE style = "halftone" -> <<x % 32, y % 32>> \in Halftone
    [] style \in {"vertical", "cross"} -> x % 4 = 0
    [] style = "plus45"   -> (x + y) % 5 = 0
    [] style = "minus45"  -> (x - y) % 5 = 0
    [] style = "x"        -> (x + y) % 5 = 0 \/ (x - y) % 5 = 0
    [] OTHER              -> FALSE

filled_hline(x0, x1, y, style) ==
  IF style = "solid" \/ (style \in {"horizontal", "cross"} /\ y % 4 = 0)
  THEN line(x0, y, x1, y)
  ELSE {p \in (x0 .. x1) \X {y} : Inked(style, p[1], y)} \cap Screen

-----------------------------------------------------------------------------
draw_polyline(points) ==
  UNION {line(points[i][1], points[i][2], points[i + 1][1], points[i + 1][2]) :
           i \in 1 .. Len(points) - 1}

(* gfx_circle: the points of one eighth, from the top. *)
Eighth(r) ==
  LET from[k \in 0 .. r] ==
        IF k = 0 THEN [f |-> 1 - r, dx |-> 1, dy |-> -2 * r, x |-> 0, y |-> r]
        ELSE LET s == from[k - 1]
                 down == IF s.f >= 0 THEN 1 ELSE 0
                 dy == s.dy + 2 * down
             IN  IF s.x >= s.y THEN s
                 ELSE [f |-> s.f + down * dy + s.dx + 2, dx |-> s.dx + 2, dy |-> dy,
                       x |-> s.x + 1, y |-> s.y - down]
  IN  {<<from[k].x, from[k].y>> : k \in 0 .. r}

circle(x0, y0, r, filled, style) ==
  LET ring == UNION {UNION {pixel(x0 + sx * p[1], y0 + sy * p[2])
                              \cup pixel(x0 + sx * p[2], y0 + sy * p[1]) :
                              sx \in {1, -1}, sy \in {1, -1}} : p \in Eighth(r)}
      rows == UNION {UNION {filled_hline(x0 - p[1], x0 + p[1], y0 + sy * p[2], style)
                              \cup filled_hline(x0 - p[2], x0 + p[2], y0 + sy * p[1], style) :
                              sy \in {1, -1}} : p \in Eighth(r) \ {<<0, r>>}}
  IN  IF filled THEN ring \cup rows \cup filled_hline(x0 - r, x0 + r, y0, style) ELSE ring

(* gfx_draw_arc_point: a point of the eighth and its images, each with its *)
(* angle, counter-clockwise from the right.                                *)
Images(x0, y0, x, y) ==
  LET a == Angle[<<x, y>>]
  IN  {<<900 - a, x0 + y, y0 - x>>,  <<a, x0 + x, y0 - y>>,
       <<1800 - a, x0 - x, y0 - y>>, <<a + 900, x0 - y, y0 - x>>,
       <<2700 - a, x0 - y, y0 + x>>, <<a + 1800, x0 - x, y0 + y>>,
       <<3600 - a, x0 + x, y0 + y>>, <<a + 2700, x0 + y, y0 + x>>}

draw_arc(x0, y0, r, a0, a1) ==
  LET drawn == {p \in Eighth(r) : p[1] <= p[2]}
      within == {i \in UNION {Images(x0, y0, p[1], p[2]) : p \in drawn} : i[1] \in a0 .. a1}
  IN  UNION {pixel(i[2], i[3]) : i \in within}

(* An arc that runs through the angle 0 is two. *)
arc(x0, y0, r, start, end) ==
  IF start <= end THEN draw_arc(x0, y0, r, start, end)
  ELSE draw_arc(x0, y0, r, start, 3600) \cup draw_arc(x0, y0, r, 0, end)

(* gfx_draw_polymarkers; the division is one towards zero, and so is the   *)
(* product with 0.707.                                                     *)
MarkerArm(height) == IF height = 0 THEN 0 ELSE (height - 1) \div 2

marker(style, x, y, height) ==
  LET arm   == MarkerArm(height)
      short == (arm * 707) \div 1000
      plus  == line(x - arm, y, x + arm, y) \cup line(x, y - arm, x, y + arm)
      Cross(a) == line(x - a, y - a, x + a, y + a) \cup line(x - a, y + a, x + a, y - a)
  IN  CASE style = "dot"      -> pixel(x, y)
        [] style = "plus"     -> plus
        [] style = "asterisk" -> plus \cup Cross(short)
        [] style = "circle"   -> circle(x, y, arm, FALSE, "hollow")
        [] style = "cross"    -> Cross(arm)

draw_bitmap(x, y, w) == UNION {pixel(x + i, y) : i \in 0 .. w - 1}

bar(llx, lly, urx, ury, style) ==
  line(llx, lly, llx, ury) \cup line(llx, ury, urx, ury)
    \cup line(urx, ury, urx, lly) \cup line(urx, lly, llx, lly)
    \cup UNION {filled_hline(llx, urx, y, style) : y \in ury + 1 .. lly - 1}

(* The graphic cursor, in addresses of the framebuffer: the rectangle that *)
(* is saved, cut at the left and the top only, and how often each pixel is *)
(* recoloured.  Where the arms cross it is twice, which gives many colours *)
(* back, but not all: the table of get_xored_index is not its own inverse. *)
PFB(x, y) == y * W + x

place_graphic_cursor(x, y) ==
  LET From(v) == IF v < GSX_GC_ARMLNG THEN 0 ELSE v - GSX_GC_ARMLNG
      Size(v) == 2 * GSX_GC_ARMLNG + 1 + (IF v < GSX_GC_ARMLNG THEN v - GSX_GC_ARMLNG ELSE 0)
      Span(v) == From(v) .. From(v) + Size(v) - 1
      across  == {PFB(i, y) : i \in Span(x)}
      down    == {PFB(x, j) : j \in Span(y)}
  IN  [saved      |-> {PFB(i, j) : i \in Span(x), j \in Span(y)},
       recoloured |-> [a \in across \cup down |-> IF a \in across \cap down THEN 2 ELSE 1]]

-----------------------------------------------------------------------------
(* gfx_filled_polygon *)
EndOf(points, i) == points[IF i = Len(points) THEN 1 ELSE i + 1]

(* Slip: an edge has neither of its ends. *)
CutOpen(p, q, y) == (p[2] < y /\ q[2] > y) \/ (p[2] > y /\ q[2] < y)

(* Row y meets the edge from p to q: one of its ends belongs to it.        *)
Cut(p, q, y) == (p[2] <= y /\ q[2] > y) \/ (p[2] > y /\ q[2] <= y)

(* Where: the inverse slope is a float, and the column is cut off.  Below  *)
(* columns of ten or so single precision never misses a whole column.      *)
Column(p, q, y) ==
  LET dx == q[1] - p[1]  dy == q[2] - p[2]
  IN  IF dx = 0 THEN p[1]
      ELSE IF dy > 0 THEN (p[1] * dy + dx * (y - p[2])) \div dy
      ELSE (p[1] * (-dy) - dx * (y - p[2])) \div (-dy)

(* The columns of row y, in order: the k-th is the least that k edges are  *)
(* at or before.                                                           *)
Crossings(points, y) ==
  LET cut     == {i \in DOMAIN points : Cut(points[i], EndOf(points, i), y)}
      At      == [i \in cut |-> Column(points[i], EndOf(points, i), y)]
      Upto(x) == Cardinality({i \in cut : At[i] <= x})
  IN  [k \in 1 .. Cardinality(cut) |-> Min({x \in {At[i] : i \in cut} : Upto(x) >= k})]

Outline(points) ==
  UNION {LET q == EndOf(points, i) IN line(points[i][1], points[i][2], q[1], q[2]) :
           i \in DOMAIN points}

filled_polygon(points, style) ==
  Outline(points) \cup
  IF style = "hollow" THEN {}
  ELSE LET ys == {points[i][2] : i \in DOMAIN points}
           Row(y) == LET xi == Crossings(points, y)
                     IN  UNION {filled_hline(xi[2 * k - 1], xi[2 * k], y, style) :
                                  k \in 1 .. Len(xi) \div 2}
       IN  UNION {Row(y) : y \in Min(ys) .. Max(ys)}

-----------------------------------------------------------------------------
(* gfx_draw_text, n characters: x, y is the start of the baseline.         *)
draw_text(n, x, y, direction, size, height) ==
  LET rise == height - 1
      Set(i, xx, yy) ==
        CASE direction = 900  -> pixel(x - rise + yy, y - i * FONT_WIDTH * size - xx)
          [] direction = 1800 -> pixel(x - i * FONT_WIDTH * size - xx, y + rise - yy)
          [] direction = 2700 -> pixel(x + rise - yy, y + i * FONT_WIDTH * size + xx)
          [] OTHER            -> pixel(x + i * FONT_WIDTH * size + xx, y - rise + yy)
  IN  UNION {Set(i, g[1] * size + a, g[2] * size + b) :
               i \in 0 .. n - 1, g \in Glyph, a \in 0 .. size - 1, b \in 0 .. size - 1}

-----------------------------------------------------------------------------
(* What the figures should be. *)

(* A line joins its ends, one pixel for each step along its longer side,   *)
(* none more than half a pixel off, and is the same from either end.       *)
LineSound(x0, y0, x1, y1) ==
  LET a  == <<Clamped(x0, W), Clamped(y0, H)>>
      b  == <<Clamped(x1, W), Clamped(y1, H)>>
      dx == b[1] - a[1]
      dy == b[2] - a[2]
      n  == Max({AbsOf(dx), AbsOf(dy)})
      drawn == line(x0, y0, x1, y1)
  IN  /\ {a, b} \subseteq drawn /\ drawn \subseteq Screen /\ Cardinality(drawn) = n + 1
      /\ \A p \in drawn : 2 * AbsOf((p[1] - a[1]) * dy - (p[2] - a[2]) * dx) <= n
      /\ drawn = line(x1, y1, x0, y0)

(* A circle runs through every row of its height, within half a pixel of   *)
(* its radius or so; filled, it leaves no hole and nothing sticks out.     *)
CircleSound(x0, y0, r) ==
  LET ring  == circle(x0, y0, r, FALSE, "hollow")
      Xs(y) == {p[1] : p \in {q \in ring : q[2] = y}}
  IN  /\ \A p \in ring : AbsOf(Square(p[1] - x0) + Square(p[2] - y0) - Square(r)) <= r
      /\ \A y \in y0 - r .. y0 + r : Xs(y) # {}
      /\ circle(x0, y0, r, TRUE, "solid") =
           UNION {(Min(Xs(y)) .. Max(Xs(y))) \X {y} : y \in y0 - r .. y0 + r}

Ring(x0, y0, r) == circle(x0, y0, r, FALSE, "hollow")

(* An arc and the rest of the way round make the circle, and an arc that   *)
(* starts and ends a quarter later is the arc turned by a quarter.         *)
ArcSound(x0, y0, r, start, end) ==
  /\ start # end => arc(x0, y0, r, start, end) \cup arc(x0, y0, r, end, start) = Ring(x0, y0, r)
  /\ start <= end /\ end <= 2700 =>
       arc(x0, y0, r, start + 900, end + 900) =
         {<<x0 + (p[2] - y0), y0 - (p[1] - x0)>> : p \in arc(x0, y0, r, start, end)}

(* What the graphic cursor recolours was saved, so that removing it brings *)
(* all back; and on the screen it is four arms, recoloured once, about a   *)
(* centre that is recoloured twice.                                        *)
GraphicCursorSound(x, y) ==
  LET cursor == place_graphic_cursor(x, y)
      OnArm(p) == \/ p[1] = x /\ AbsOf(p[2] - y) \in 1 .. GSX_GC_ARMLNG
                  \/ p[2] = y /\ AbsOf(p[1] - x) \in 1 .. GSX_GC_ARMLNG
      Times(p) == cursor.recoloured[PFB(p[1], p[2])]
  IN  /\ DOMAIN cursor.recoloured \subseteq cursor.saved
      /\ \A p \in Screen : OnArm(p) => /\ PFB(p[1], p[2]) \in DOMAIN cursor.recoloured
                                       /\ Times(p) = 1
      /\ Times(<<x, y>>) = 2

(* The solid polygon: every pixel inside by the even-odd rule, computed    *)
(* without columns or sorting, and beside the outline only pixels inside   *)
(* or cut by an edge.  An edge covers the rows from its upper end to just  *)
(* above its lower one.                                                    *)
PolygonSound(points) ==
  LET Edge(i) == LET p == points[i]
                     q == EndOf(points, i)
                 IN  IF p[2] < q[2] THEN <<p, q>> ELSE <<q, p>>
      Right(e, x, y) == (x - e[1][1]) * (e[2][2] - e[1][2])   \* of the edge, scaled
                          - (e[2][1] - e[1][1]) * (y - e[1][2])
      Edges(y)     == {e \in {Edge(i) : i \in DOMAIN points} : e[1][2] <= y /\ y < e[2][2]}
      Left(x, y)   == {i \in DOMAIN points : Edge(i) \in Edges(y) /\ Right(Edge(i), x, y) >= 0}
      Inside(x, y) == \/ Cardinality(Left(x, y)) % 2 = 1
                      \/ \E e \in Edges(y) : Right(e, x, y) = 0
      CutBy(x, y)  == \E e \in Edges(y) : Right(e, x, y) <= 0 /\ Right(e, x + 1, y) > 0
      drawn == filled_polygon(points, "solid")
  IN  /\ \A p \in Screen : Inside(p[1], p[2]) => p \in drawn
      /\ \A p \in drawn \ Outline(points) : Inside(p[1], p[2]) \/ CutBy(p[1], p[2])

(* A fill style shows the same pattern of the screen whatever it fills.    *)
StyleSound(Figure(_)) ==
  \A style \in Styles :
    Figure(style) \ Figure("hollow") =
      {p \in Figure("solid") \ Figure("hollow") :
         \/ style = "solid"
         \/ style \in {"horizontal", "cross"} /\ p[2] % 4 = 0
         \/ Inked(style, p[1], p[2])}

(* A bar is its rectangle. *)
BarSound(llx, lly, urx, ury) ==
  bar(llx, lly, urx, ury, "solid") = (llx .. urx) \X (ury .. lly)

(* A marker looks the same in a mirror, and is as large as its arms.       *)
MarkerSound(style, x, y, height) ==
  LET drawn == marker(style, x, y, height)
      arm   == IF style = "dot" THEN 0 ELSE MarkerArm(height)
  IN  /\ {<<2 * x - p[1], p[2]>> : p \in drawn} = drawn
      /\ {<<p[1], 2 * y - p[2]>> : p \in drawn} = drawn
      /\ Max({p[1] - x : p \in drawn}) = arm

(* Turned text is the level text turned about its start.                   *)
TextSound(n, x, y, size, height) ==
  LET Turn(set) == {<<x + (p[2] - y), y - (p[1] - x)>> : p \in set}
      Text(d)   == draw_text(n, x, y, d, size, height)
  IN  /\ Text(0) # {} /\ Text(900) = Turn(Text(0))
      /\ Text(1800) = Turn(Text(900)) /\ Text(2700) = Turn(Text(1800))
=============================================================================
