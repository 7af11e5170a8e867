----------------------------- MODULE GfxProofs ------------------------------
(***************************************************************************)
(* The operators of Gfx: each keeps a context a context and leaves the     *)
(* cursor where it says (the lemmas ...At and ...Lands).  Before the end   *)
(* of a character the cursor may be one past the edge: Landed and LandedOn *)
(* say how far, and EndOfChar brings it back.                              *)
(*                                                                         *)
(* The second half is about the page behind the block, Logical of GfxPage: *)
(* the lemmas ...Works say that an operator applied to a Good context      *)
(* leaves one, and what it does to the page; the lemmas ...IsLogical, at   *)
(* the end, say which operation of LogicalScreen that is.                  *)
(***************************************************************************)
EXTENDS GfxPage, TLAPS

(* d is a context of c's geometry with the cursor at row, col. *)
At(c, d, row, col) ==
  /\ d \in Ctx
  /\ d.HEIGHT = c.HEIGHT /\ d.saved_cursor = c.saved_cursor
  /\ d.cursor_row = row /\ d.cursor_col = col

SavedOK(c) == c.saved_cursor[1] < MaxHeight /\ c.saved_cursor[2] < Width

(* A context between characters, and the stronger one that is on screen. *)
Settled(c) ==
  /\ c \in Ctx /\ SavedOK(c)
  /\ c.cursor_row < MaxHeight /\ c.cursor_col < Width
OnScreen(c) == c.cursor_row < c.HEIGHT /\ c.cursor_col < Width

(* A context before EndOfChar. *)
Landed(c)   == /\ c \in Ctx /\ SavedOK(c)
               /\ c.cursor_col = Width => c.cursor_row < MaxHeight
LandedOn(c) == /\ c.cursor_row <= c.HEIGHT
               /\ c.cursor_col = Width => c.cursor_row < c.HEIGHT

-----------------------------------------------------------------------------
LEMMA Sizes ==
  /\ Width \in Nat /\ Width > 0 /\ MaxHeight \in Nat /\ MaxHeight > 0
  /\ TabStop \in Nat /\ TabStop > 0 /\ MaxColour \in Nat
  /\ FullHeight \in Nat /\ MaxHeight <= FullHeight
BY SizeAssumption

LEMMA SwappedType ==
  ASSUME NEW c \in Ctx, NEW p \in Colour
  PROVE  Swapped(c, p) \in Colour
BY Sizes DEF Ctx, Swapped, Colour

LEMMA SolidType ==
  ASSUME NEW p \in Colour
  PROVE  Solid(p) \in Cell /\ SolidRow(p) \in [Cols -> Cell]
BY DEF Solid, SolidRow, Cell, Shape

LEMMA PaintType ==
  ASSUME NEW c \in Ctx
  PROVE  GET_FG(c) \in Colour /\ GET_BG(c) \in Colour
BY DEF Ctx, GET_FG, GET_BG

LEMMA CursorCellType ==
  ASSUME NEW c \in Ctx
  PROVE  CursorCell(c) \in Cell /\ Inverted(c, CursorCell(c)) \in Cell
<1>1. CursorCell(c) \in Cell
  BY DEF CursorCell, Ctx, Screen
<1>2. QED
  BY <1>1, SwappedType DEF Inverted, Cell

-----------------------------------------------------------------------------
(* Writing one cell, or the whole screen, keeps a context a context. *)
LEMMA PaintCell ==
  ASSUME NEW c \in Ctx, NEW cell \in Cell
  PROVE  At(c, [c EXCEPT !.fb[c.cursor_row][c.cursor_col] = cell],
            c.cursor_row, c.cursor_col)
BY DEF At, Ctx, Screen

LEMMA PaintScreen ==
  ASSUME NEW c \in Ctx, NEW s \in Screen
  PROVE  At(c, [c EXCEPT !.fb = s], c.cursor_row, c.cursor_col)
BY DEF At, Ctx

LEMMA RestoreAt ==
  ASSUME NEW c \in Ctx
  PROVE  At(c, gfx_restore_cursor_content(c), c.cursor_row, c.cursor_col)
<1>1. c.cursor_buffer \in Cell
  BY DEF Ctx
<1>2. QED
  BY <1>1, PaintCell DEF gfx_restore_cursor_content

LEMMA RenderAt ==
  ASSUME NEW c \in Ctx
  PROVE  At(c, gfx_term_render_cursor(c), c.cursor_row, c.cursor_col)
BY CursorCellType DEF At, gfx_term_render_cursor, Ctx, Screen, CursorCell

LEMMA RenderNewlineAt ==
  ASSUME NEW c \in Ctx
  PROVE  At(c, gfx_term_render_cursor_newline(c), c.cursor_row, c.cursor_col)
BY CursorCellType, PaintType, SolidType
   DEF At, gfx_term_render_cursor_newline, Ctx, Screen, CursorCell

LEMMA MovedToAt ==
  ASSUME NEW c \in Ctx, NEW row \in Rows, NEW col \in Cols
  PROVE  At(c, MovedTo(c, row, col), row, col)
<1> DEFINE lifted == gfx_restore_cursor_content(c)
           moved  == [lifted EXCEPT !.cursor_row = row, !.cursor_col = col]
<1>1. lifted \in Ctx /\ lifted.HEIGHT = c.HEIGHT
        /\ lifted.saved_cursor = c.saved_cursor
  BY RestoreAt DEF At
<1>2. At(c, moved, row, col)
  BY <1>1 DEF At, Ctx
<1>3. QED
  BY <1>2, RenderAt DEF At, MovedTo

LEMMA MoveCursorAt ==
  ASSUME NEW c \in Ctx, NEW row \in Int, NEW col \in Int
  PROVE  \E r \in Rows, k \in Cols :
           /\ r < c.HEIGHT /\ k < Width
           /\ At(c, gfx_term_move_cursor(c, row, col), r, k)
<1> DEFINE r == Least(c.HEIGHT - 1, Greatest(row, 0))
           k == Least(Width - 1, Greatest(col, 0))
<1>1. r \in Rows /\ r < c.HEIGHT /\ k \in Cols /\ k < Width
  BY Sizes DEF Ctx, Rows, Cols, Least, Greatest
<1>2. At(c, gfx_term_move_cursor(c, row, col), r, k)
  BY <1>1, MovedToAt DEF gfx_term_move_cursor
<1>3. QED
  BY <1>1, <1>2

LEMMA PutcAt ==
  ASSUME NEW c \in Ctx, NEW g \in Shape
  PROVE  At(c, gfx_putc(c, g), c.cursor_row, c.cursor_col)
<1>1. CASE c.cursor_col >= Width \/ c.cursor_row >= c.HEIGHT
  BY <1>1 DEF gfx_putc, At
<1>2. CASE ~(c.cursor_col >= Width \/ c.cursor_row >= c.HEIGHT)
  <2> DEFINE cell == IF g = Blank THEN Solid(GET_BG(c))
                     ELSE <<g, GET_FG(c), GET_BG(c)>>
  <2>1. cell \in Cell
    BY PaintType, SolidType DEF Cell
  <2>2. QED
    BY <1>2, <2>1, PaintCell DEF gfx_putc
<1>3. QED
  BY <1>1, <1>2

-----------------------------------------------------------------------------
(* The operations on whole rows. *)
LEMMA ClearAt ==
  ASSUME NEW c \in Ctx
  PROVE  At(c, gfx_clear(c), c.cursor_row, c.cursor_col)
<1>1. [r \in Rows |-> IF r < c.HEIGHT THEN SolidRow(GET_BG(c)) ELSE c.fb[r]]
        \in Screen
  BY PaintType, SolidType DEF Ctx, Screen
<1>2. QED
  BY <1>1, PaintScreen DEF gfx_clear

LEMMA ClearRectAt ==
  ASSUME NEW c \in Ctx, NEW rows, NEW cols
  PROVE  At(c, gfx_clear_rect(c, rows, cols), c.cursor_row, c.cursor_col)
<1>1. [r \in Rows |-> [k \in Cols |->
         IF r \in rows /\ r < c.HEIGHT /\ k \in cols /\ k < Width
         THEN Solid(c.bg) ELSE c.fb[r][k]]] \in Screen
  BY SolidType DEF Ctx, Screen
<1>2. QED
  BY <1>1, PaintScreen DEF gfx_clear_rect

LEMMA ScrollAt ==
  ASSUME NEW c \in Ctx
  PROVE  At(c, gfx_scroll_down(c), c.cursor_row, c.cursor_col)
<1>1. ASSUME NEW r \in Rows, ~(r >= c.HEIGHT), r # c.HEIGHT - 1
      PROVE  r + 1 \in Rows
  BY <1>1, Sizes DEF Ctx, Rows
<1>2. [r \in Rows |->
         IF r >= c.HEIGHT THEN c.fb[r]
         ELSE IF r = c.HEIGHT - 1 THEN SolidRow(GET_BG(c))
         ELSE c.fb[r + 1]] \in Screen
  BY <1>1, PaintType, SolidType DEF Ctx, Screen
<1>3. QED
  BY <1>2, PaintScreen DEF gfx_scroll_down

LEMMA DeleteAt ==
  ASSUME NEW c \in Ctx, NEW n \in Nat
  PROVE  At(c, gfx_delete_lines(c, c.cursor_row, n), c.cursor_row, c.cursor_col)
<1>1. ASSUME NEW r \in Rows, r + n < c.HEIGHT
      PROVE  r + n \in Rows
  BY <1>1, Sizes DEF Ctx, Rows
<1>2. [r \in Rows |->
         IF r < c.cursor_row \/ r >= c.HEIGHT THEN c.fb[r]
         ELSE IF r + n < c.HEIGHT THEN c.fb[r + n]
         ELSE SolidRow(GET_BG(c))] \in Screen
  BY <1>1, PaintType, SolidType DEF Screen, Ctx
<1>3. QED
  BY <1>2, PaintScreen DEF gfx_delete_lines

LEMMA LinesInsertedAt ==
  ASSUME NEW c \in Ctx, NEW n \in Nat
  PROVE  At(c, gfx_insert_lines(c, c.cursor_row, n), c.cursor_row, c.cursor_col)
<1>1. ASSUME NEW r \in Rows, r >= c.cursor_row + n
      PROVE  r - n \in Rows
  BY <1>1, Sizes DEF Ctx, Rows
<1>2. [r \in Rows |->
         IF r < Least(c.cursor_row, c.HEIGHT - n) \/ r >= c.HEIGHT THEN c.fb[r]
         ELSE IF r >= c.cursor_row + n THEN c.fb[r - n]
         ELSE SolidRow(GET_BG(c))] \in Screen
  BY <1>1, PaintType, SolidType DEF Screen, Ctx
<1>3. QED
  BY <1>2, PaintScreen DEF gfx_insert_lines

-----------------------------------------------------------------------------
(* The end of a character settles the cursor. *)
LEMMA WrapLands ==
  ASSUME NEW c, Landed(c)
  PROVE  /\ WrapLine(c) \in Ctx /\ SavedOK(WrapLine(c))
         /\ WrapLine(c).cursor_col < Width
         /\ LandedOn(c) => WrapLine(c).cursor_row <= WrapLine(c).HEIGHT
<1>1. CASE c.cursor_col < Width
  BY <1>1 DEF WrapLine, Landed, LandedOn
<1>2. CASE ~(c.cursor_col < Width)
  <2>1. c \in Ctx /\ c.cursor_col = Width /\ c.cursor_row < MaxHeight
    BY <1>2, Sizes DEF Landed, Ctx, Cols
  <2>2. c.cursor_row + 1 \in Rows /\ 0 \in Cols
    BY <2>1, Sizes DEF Ctx, Rows, Cols
  <2>3. At(c, WrapLine(c), c.cursor_row + 1, 0)
    BY <1>2, <2>1, <2>2, MovedToAt DEF WrapLine
  <2>4. LandedOn(c) => c.cursor_row + 1 <= c.HEIGHT
    BY <2>1 DEF LandedOn, Ctx, Rows
  <2>5. QED
    BY <2>3, <2>4, Sizes DEF At, SavedOK, Landed
<1>3. QED
  BY <1>1, <1>2

LEMMA ScrollScreenSettles ==
  ASSUME NEW c \in Ctx, SavedOK(c), c.cursor_col < Width
  PROVE  /\ Settled(ScrollScreen(c))
         /\ c.cursor_row <= c.HEIGHT => OnScreen(ScrollScreen(c))
<1>1. CASE c.cursor_row < c.HEIGHT
  BY <1>1, Sizes DEF ScrollScreen, Settled, OnScreen, Ctx, Rows
<1>2. CASE ~(c.cursor_row < c.HEIGHT)
  <2> DEFINE lifted == gfx_restore_cursor_content(c)
             up     == [lifted EXCEPT !.cursor_row = @ - 1]
  <2>1. c.cursor_row - 1 \in Rows
    BY <1>2, Sizes DEF Ctx, Rows
  <2>2. At(c, up, c.cursor_row - 1, c.cursor_col)
    <3>1. At(c, lifted, c.cursor_row, c.cursor_col)
      BY RestoreAt
    <3>2. QED
      BY <2>1, <3>1 DEF At, Ctx
  <2>3. At(c, gfx_scroll_down(up), c.cursor_row - 1, c.cursor_col)
    BY <2>2, ScrollAt DEF At
  <2>4. At(c, ScrollScreen(c), c.cursor_row - 1, c.cursor_col)
    BY <1>2, <2>3, RenderNewlineAt DEF At, ScrollScreen
  <2>5. QED
    BY <2>4, Sizes DEF At, Settled, OnScreen, SavedOK, Ctx, Rows
<1>3. QED
  BY <1>1, <1>2

LEMMA EndOfCharSettles ==
  ASSUME NEW c, Landed(c)
  PROVE  Settled(EndOfChar(c)) /\ (LandedOn(c) => OnScreen(EndOfChar(c)))
BY WrapLands, ScrollScreenSettles DEF EndOfChar

-----------------------------------------------------------------------------
(* Every operation lands.  Most leave the cursor on the screen; printing   *)
(* and line feed may go one past an edge.                                  *)
Lands(c, d) == Landed(d) /\ (OnScreen(c) => LandedOn(d))

(* The cursor ends where it was, or at a position of the screen. *)
LEMMA StayLands ==
  ASSUME NEW c, Settled(c), NEW d, At(c, d, c.cursor_row, c.cursor_col)
  PROVE  Settled(d) /\ Lands(c, d)
BY Sizes DEF Settled, OnScreen, Lands, Landed, LandedOn, At, SavedOK, Ctx, Rows, Cols

LEMMA MoveLands ==
  ASSUME NEW c, Settled(c), NEW d, NEW r \in Rows, NEW k \in Cols,
         At(c, d, r, k), r < c.HEIGHT, k < Width
  PROVE  Settled(d) /\ Lands(c, d)
BY Sizes DEF Settled, OnScreen, Lands, Landed, LandedOn, At, SavedOK, Ctx, Rows, Cols

LEMMA MoveCursorLands ==
  ASSUME NEW c, Settled(c), NEW row \in Int, NEW col \in Int
  PROVE  /\ Settled(gfx_term_move_cursor(c, row, col))
         /\ Lands(c, gfx_term_move_cursor(c, row, col))
BY MoveCursorAt, MoveLands DEF Settled

LEMMA SameRowLands ==
  ASSUME NEW c, Settled(c), NEW k \in Cols, k < Width
  PROVE  Lands(c, MovedTo(c, c.cursor_row, k))
<1>1. At(c, MovedTo(c, c.cursor_row, k), c.cursor_row, k)
  BY MovedToAt DEF Settled, Ctx
<1>2. QED
  BY <1>1, Sizes DEF Settled, OnScreen, Lands, Landed, LandedOn, At, SavedOK, Ctx, Rows, Cols

LEMMA PrintLands ==
  ASSUME NEW c, Settled(c), NEW g \in Shape
  PROVE  Lands(c, PrintGlyph(c, g))
<1> DEFINE drawn == gfx_putc(c, g)
           next  == [drawn EXCEPT !.cursor_col = @ + 1]
<1>1. At(c, drawn, c.cursor_row, c.cursor_col)
  BY PutcAt DEF Settled
<1>2. c.cursor_col + 1 \in Cols
  BY Sizes DEF Settled, Ctx, Cols
<1>3. At(c, next, c.cursor_row, c.cursor_col + 1)
  BY <1>1, <1>2 DEF At, Ctx
<1>4. At(c, PrintGlyph(c, g), c.cursor_row, c.cursor_col + 1)
  BY <1>3, RenderAt DEF At, PrintGlyph
<1>5. QED
  BY <1>4, Sizes DEF Settled, OnScreen, Lands, Landed, LandedOn, At, SavedOK, Ctx, Rows, Cols

LEMMA LineFeedLands ==
  ASSUME NEW c, Settled(c)
  PROVE  Lands(c, LineFeed(c))
<1>1. c.cursor_row + 1 \in Rows
  BY Sizes DEF Settled, Ctx, Rows
<1>2. At(c, LineFeed(c), c.cursor_row + 1, c.cursor_col)
  BY <1>1, MovedToAt DEF LineFeed, Settled, Ctx
<1>3. QED
  BY <1>2, Sizes DEF Settled, OnScreen, Lands, Landed, LandedOn, At, SavedOK, Ctx, Rows, Cols

LEMMA TabStops ==
  ASSUME NEW k \in Nat, NEW t \in Nat, t > 0
  PROVE  (k \div t) * t \in Nat /\ (k \div t) * t <= k
<1>1. k \div t \in Nat /\ k = t * (k \div t) + (k % t) /\ k % t \in Nat
  OBVIOUS
<1>2. ASSUME NEW q \in Nat PROVE q * t \in Nat /\ q * t = t * q
  OBVIOUS
<1>3. QED
  BY <1>1, <1>2

LEMMA ColumnMotionsLand ==
  ASSUME NEW c, Settled(c)
  PROVE  /\ Lands(c, CarriageReturn(c)) /\ Lands(c, Tab(c))
         /\ Lands(c, BackTab(c)) /\ Lands(c, Backspace(c))
<1> DEFINE stop == (c.cursor_col \div TabStop) * TabStop
<1>1. c.cursor_col \in Nat /\ c.cursor_col < Width
  BY Sizes DEF Settled, Ctx, Cols
<1>2. stop \in Nat /\ stop <= c.cursor_col
  BY <1>1, TabStops, Sizes
<1> HIDE DEF stop
<1>3. Lands(c, CarriageReturn(c))
  BY SameRowLands, Sizes DEF CarriageReturn, Cols
<1>4. Lands(c, Tab(c))
  <2>1. Least(stop + TabStop, Width - 1) \in Cols
          /\ Least(stop + TabStop, Width - 1) < Width
    BY <1>2, Sizes DEF Least, Cols
  <2>2. QED
    BY <2>1, SameRowLands DEF Tab, stop
<1>5. Lands(c, BackTab(c))
  <2> DEFINE k == IF c.cursor_col % TabStop # 0 THEN stop
                  ELSE Greatest(c.cursor_col - TabStop, 0)
  <2>1. k \in Cols /\ k < Width
    BY <1>1, <1>2, Sizes DEF Greatest, Cols
  <2>2. QED
    BY <2>1, SameRowLands DEF BackTab, stop
<1>6. Lands(c, Backspace(c))
  <2>1. CASE c.cursor_col = 0
    BY <2>1, Sizes DEF Backspace, Lands, Landed, LandedOn, OnScreen, Settled, Ctx, Rows
  <2>2. CASE c.cursor_col # 0
    <3>1. c.cursor_col - 1 \in Cols /\ c.cursor_col - 1 < Width
      BY <2>2, <1>1, Sizes DEF Cols
    <3>2. QED
      BY <2>2, <3>1, SameRowLands DEF Backspace
  <2>3. QED
    BY <2>1, <2>2
<1>7. QED
  BY <1>3, <1>4, <1>5, <1>6

LEMMA AddressingLands ==
  ASSUME NEW c, Settled(c), NEW n \in Nat, NEW k \in Nat
  PROVE  /\ Lands(c, CursorUp(c, n)) /\ Lands(c, CursorDown(c, n))
         /\ Lands(c, CursorRight(c, n)) /\ Lands(c, CursorLeft(c, n))
         /\ Lands(c, CursorPosition(c, n, k))
<1>1. /\ c.cursor_row \in Nat /\ c.cursor_col \in Nat /\ c.HEIGHT \in Nat
  BY Sizes DEF Settled, Ctx, Rows, Cols
<1>2. Lands(c, CursorUp(c, n))
  BY <1>1, MoveCursorLands DEF CursorUp, Greatest
<1>3. Lands(c, CursorDown(c, n))
  BY <1>1, MoveCursorLands DEF CursorDown, Least
<1>4. Lands(c, CursorRight(c, n))
  BY <1>1, MoveCursorLands, Sizes DEF CursorRight, Least
<1>5. Lands(c, CursorLeft(c, n))
  BY <1>1, MoveCursorLands DEF CursorLeft, Greatest
<1>6. Lands(c, CursorPosition(c, n, k))
  <2>1. Word \in Nat /\ Word > 0
    BY SizeAssumption
  <2>2. (n + Word - 1) % Word \in Int /\ (k + Word - 1) % Word \in Int
    BY <2>1
  <2> DEFINE r == (n + Word - 1) % Word
             q == (k + Word - 1) % Word
  <2> HIDE DEF r, q
  <2>3. Least(r, c.HEIGHT - 1) \in Int /\ Least(q, Width - 1) \in Int
    BY <2>2, <1>1, Sizes DEF Least, r, q
  <2>4. QED
    BY <2>3, MoveCursorLands DEF CursorPosition, r, q
<1>7. QED
  BY <1>2, <1>3, <1>4, <1>5, <1>6

LEMMA ClearLinesAt ==
  ASSUME NEW c \in Ctx, NEW from, NEW to
  PROVE  At(c, gfx_term_clear_lines(c, from, to), c.cursor_row, c.cursor_col)
<1> DEFINE lifted == gfx_restore_cursor_content(c)
           last   == Least(to, c.HEIGHT - 1)
           wiped  == gfx_clear_rect(lifted, from .. last, Cols)
<1>1. At(c, lifted, c.cursor_row, c.cursor_col)
  BY RestoreAt
<1>2. At(c, wiped, c.cursor_row, c.cursor_col)
  BY <1>1, ClearRectAt DEF At
<1>3. At(c, gfx_term_render_cursor(wiped), c.cursor_row, c.cursor_col)
  BY <1>2, RenderAt DEF At
<1>4. QED
  BY <1>1, <1>3 DEF gfx_term_clear_lines

LEMMA EraseInLineAt ==
  ASSUME NEW c \in Ctx, NEW mode
  PROVE  At(c, EraseInLine(c, mode), c.cursor_row, c.cursor_col)
<1>1. At(c, gfx_term_clear_till_end(c), c.cursor_row, c.cursor_col)
  BY RestoreAt, ClearRectAt, RenderAt DEF At, gfx_term_clear_till_end
<1>2. At(c, gfx_term_clear_till_cursor(c), c.cursor_row, c.cursor_col)
  BY RestoreAt, ClearRectAt, RenderAt DEF At, gfx_term_clear_till_cursor
<1>3. At(c, gfx_term_clear_line(c), c.cursor_row, c.cursor_col)
  BY ClearRectAt, RenderAt DEF At, gfx_term_clear_line
<1>4. At(c, c, c.cursor_row, c.cursor_col)
  BY DEF At
<1>5. QED
  BY <1>1, <1>2, <1>3, <1>4 DEF EraseInLine

LEMMA FormFeedLands ==
  ASSUME NEW c, Settled(c)
  PROVE  Lands(c, FormFeed(c))
<1> DEFINE home == gfx_term_move_cursor(c, 0, 0)
<1>1. PICK r \in Rows, k \in Cols :
        r < c.HEIGHT /\ k < Width /\ At(c, home, r, k)
  BY MoveCursorAt DEF Settled
<1>2. At(c, FormFeed(c), r, k)
  BY <1>1, ClearAt, RenderAt DEF At, FormFeed, gfx_term_clear_screen
<1>3. QED
  BY <1>1, <1>2, MoveLands

LEMMA EraseInDisplayLands ==
  ASSUME NEW c, Settled(c), NEW mode
  PROVE  Lands(c, EraseInDisplay(c, mode))
<1> DEFINE tail == gfx_term_clear_till_end(c)
           lead == gfx_term_clear_till_cursor(c)
<1>0. c \in Ctx
  BY DEF Settled
<1>1. At(c, tail, c.cursor_row, c.cursor_col)
  BY <1>0, RestoreAt, ClearRectAt, RenderAt DEF At, gfx_term_clear_till_end
<1>2. At(c, lead, c.cursor_row, c.cursor_col)
  BY <1>0, RestoreAt, ClearRectAt, RenderAt DEF At, gfx_term_clear_till_cursor
<1>3. ASSUME NEW from, NEW to
      PROVE  /\ At(c, gfx_term_clear_lines(tail, from, to), c.cursor_row, c.cursor_col)
             /\ At(c, gfx_term_clear_lines(lead, from, to), c.cursor_row, c.cursor_col)
  BY <1>1, <1>2, ClearLinesAt DEF At
<1>4. Lands(c, c)
  BY StayLands, <1>0 DEF At
<1>5. CASE mode = 0
  BY <1>1, <1>3, <1>5, StayLands DEF EraseInDisplay
<1>6. CASE mode = 1
  BY <1>2, <1>3, <1>6, StayLands DEF EraseInDisplay
<1>7. CASE mode = 2
  BY <1>7, FormFeedLands DEF EraseInDisplay
<1>8. CASE mode \notin {0, 1, 2}
  BY <1>8, <1>4 DEF EraseInDisplay
<1>9. QED
  BY <1>5, <1>6, <1>7, <1>8

LEMMA LinesLand ==
  ASSUME NEW c, Settled(c), NEW n \in Nat
  PROVE  Lands(c, DeleteLines(c, n)) /\ Lands(c, InsertLines(c, n))
<1> DEFINE lifted == gfx_restore_cursor_content(c)
<1>1. At(c, lifted, c.cursor_row, c.cursor_col)
  BY RestoreAt DEF Settled
<1>2. /\ At(c, gfx_delete_lines(lifted, c.cursor_row, n), c.cursor_row, c.cursor_col)
      /\ At(c, gfx_insert_lines(lifted, c.cursor_row, n), c.cursor_row, c.cursor_col)
  BY <1>1, DeleteAt, LinesInsertedAt, SMTT(60) DEF At
<1>3. /\ At(c, DeleteLines(c, n), c.cursor_row, c.cursor_col)
      /\ At(c, InsertLines(c, n), c.cursor_row, c.cursor_col)
  BY <1>2, RenderAt DEF At, DeleteLines, InsertLines
<1>4. QED
  BY <1>3, StayLands

LEMMA VisibilityLands ==
  ASSUME NEW c, Settled(c)
  PROVE  Lands(c, HideCursor(c)) /\ Lands(c, ShowCursor(c))
<1> DEFINE flagged(v) == [c EXCEPT !.cursor_visible = v]
<1>1. ASSUME NEW v \in BOOLEAN
      PROVE  At(c, flagged(v), c.cursor_row, c.cursor_col)
  BY DEF At, Settled, Ctx
<1>2. /\ At(c, HideCursor(c), c.cursor_row, c.cursor_col)
      /\ At(c, ShowCursor(c), c.cursor_row, c.cursor_col)
  BY <1>1, RestoreAt, RenderAt DEF At, HideCursor, ShowCursor
<1>3. QED
  BY <1>2, StayLands

LEMMA SaveLands ==
  ASSUME NEW c, Settled(c)
  PROVE  Lands(c, gfx_term_save_cursor(c))
BY Sizes DEF gfx_term_save_cursor, Settled, OnScreen, Lands, Landed, LandedOn,
             SavedOK, Ctx, Rows, Cols

(* A recalled position is settled; it is on the screen if it was saved there. *)
LEMMA RecallLands ==
  ASSUME NEW c, Settled(c)
  PROVE  /\ Landed(gfx_term_restore_cursor(c))
         /\ c.saved_cursor[1] < c.HEIGHT => LandedOn(gfx_term_restore_cursor(c))
<1>1. c.saved_cursor[1] \in Rows /\ c.saved_cursor[2] \in Cols
  BY DEF Settled, Ctx
<1>2. At(c, gfx_term_restore_cursor(c), c.saved_cursor[1], c.saved_cursor[2])
  BY <1>1, MovedToAt DEF Settled, gfx_term_restore_cursor
<1>3. QED
  BY <1>1, <1>2, Sizes DEF Settled, Landed, LandedOn, At, SavedOK, Ctx, Rows, Cols

LEMMA AttributesLand ==
  ASSUME NEW c, Settled(c), NEW f \in Colour, NEW b \in Colour, NEW i \in BOOLEAN
  PROVE  /\ Lands(c, [c EXCEPT !.fg = f]) /\ Lands(c, [c EXCEPT !.bg = b])
         /\ Lands(c, [c EXCEPT !.inverse = i])
         /\ Lands(c, [c EXCEPT !.default_fg = f, !.default_bg = b])
         /\ Lands(c, gfx_term_reset_attrib(c)) /\ Settled(gfx_term_reset_attrib(c))
<1>1. /\ At(c, [c EXCEPT !.fg = f], c.cursor_row, c.cursor_col)
      /\ At(c, [c EXCEPT !.bg = b], c.cursor_row, c.cursor_col)
      /\ At(c, [c EXCEPT !.inverse = i], c.cursor_row, c.cursor_col)
      /\ At(c, [c EXCEPT !.default_fg = f, !.default_bg = b], c.cursor_row, c.cursor_col)
      /\ At(c, gfx_term_reset_attrib(c), c.cursor_row, c.cursor_col)
  BY ZenonT(60) DEF At, Settled, Ctx, gfx_term_reset_attrib
<1>2. QED
  BY <1>1, StayLands

LEMMA ResetLands ==
  ASSUME NEW c, Settled(c)
  PROVE  Lands(c, ResetTerminal(c))
<1> DEFINE plain == gfx_term_reset_attrib(c)
<1>1. At(c, plain, c.cursor_row, c.cursor_col)
  BY DEF At, Settled, Ctx, gfx_term_reset_attrib
<1>2. Settled(plain) /\ (OnScreen(c) => OnScreen(plain))
  BY <1>1, StayLands DEF At, OnScreen
<1>3. Lands(plain, FormFeed(plain))
  BY <1>2, FormFeedLands
<1>4. QED
  BY <1>2, <1>3 DEF Lands, ResetTerminal

-----------------------------------------------------------------------------
(* A resize puts the cursor in the corner of a screen of at least one row. *)
LEMMA GeometrySettles ==
  ASSUME NEW c \in Ctx, SavedOK(c), NEW edge \in Colour
  PROVE  /\ Settled(gfx_set_screen_geometry(c, edge))
         /\ OnScreen(gfx_set_screen_geometry(c, edge))
<1> DEFINE pfb == BorderRows(c.font_height, c.line_limit)
           h   == TermHeight(c.font_height, c.line_limit)
           inside(r) == /\ pfb + r * c.font_height >= c.pfb
                        /\ pfb + (r + 1) * c.font_height <= FullHeight - c.pfb
           s   == [r \in Rows |-> SolidRow(IF inside(r) THEN GET_BG(c) ELSE edge)]
           new == [c EXCEPT !.fb = s, !.pfb = pfb, !.HEIGHT = h,
                            !.cursor_row = 0, !.cursor_col = 0]
<1>1. s \in Screen
  BY PaintType, SolidType DEF Screen
<1>2. pfb \in 0 .. FullHeight /\ h \in 1 .. MaxHeight
  BY FontAssumption DEF Ctx
<1>3. 0 \in Rows /\ 0 \in Cols
  BY Sizes DEF Rows, Cols
<1> HIDE DEF s, pfb, h
<1>4. /\ new \in Ctx /\ new.cursor_row = 0 /\ new.cursor_col = 0
      /\ new.HEIGHT = h /\ new.saved_cursor = c.saved_cursor
  BY <1>1, <1>2, <1>3 DEF Ctx
<1>5. At(new, gfx_term_render_cursor(new), 0, 0)
  BY <1>4, RenderAt
<1>6. gfx_set_screen_geometry(c, edge) = gfx_term_render_cursor(new)
  BY DEF gfx_set_screen_geometry, s, pfb, h
<1>7. QED
  BY <1>2, <1>4, <1>5, <1>6, Sizes DEF At, Settled, OnScreen, SavedOK

(* F12 sets the geometry for the next font and a limit that still fits.    *)
LEMMA ToggledFont ==
  ASSUME NEW c, Settled(c), NEW edge
  PROVE  \E h \in FontSet, l \in 0 .. FullHeight :
           gfx_toggle_font_height(c, edge) =
             gfx_set_screen_geometry([c EXCEPT !.font_height = h, !.line_limit = l], edge)
<1> DEFINE i == CHOOSE i \in DOMAIN Fonts : Fonts[i] = c.font_height
           h == Fonts[(i % Len(Fonts)) + 1]
           l == Least(c.line_limit, FullHeight \div h)
<1>1. i \in DOMAIN Fonts
  BY DEF Settled, Ctx, FontSet
<1>2. (i % Len(Fonts)) + 1 \in DOMAIN Fonts
  <2>1. Len(Fonts) \in Nat /\ DOMAIN Fonts = 1 .. Len(Fonts)
    BY FontAssumption
  <2>2. i \in 1 .. Len(Fonts) /\ Len(Fonts) > 0
    BY <1>1, <2>1
  <2> HIDE DEF i
  <2>3. i % Len(Fonts) \in 0 .. Len(Fonts) - 1
    BY <2>1, <2>2
  <2>4. QED
    BY <2>1, <2>3
<1> HIDE DEF i
<1>3. h \in FontSet
  BY <1>2 DEF FontSet
<1> HIDE DEF h
<1>4. l \in 0 .. FullHeight
  <2>1. FullHeight \div h \in 1 .. FullHeight
    BY <1>3, FontAssumption
  <2>2. c.line_limit \in 0 .. FullHeight
    BY DEF Settled, Ctx
  <2>3. QED
    BY <2>1, <2>2, Sizes DEF Least
<1>5. gfx_toggle_font_height(c, edge) =
        gfx_set_screen_geometry([c EXCEPT !.font_height = h, !.line_limit = l], edge)
  BY DEF gfx_toggle_font_height, gfx_set_font_height, i, h
<1>6. QED
  BY <1>3, <1>4, <1>5

LEMMA ToggleFontSettles ==
  ASSUME NEW c, Settled(c), NEW edge \in Colour
  PROVE  /\ Settled(gfx_toggle_font_height(c, edge))
         /\ OnScreen(gfx_toggle_font_height(c, edge))
<1>1. PICK h \in FontSet, l \in 0 .. FullHeight :
        gfx_toggle_font_height(c, edge) =
          gfx_set_screen_geometry([c EXCEPT !.font_height = h, !.line_limit = l], edge)
  BY ToggledFont
<1>2. /\ [c EXCEPT !.font_height = h, !.line_limit = l] \in Ctx
      /\ SavedOK([c EXCEPT !.font_height = h, !.line_limit = l])
  BY DEF Settled, Ctx, SavedOK
<1>3. QED
  BY <1>1, <1>2, GeometrySettles

LEMMA ToggledLimitType ==
  ASSUME NEW c, Settled(c)
  PROVE  ToggledLimit(c) \in 0 .. FullHeight
<1>1. FullHeight \div c.font_height \in 1 .. FullHeight
  BY FontAssumption DEF Settled, Ctx
<1>2. c.line_limit \in 0 .. FullHeight /\ c.HEIGHT \in 1 .. MaxHeight
  BY DEF Settled, Ctx
<1>3. QED
  BY <1>1, <1>2, Sizes, SizeAssumption DEF ToggledLimit

LEMMA ToggleLinesSettles ==
  ASSUME NEW c, Settled(c), NEW edge \in Colour
  PROVE  /\ Settled(gfx_toggle_lines(c, edge))
         /\ OnScreen(gfx_toggle_lines(c, edge))
<1>1. ToggledLimit(c) \in 0 .. FullHeight
  BY ToggledLimitType
<1>2. /\ [c EXCEPT !.line_limit = ToggledLimit(c)] \in Ctx
      /\ SavedOK([c EXCEPT !.line_limit = ToggledLimit(c)])
  BY <1>1 DEF Settled, Ctx, SavedOK
<1>3. QED
  BY <1>2, GeometrySettles DEF gfx_toggle_lines

LEMMA PowerUpSettles == Settled(PowerUp) /\ OnScreen(PowerUp)
<1> DEFINE c == [ fb |-> [r \in Rows |-> SolidRow(DEFAULT_BG)],
      pfb |-> BorderRows(FONT_HEIGHT, 0), HEIGHT |-> TermHeight(FONT_HEIGHT, 0),
      cursor_row |-> 0, cursor_col |-> 0, saved_cursor |-> <<0, 0>>,
      cursor_visible |-> TRUE, cursor_buffer |-> Solid(DEFAULT_BG),
      fg |-> DEFAULT_FG, bg |-> DEFAULT_BG, inverse |-> FALSE,
      default_fg |-> DEFAULT_FG, default_bg |-> DEFAULT_BG,
      line_limit |-> 0, font_height |-> FONT_HEIGHT ]
<1>1. 0 \in Rows /\ 0 \in Cols /\ 0 \in 0 .. FullHeight
  BY Sizes DEF Rows, Cols
<1>2. DEFAULT_FG \in Colour /\ DEFAULT_BG \in Colour
  BY SizeAssumption DEF Colour
<1>3. /\ FONT_HEIGHT \in FontSet /\ TermHeight(FONT_HEIGHT, 0) \in 1 .. MaxHeight
      /\ BorderRows(FONT_HEIGHT, 0) \in 0 .. FullHeight
  BY <1>1, FontAssumption
<1>3a. [r \in Rows |-> SolidRow(DEFAULT_BG)] \in Screen
  BY <1>2, SolidType DEF Screen
<1>3b. Solid(DEFAULT_BG) \in Cell
  BY <1>2, SolidType
<1>4. c \in Ctx
  BY <1>1, <1>2, <1>3, <1>3a, <1>3b DEF Ctx
<1>5. At(c, PowerUp, 0, 0)
  BY <1>4, RenderAt DEF PowerUp
<1>6. QED
  BY <1>3, <1>5, Sizes DEF At, Settled, OnScreen, SavedOK

-----------------------------------------------------------------------------
(* The graphics calls. *)
LEMMA FlagAt ==
  ASSUME NEW c, Settled(c), NEW v \in BOOLEAN
  PROVE  /\ At(c, [c EXCEPT !.cursor_visible = v], c.cursor_row, c.cursor_col)
         /\ [c EXCEPT !.cursor_visible = v] \in Ctx
BY DEF At, Settled, Ctx

LEMMA OpenAndCloseLand ==
  ASSUME NEW c, Settled(c)
  PROVE  /\ Lands(c, gfx_close_workstation(c))
         /\ Lands(c, gfx_open_workstation(c))
<1> DEFINE closed == gfx_close_workstation(c)
           hidden == HideCursor(closed)
<1>1. At(c, closed, c.cursor_row, c.cursor_col)
  BY FlagAt, RestoreAt, ZenonT(60) DEF At, gfx_close_workstation
<1>2. Settled(closed) /\ Lands(c, closed)
  BY <1>1, StayLands
<1>3. At(closed, hidden, closed.cursor_row, closed.cursor_col)
  BY <1>2, FlagAt, RestoreAt, ZenonT(60) DEF At, HideCursor
<1>4. At(c, hidden, c.cursor_row, c.cursor_col)
  BY <1>1, <1>3 DEF At
<1>5. Settled(hidden) /\ (OnScreen(c) => OnScreen(hidden))
  BY <1>4, StayLands DEF At, OnScreen
<1>6. Lands(hidden, FormFeed(hidden))
  BY <1>5, FormFeedLands
<1>7. gfx_open_workstation(c) = FormFeed(hidden)
  BY DEF gfx_open_workstation, gfx_clear_workstation
<1>8. QED
  BY <1>2, <1>5, <1>6, <1>7 DEF Lands

LEMMA EscapeLands ==
  ASSUME NEW c, Settled(c), NEW id \in 2 .. 10
  PROVE  Lands(c, gfx_escape(c, id))
<1>1. CASE id = 2
  <2>1. At(c, EnterGraphicsMode(c), c.cursor_row, c.cursor_col)
    BY FlagAt, RenderAt, ZenonT(60) DEF At, EnterGraphicsMode
  <2>2. QED
    BY <1>1, <2>1, StayLands DEF gfx_escape
<1>2. CASE id = 3
  BY <1>2, VisibilityLands DEF gfx_escape
<1>3. CASE id \in 4 .. 7
  BY <1>3, AddressingLands DEF gfx_escape
<1>4. CASE id = 8
  BY <1>4, MoveCursorLands DEF gfx_escape
<1>5. CASE id = 9
  BY <1>5, EraseInDisplayLands DEF gfx_escape
<1>6. CASE id = 10
  <2>1. At(c, EraseInLine(c, 0), c.cursor_row, c.cursor_col)
    BY EraseInLineAt DEF Settled
  <2>2. QED
    BY <1>6, <2>1, StayLands DEF gfx_escape
<1>7. QED
  BY <1>1, <1>2, <1>3, <1>4, <1>5, <1>6

LEMMA DrawingLands ==
  ASSUME NEW c, Settled(c), NEW mark \in Cell, NEW r \in Rows, NEW k \in Cols
  PROVE  Lands(c, [c EXCEPT !.fb[r][k] = mark])
<1>1. At(c, [c EXCEPT !.fb[r][k] = mark], c.cursor_row, c.cursor_col)
  BY DEF At, Settled, Ctx, Screen
<1>2. QED
  BY <1>1, StayLands

-----------------------------------------------------------------------------
(* What is on the screen.  Lift is the framebuffer without the block; an   *)
(* operation Paints when it leaves the attributes alone, says what is on   *)
(* the screen and where the cursor is, and has the block and its saved     *)
(* copy agree: equal while the cursor is hidden, and while it is shown     *)
(* different, unless the two colours are the same.                         *)
Lift(c) == [c.fb EXCEPT ![c.cursor_row][c.cursor_col] = c.cursor_buffer]

Kept(c, d) ==
  /\ d.fg = c.fg /\ d.bg = c.bg /\ d.inverse = c.inverse
  /\ d.default_fg = c.default_fg /\ d.default_bg = c.default_bg
  /\ d.cursor_visible = c.cursor_visible

Clean(c)    == ~c.cursor_visible => CursorCell(c) = c.cursor_buffer
Distinct(c) == c.cursor_visible => CursorCell(c) # c.cursor_buffer
Contrast(c) == c.fg # c.bg

Paints(c, d, s, row, col) ==
  /\ At(c, d, row, col) /\ Kept(c, d) /\ Lift(d) = s
  /\ Clean(d) /\ (Contrast(c) => Distinct(d))

LEMMA LiftType ==
  ASSUME NEW c \in Ctx
  PROVE  Lift(c) \in Screen
BY DEF Lift, Ctx, Screen

(* A step that paints after one that lifts, or moves, or paints. *)
LEMMA PaintsAfter ==
  ASSUME NEW c \in Ctx, NEW d \in Ctx, Kept(c, d), d.HEIGHT = c.HEIGHT,
         d.saved_cursor = c.saved_cursor,
         NEW e, NEW s, NEW row, NEW col, Paints(d, e, s, row, col)
  PROVE  Paints(c, e, s, row, col)
BY DEF Paints, At, Kept, Contrast

LEMMA RestoreLifts ==
  ASSUME NEW c \in Ctx
  PROVE  /\ At(c, gfx_restore_cursor_content(c), c.cursor_row, c.cursor_col)
         /\ Kept(c, gfx_restore_cursor_content(c))
         /\ gfx_restore_cursor_content(c).fb = Lift(c)
         /\ gfx_restore_cursor_content(c).cursor_buffer = c.cursor_buffer
<1>1. /\ Kept(c, gfx_restore_cursor_content(c))
      /\ gfx_restore_cursor_content(c).fb = Lift(c)
      /\ gfx_restore_cursor_content(c).cursor_buffer = c.cursor_buffer
  BY DEF Ctx, Kept, Lift, gfx_restore_cursor_content
<1>2. QED
  BY <1>1, RestoreAt

(* The block of two different colours never hides itself. *)
LEMMA InvertedDiffers ==
  ASSUME NEW c \in Ctx, Contrast(c), NEW cell \in Cell
  PROVE  Inverted(c, cell) # cell
<1>1. MaxColour % 2 = 1 /\ MaxColour \in Nat
  BY SizeAssumption
<1>2. ASSUME NEW p \in Colour PROVE Swapped(c, p) # p
  BY <1>1, <1>2 DEF Swapped, Colour, Contrast
<1>3. cell[2] \in Colour
  BY DEF Cell
<1>4. Inverted(c, cell)[2] # cell[2]
  BY <1>2, <1>3 DEF Inverted
<1>5. QED
  BY <1>4

LEMMA RenderPaints ==
  ASSUME NEW c \in Ctx
  PROVE  Paints(c, gfx_term_render_cursor(c), c.fb, c.cursor_row, c.cursor_col)
<1> DEFINE d == gfx_term_render_cursor(c)
           block == IF c.cursor_visible THEN Inverted(c, CursorCell(c)) ELSE CursorCell(c)
<1>1. At(c, d, c.cursor_row, c.cursor_col)
  BY RenderAt
<1>2. /\ d.cursor_buffer = CursorCell(c) /\ Kept(c, d)
      /\ d.fb = [c.fb EXCEPT ![c.cursor_row][c.cursor_col] = block]
  BY DEF Ctx, Kept, gfx_term_render_cursor, CursorCell
<1>3. c.fb \in Screen /\ c.cursor_row \in Rows /\ c.cursor_col \in Cols
  BY DEF Ctx
<1>4. CursorCell(d) = block
  BY <1>1, <1>2, <1>3 DEF At, CursorCell, Screen
<1>5. Lift(d) = c.fb
  BY <1>1, <1>2, <1>3 DEF At, Lift, CursorCell, Screen
<1>6. CursorCell(c) \in Cell
  BY CursorCellType
<1>7. Clean(d) /\ (Contrast(c) => Distinct(d))
  BY <1>2, <1>4, <1>6, InvertedDiffers DEF Clean, Distinct, Kept
<1>8. QED
  BY <1>1, <1>2, <1>5, <1>7 DEF Paints

LEMMA NewlinePaints ==
  ASSUME NEW c \in Ctx, CursorCell(c) = Solid(GET_BG(c))
  PROVE  Paints(c, gfx_term_render_cursor_newline(c), c.fb, c.cursor_row, c.cursor_col)
<1> DEFINE d == gfx_term_render_cursor_newline(c)
           block == IF c.cursor_visible THEN Solid(GET_FG(c)) ELSE CursorCell(c)
<1>1. At(c, d, c.cursor_row, c.cursor_col)
  BY RenderNewlineAt
<1>2. /\ d.cursor_buffer = CursorCell(c) /\ Kept(c, d)
      /\ d.fb = [c.fb EXCEPT ![c.cursor_row][c.cursor_col] = block]
  BY DEF Ctx, Kept, gfx_term_render_cursor_newline, CursorCell
<1>3. c.fb \in Screen /\ c.cursor_row \in Rows /\ c.cursor_col \in Cols
  BY DEF Ctx
<1>4. CursorCell(d) = block
  BY <1>1, <1>2, <1>3 DEF At, CursorCell, Screen
<1>5. Lift(d) = c.fb
  BY <1>1, <1>2, <1>3 DEF At, Lift, CursorCell, Screen
<1>6. Contrast(c) => Solid(GET_FG(c)) # Solid(GET_BG(c))
  BY DEF Contrast, GET_FG, GET_BG, Solid
<1>7. Clean(d) /\ (Contrast(c) => Distinct(d))
  BY <1>2, <1>4, <1>6 DEF Clean, Distinct, Kept
<1>8. QED
  BY <1>1, <1>2, <1>5, <1>7 DEF Paints

LEMMA MovedToPaints ==
  ASSUME NEW c \in Ctx, NEW row \in Rows, NEW col \in Cols
  PROVE  Paints(c, MovedTo(c, row, col), Lift(c), row, col)
<1> DEFINE lifted == gfx_restore_cursor_content(c)
           moved  == [lifted EXCEPT !.cursor_row = row, !.cursor_col = col]
<1>1. At(c, lifted, c.cursor_row, c.cursor_col) /\ Kept(c, lifted) /\ lifted.fb = Lift(c)
  BY RestoreLifts
<1>2. At(c, moved, row, col) /\ Kept(c, moved) /\ moved.fb = Lift(c)
  BY <1>1 DEF At, Kept, Ctx
<1> HIDE DEF lifted, moved
<1>3. Paints(moved, gfx_term_render_cursor(moved), Lift(c), row, col)
  BY <1>2, RenderPaints DEF At
<1>4. QED
  BY <1>2, <1>3, PaintsAfter DEF At, MovedTo, lifted, moved

LEMMA MoveCursorPaints ==
  ASSUME NEW c \in Ctx, NEW row \in Int, NEW col \in Int
  PROVE  \E r \in Rows, k \in Cols :
           /\ r < c.HEIGHT /\ k < Width
           /\ Paints(c, gfx_term_move_cursor(c, row, col), Lift(c), r, k)
<1> DEFINE r == Least(c.HEIGHT - 1, Greatest(row, 0))
           k == Least(Width - 1, Greatest(col, 0))
<1>1. r \in Rows /\ r < c.HEIGHT /\ k \in Cols /\ k < Width
  BY Sizes DEF Ctx, Rows, Cols, Least, Greatest
<1>2. Paints(c, gfx_term_move_cursor(c, row, col), Lift(c), r, k)
  BY <1>1, MovedToPaints DEF gfx_term_move_cursor
<1>3. QED
  BY <1>1, <1>2

(* What one operation does to the screen s of a context of height h. *)
Glyph(c, g) == IF g = Blank THEN Solid(GET_BG(c)) ELSE <<g, GET_FG(c), GET_BG(c)>>

Wiped(s, h, rows, cols, bg) ==
  [r \in Rows |-> [k \in Cols |->
     IF r \in rows /\ r < h /\ k \in cols /\ k < Width THEN Solid(bg) ELSE s[r][k]]]

Emptied(s, h, paper) == [r \in Rows |-> IF r < h THEN SolidRow(paper) ELSE s[r]]

Scrolled(s, h, paper) ==
  [r \in Rows |-> IF r >= h THEN s[r]
                  ELSE IF r = h - 1 THEN SolidRow(paper) ELSE s[r + 1]]

LEMMA PrintPaints ==
  ASSUME NEW c \in Ctx, OnScreen(c), NEW g \in Shape
  PROVE  Paints(c, PrintGlyph(c, g),
                [Lift(c) EXCEPT ![c.cursor_row][c.cursor_col] = Glyph(c, g)],
                c.cursor_row, c.cursor_col + 1)
<1> DEFINE drawn == gfx_putc(c, g)
           next  == [drawn EXCEPT !.cursor_col = @ + 1]
           s     == [Lift(c) EXCEPT ![c.cursor_row][c.cursor_col] = Glyph(c, g)]
<1>1. /\ c.cursor_row \in Rows /\ c.cursor_col \in Cols /\ c.cursor_col + 1 \in Cols
      /\ ~(c.cursor_col >= Width \/ c.cursor_row >= c.HEIGHT)
  BY Sizes DEF OnScreen, Ctx, Rows, Cols
<1>2. drawn = [c EXCEPT !.fb[c.cursor_row][c.cursor_col] = Glyph(c, g)]
  BY <1>1 DEF gfx_putc, Glyph
<1>3. At(c, drawn, c.cursor_row, c.cursor_col)
  BY PutcAt
<1>4. drawn.fb = s /\ Kept(c, drawn)
  BY <1>1, <1>2 DEF Kept, Lift, Ctx, Screen
<1>5. At(c, next, c.cursor_row, c.cursor_col + 1) /\ Kept(c, next) /\ next.fb = s
  BY <1>1, <1>3, <1>4 DEF At, Kept, Ctx
<1> HIDE DEF drawn, next, s
<1>6. Paints(next, gfx_term_render_cursor(next), s, c.cursor_row, c.cursor_col + 1)
  BY <1>5, RenderPaints DEF At
<1>7. QED
  BY <1>5, <1>6, PaintsAfter DEF At, PrintGlyph, drawn, next, s

(* Wiping cells and drawing the block again. *)
LEMMA WipePaints ==
  ASSUME NEW c \in Ctx, NEW rows, NEW cols
  PROVE  Paints(c, gfx_term_render_cursor(
                     gfx_clear_rect(gfx_restore_cursor_content(c), rows, cols)),
                Wiped(Lift(c), c.HEIGHT, rows, cols, c.bg), c.cursor_row, c.cursor_col)
<1> DEFINE lifted == gfx_restore_cursor_content(c)
           wiped  == gfx_clear_rect(lifted, rows, cols)
           s      == Wiped(Lift(c), c.HEIGHT, rows, cols, c.bg)
<1>1. At(c, lifted, c.cursor_row, c.cursor_col) /\ Kept(c, lifted) /\ lifted.fb = Lift(c)
  BY RestoreLifts
<1> HIDE DEF lifted
<1>2. At(lifted, wiped, lifted.cursor_row, lifted.cursor_col)
  BY <1>1, ClearRectAt DEF At
<1>3. wiped.fb = s /\ Kept(lifted, wiped)
  BY <1>1 DEF gfx_clear_rect, Wiped, Kept, At, Ctx
<1>4. At(c, wiped, c.cursor_row, c.cursor_col) /\ Kept(c, wiped)
  BY <1>1, <1>2, <1>3 DEF At, Kept
<1> HIDE DEF wiped, s
<1>5. Paints(wiped, gfx_term_render_cursor(wiped), s, c.cursor_row, c.cursor_col)
  BY <1>3, <1>4, RenderPaints DEF At
<1>6. QED
  BY <1>4, <1>5, PaintsAfter DEF At, lifted, wiped, s

(* Clearing the cursor's line does without lifting the block first.        *)
LEMMA LinePaints ==
  ASSUME NEW c \in Ctx, OnScreen(c)
  PROVE  Paints(c, gfx_term_clear_line(c),
                Wiped(Lift(c), c.HEIGHT, {c.cursor_row}, Cols, c.bg),
                c.cursor_row, c.cursor_col)
<1> DEFINE wiped == gfx_clear_rect(c, {c.cursor_row}, Cols)
           s     == Wiped(Lift(c), c.HEIGHT, {c.cursor_row}, Cols, c.bg)
<1>1. At(c, wiped, c.cursor_row, c.cursor_col)
  BY ClearRectAt
<1>2. Kept(c, wiped)
  BY DEF gfx_clear_rect, Kept, Ctx
<1>3. wiped.fb = s
  <2>1. c.cursor_row < c.HEIGHT /\ c.cursor_col < Width
    BY DEF OnScreen
  <2>2. /\ c.fb \in Screen /\ c.cursor_row \in Rows /\ c.cursor_col \in Cols
    BY DEF Ctx
  <2>3. \A r \in Rows, k \in Cols :
          ~(r = c.cursor_row /\ k = c.cursor_col) => Lift(c)[r][k] = c.fb[r][k]
    BY <2>2 DEF Lift, Screen
  <2>4. wiped.fb = Wiped(c.fb, c.HEIGHT, {c.cursor_row}, Cols, c.bg)
    BY DEF gfx_clear_rect, Wiped, Ctx
  <2>5. \A r \in Rows : \A k \in Cols :
          (IF r \in {c.cursor_row} /\ r < c.HEIGHT /\ k \in Cols /\ k < Width
           THEN Solid(c.bg) ELSE c.fb[r][k])
          = (IF r \in {c.cursor_row} /\ r < c.HEIGHT /\ k \in Cols /\ k < Width
             THEN Solid(c.bg) ELSE Lift(c)[r][k])
    BY <2>1, <2>3
  <2>6. QED
    BY <2>4, <2>5 DEF Wiped
<1> HIDE DEF wiped, s
<1>4. Paints(wiped, gfx_term_render_cursor(wiped), s, c.cursor_row, c.cursor_col)
  BY <1>1, <1>3, RenderPaints DEF At
<1>5. QED
  BY <1>1, <1>2, <1>4, PaintsAfter DEF At, gfx_term_clear_line, wiped, s

LEMMA ClearLinesPaints ==
  ASSUME NEW c \in Ctx, NEW from, NEW to, ~(from > Least(to, c.HEIGHT - 1))
  PROVE  Paints(c, gfx_term_clear_lines(c, from, to),
                Wiped(Lift(c), c.HEIGHT, from .. Least(to, c.HEIGHT - 1), Cols, c.bg),
                c.cursor_row, c.cursor_col)
<1> DEFINE lifted == gfx_restore_cursor_content(c)
<1>1. lifted.HEIGHT = c.HEIGHT
  BY RestoreLifts DEF At
<1>2. QED
  BY <1>1, WipePaints DEF gfx_term_clear_lines

LEMMA FormFeedPaints ==
  ASSUME NEW c \in Ctx, OnScreen(c)
  PROVE  Paints(c, FormFeed(c), Emptied(Lift(c), c.HEIGHT, GET_BG(c)), 0, 0)
<1> DEFINE home == gfx_term_move_cursor(c, 0, 0)
           bare == gfx_clear(home)
           s    == Emptied(Lift(c), c.HEIGHT, GET_BG(c))
<1>1. 0 \in Rows /\ 0 \in Cols /\ c.HEIGHT \in Nat /\ c.HEIGHT > 0
  BY Sizes DEF Rows, Cols, Ctx
<1>2. home = MovedTo(c, 0, 0)
  BY <1>1, Sizes DEF gfx_term_move_cursor, Least, Greatest
<1>3. Paints(c, home, Lift(c), 0, 0)
  BY <1>1, <1>2, MovedToPaints
<1> HIDE DEF home
<1>4. At(home, bare, 0, 0)
  BY <1>3, ClearAt DEF Paints, At
<1>5. Kept(home, bare) /\ GET_BG(home) = GET_BG(c)
  BY <1>3 DEF gfx_clear, Kept, GET_BG, Paints, At, Ctx
<1>6. bare.fb = s
  <2>1. home.fb \in Screen /\ home.HEIGHT = c.HEIGHT /\ home.cursor_row = 0
          /\ home.cursor_col = 0
    BY <1>3 DEF Paints, At, Ctx
  <2>2. \A r \in Rows : r >= c.HEIGHT => home.fb[r] = Lift(home)[r]
    BY <1>1, <2>1 DEF Lift, Screen, Rows
  <2>3. Lift(home) = Lift(c)
    BY <1>3 DEF Paints
  <2>4. bare.fb = Emptied(home.fb, c.HEIGHT, GET_BG(c))
    BY <1>3, <1>5, <2>1 DEF gfx_clear, Emptied, Paints, At, Ctx
  <2>5. \A r \in Rows : (IF r < c.HEIGHT THEN SolidRow(GET_BG(c)) ELSE home.fb[r])
                        = (IF r < c.HEIGHT THEN SolidRow(GET_BG(c)) ELSE Lift(c)[r])
    BY <1>1, <2>2, <2>3, Sizes DEF Rows
  <2>6. QED
    BY <2>4, <2>5 DEF Emptied
<1>7. At(c, bare, 0, 0) /\ Kept(c, bare)
  BY <1>3, <1>4, <1>5 DEF Paints, At, Kept
<1> HIDE DEF bare, s
<1>8. Paints(bare, gfx_term_render_cursor(bare), s, 0, 0)
  BY <1>6, <1>7, RenderPaints DEF At
<1>9. QED
  BY <1>7, <1>8, PaintsAfter DEF At, FormFeed, gfx_term_clear_screen, home, bare, s

-----------------------------------------------------------------------------
(* The end of a character, on the screen.  A cursor inside it stays; one   *)
(* past the edge wraps, and one below the last row scrolls the page.       *)
LEMMA EndOfCharStays ==
  ASSUME NEW c, OnScreen(c)
  PROVE  EndOfChar(c) = c
BY DEF OnScreen, EndOfChar, WrapLine, ScrollScreen

(* The row that scrolls in is paper, so the block drawn without reading it *)
(* back lifts to paper.                                                    *)
LEMMA ScrollPaints ==
  ASSUME NEW c \in Ctx, c.cursor_row = c.HEIGHT, c.cursor_col < Width
  PROVE  Paints(c, ScrollScreen(c), Scrolled(Lift(c), c.HEIGHT, GET_BG(c)),
                c.HEIGHT - 1, c.cursor_col)
<1> DEFINE lifted   == gfx_restore_cursor_content(c)
           up       == [lifted EXCEPT !.cursor_row = @ - 1]
           scrolled == gfx_scroll_down(up)
           s        == Scrolled(Lift(c), c.HEIGHT, GET_BG(c))
<1>1. /\ c.HEIGHT \in Nat /\ c.HEIGHT > 0 /\ c.HEIGHT - 1 \in Rows
      /\ c.cursor_col \in Cols
  BY Sizes DEF Ctx, Rows
<1>2. At(c, lifted, c.cursor_row, c.cursor_col) /\ Kept(c, lifted) /\ lifted.fb = Lift(c)
  BY RestoreLifts
<1>3. At(c, up, c.HEIGHT - 1, c.cursor_col) /\ Kept(c, up) /\ up.fb = Lift(c)
  BY <1>1, <1>2 DEF At, Kept, Ctx
<1> HIDE DEF lifted, up
<1>4. At(c, scrolled, c.HEIGHT - 1, c.cursor_col)
  BY <1>3, ScrollAt DEF At
<1>5. Kept(c, scrolled) /\ GET_BG(up) = GET_BG(c) /\ GET_BG(scrolled) = GET_BG(c)
  BY <1>3 DEF gfx_scroll_down, Kept, GET_BG, At, Ctx
<1>6. scrolled.fb = s
  BY <1>3, <1>5 DEF gfx_scroll_down, Scrolled, At, Ctx
<1>7. CursorCell(scrolled) = Solid(GET_BG(scrolled))
  <2>1. s[c.HEIGHT - 1] = SolidRow(GET_BG(c))
    BY <1>1 DEF Scrolled
  <2>2. QED
    BY <1>1, <1>4, <1>5, <1>6, <2>1 DEF CursorCell, At, SolidRow
<1> HIDE DEF scrolled, s
<1>8. Paints(scrolled, gfx_term_render_cursor_newline(scrolled), s, c.HEIGHT - 1, c.cursor_col)
  BY <1>4, <1>6, <1>7, NewlinePaints DEF At
<1>9. Paints(c, gfx_term_render_cursor_newline(scrolled), s, c.HEIGHT - 1, c.cursor_col)
  BY <1>4, <1>5, <1>8, PaintsAfter DEF At
<1>10. QED
  BY <1>1, <1>9 DEF ScrollScreen, lifted, up, scrolled, s

(* What is painted with the cursor on row + 1, which may be below the page. *)
Advanced(c, s, row) ==
  IF row + 1 < c.HEIGHT THEN s ELSE Scrolled(s, c.HEIGHT, GET_BG(c))
NextRow(c, row) == IF row + 1 < c.HEIGHT THEN row + 1 ELSE row

LEMMA AdvancePaints ==
  ASSUME NEW c \in Ctx, NEW row \in Nat, row < c.HEIGHT, NEW col, col < Width,
         NEW d, NEW s, Paints(c, d, s, row + 1, col)
  PROVE  Paints(c, ScrollScreen(d), Advanced(c, s, row), NextRow(c, row), col)
<1>1. /\ d \in Ctx /\ d.HEIGHT = c.HEIGHT /\ d.cursor_row = row + 1
      /\ d.cursor_col = col /\ Kept(c, d) /\ Lift(d) = s
      /\ d.saved_cursor = c.saved_cursor
  BY DEF Paints, At
<1>2. c.HEIGHT \in Nat
  BY Sizes DEF Ctx
<1>3. CASE row + 1 < c.HEIGHT
  BY <1>1, <1>3 DEF ScrollScreen, Advanced, NextRow
<1>4. CASE ~(row + 1 < c.HEIGHT)
  <2>1. row + 1 = c.HEIGHT
    BY <1>2, <1>4
  <2>2. GET_BG(d) = GET_BG(c)
    BY <1>1 DEF Kept, GET_BG
  <2>3. Paints(d, ScrollScreen(d), Scrolled(s, c.HEIGHT, GET_BG(c)), c.HEIGHT - 1, col)
    BY <1>1, <2>1, <2>2, ScrollPaints
  <2>4. Paints(c, ScrollScreen(d), Scrolled(s, c.HEIGHT, GET_BG(c)), c.HEIGHT - 1, col)
    BY <1>1, <2>3, PaintsAfter
  <2>5. QED
    BY <1>4, <2>1, <2>4 DEF Advanced, NextRow
<1>5. QED
  BY <1>3, <1>4

(* A character, with what follows it: the next column, or the next row. *)
LEMMA CharPaints ==
  ASSUME NEW c \in Ctx, OnScreen(c), NEW g \in Shape
  PROVE  LET s == [Lift(c) EXCEPT ![c.cursor_row][c.cursor_col] = Glyph(c, g)]
         IN  IF c.cursor_col + 1 < Width
             THEN Paints(c, EndOfChar(PrintGlyph(c, g)), s, c.cursor_row, c.cursor_col + 1)
             ELSE Paints(c, EndOfChar(PrintGlyph(c, g)), Advanced(c, s, c.cursor_row),
                         NextRow(c, c.cursor_row), 0)
<1> DEFINE d   == PrintGlyph(c, g)
           s   == [Lift(c) EXCEPT ![c.cursor_row][c.cursor_col] = Glyph(c, g)]
           row == c.cursor_row
           col == c.cursor_col
<1>1. Paints(c, d, s, row, col + 1)
  BY PrintPaints
<1> HIDE DEF d, s
<1>2. /\ d \in Ctx /\ d.HEIGHT = c.HEIGHT /\ d.cursor_row = row
      /\ d.cursor_col = col + 1 /\ Kept(c, d) /\ Lift(d) = s
      /\ d.saved_cursor = c.saved_cursor
  BY <1>1 DEF Paints, At
<1>3. row \in Nat /\ row < c.HEIGHT /\ col \in Nat /\ col < Width
  BY Sizes DEF OnScreen, Ctx, Rows, Cols
<1>4. CASE col + 1 < Width
  <2>1. EndOfChar(d) = d
    BY <1>2, <1>3, <1>4, EndOfCharStays DEF OnScreen
  <2>2. QED
    BY <1>1, <1>4, <2>1 DEF d, s
<1>5. CASE ~(col + 1 < Width)
  <2>1. row + 1 \in Rows /\ 0 \in Cols
    BY <1>3, Sizes DEF Rows, Cols, Ctx
  <2>2. WrapLine(d) = MovedTo(d, row + 1, 0)
    BY <1>2, <1>5 DEF WrapLine
  <2>3. Paints(d, WrapLine(d), s, row + 1, 0)
    BY <1>2, <2>1, <2>2, MovedToPaints
  <2>4. Paints(c, WrapLine(d), s, row + 1, 0)
    BY <1>2, <2>3, PaintsAfter
  <2>5. Paints(c, EndOfChar(d), Advanced(c, s, row), NextRow(c, row), 0)
    BY <1>3, <2>4, AdvancePaints, Sizes DEF EndOfChar
  <2>6. QED
    BY <1>5, <2>5 DEF d, s
<1>6. QED
  BY <1>4, <1>5

LEMMA FeedPaints ==
  ASSUME NEW c \in Ctx, OnScreen(c)
  PROVE  Paints(c, EndOfChar(LineFeed(c)), Advanced(c, Lift(c), c.cursor_row),
                NextRow(c, c.cursor_row), c.cursor_col)
<1>1. /\ c.cursor_row \in Nat /\ c.cursor_row < c.HEIGHT /\ c.cursor_row + 1 \in Rows
      /\ c.cursor_col \in Cols /\ c.cursor_col < Width
  BY Sizes DEF OnScreen, Ctx, Rows, Cols
<1>2. Paints(c, LineFeed(c), Lift(c), c.cursor_row + 1, c.cursor_col)
  BY <1>1, MovedToPaints DEF LineFeed
<1>3. WrapLine(LineFeed(c)) = LineFeed(c)
  BY <1>1, <1>2 DEF WrapLine, Paints, At
<1>4. QED
  BY <1>1, <1>2, <1>3, AdvancePaints DEF EndOfChar

-----------------------------------------------------------------------------
(* The page: what is on the screen, cut to the text area.                  *)
Cut(s, h) == [r \in 0 .. h - 1 |-> [k \in 0 .. Width - 1 |-> s[r][k]]]

LEMMA CutCells ==
  ASSUME NEW s, NEW h
  PROVE  /\ DOMAIN Cut(s, h) = 0 .. h - 1
         /\ \A r \in 0 .. h - 1, k \in 0 .. Width - 1 : Cut(s, h)[r][k] = s[r][k]
BY DEF Cut

LEMMA PageIsCut ==
  ASSUME NEW c \in Ctx
  PROVE  Page(c) = Cut(Lift(c), c.HEIGHT)
<1>1. \A r \in 0 .. c.HEIGHT - 1, k \in 0 .. Width - 1 : r \in Rows /\ k \in Cols
  BY Sizes DEF Rows, Cols, Ctx
<1>2. c.fb \in Screen /\ c.cursor_row \in Rows /\ c.cursor_col \in Cols
  BY DEF Ctx
<1>3. \A r \in Rows, k \in Cols :
        Lift(c)[r][k] = IF r = c.cursor_row /\ k = c.cursor_col
                        THEN c.cursor_buffer ELSE c.fb[r][k]
  BY <1>2 DEF Lift, Screen
<1>4. QED
  BY <1>1, <1>3 DEF Page, Cut

(* A context between characters of a host that keeps to its conditions.    *)
Good(c)  == Settled(c) /\ OnScreen(c) /\ Clean(c)
Vivid(c) == c.fg # c.bg /\ c.default_fg # c.default_bg

Border(c, d) == \A r \in Rows : r >= c.HEIGHT => d.fb[r] = c.fb[r]
Frame(c, d)  == d.HEIGHT = c.HEIGHT /\ d.saved_cursor = c.saved_cursor
Colours(c, d) == /\ d.fg = c.fg /\ d.bg = c.bg /\ d.inverse = c.inverse
                 /\ d.default_fg = c.default_fg /\ d.default_bg = c.default_bg
Stays(c, d)  == d.cursor_row = c.cursor_row /\ d.cursor_col = c.cursor_col

LEMMA OnScreenBorder ==
  ASSUME NEW c \in Ctx, OnScreen(c), NEW r \in Rows, r >= c.HEIGHT
  PROVE  Lift(c)[r] = c.fb[r]
<1>1. c.cursor_row # r /\ c.fb \in Screen
  BY Sizes DEF OnScreen, Ctx, Rows
<1>2. QED
  BY <1>1 DEF Lift, Screen

LEMMA PaintedWell ==
  ASSUME NEW c, Good(c), NEW d, NEW s, NEW row, NEW col, Paints(c, d, s, row, col),
         row < c.HEIGHT, col < Width,
         \A r \in Rows : r >= c.HEIGHT => s[r] = Lift(c)[r]
  PROVE  /\ Good(d) /\ EndOfChar(d) = d /\ Page(d) = Cut(s, c.HEIGHT)
         /\ Frame(c, d) /\ Kept(c, d) /\ Border(c, d)
         /\ d.cursor_row = row /\ d.cursor_col = col
         /\ Contrast(c) => Distinct(d)
<1>1. c \in Ctx /\ SavedOK(c) /\ OnScreen(c)
  BY DEF Good, Settled
<1>2. /\ d \in Ctx /\ d.HEIGHT = c.HEIGHT /\ d.cursor_row = row
      /\ d.cursor_col = col /\ Kept(c, d) /\ Lift(d) = s
      /\ d.saved_cursor = c.saved_cursor /\ Clean(d) /\ (Contrast(c) => Distinct(d))
  BY DEF Paints, At
<1>3. OnScreen(d) /\ EndOfChar(d) = d
  BY <1>2, EndOfCharStays DEF OnScreen
<1>4. Good(d)
  BY <1>1, <1>2, <1>3, Sizes DEF Good, Settled, SavedOK, OnScreen, Ctx, Rows
<1>5. Page(d) = Cut(s, c.HEIGHT)
  BY <1>2, PageIsCut
<1>6. Border(c, d)
  BY <1>1, <1>2, <1>3, OnScreenBorder DEF Border
<1>7. QED
  BY <1>2, <1>3, <1>4, <1>5, <1>6 DEF Frame

(* The cuts of what the operations paint. *)
Marked(s, row, col, cell) == [s EXCEPT ![row][col] = cell]

BlankLine(paper)   == [k \in 0 .. Width - 1 |-> Solid(paper)]
Rolled(page, paper) ==
  [r \in DOMAIN page |-> IF r + 1 \in DOMAIN page THEN page[r + 1] ELSE BlankLine(paper)]

LEMMA CutGlyph ==
  ASSUME NEW s \in Screen, NEW h \in 1 .. MaxHeight, NEW row \in Nat, NEW col \in Nat,
         row < h, col < Width, NEW cell
  PROVE  /\ Cut(Marked(s, row, col, cell), h) = Marked(Cut(s, h), row, col, cell)
         /\ \A r \in Rows : r >= h => Marked(s, row, col, cell)[r] = s[r]
<1>1. row \in Rows /\ col \in Cols
  BY Sizes DEF Rows, Cols
<1> DEFINE new == [s EXCEPT ![row][col] = cell]
<1>2. \A r \in Rows, k \in Cols :
        new[r][k] = IF r = row /\ k = col THEN cell ELSE s[r][k]
  BY <1>1 DEF Screen
<1>3. \A r \in Rows : r # row => new[r] = s[r]
  BY <1>1 DEF Screen
<1> HIDE DEF new
<1>4. \A r \in 0 .. h - 1 : r \in Rows
  BY Sizes DEF Rows
<1>5. \A k \in 0 .. Width - 1 : k \in Cols
  BY Sizes DEF Cols
<1>6. Cut(new, h) = [r \in 0 .. h - 1 |-> [k \in 0 .. Width - 1 |->
                       IF r = row /\ k = col THEN cell ELSE s[r][k]]]
  BY <1>2, <1>4, <1>5 DEF Cut
<1>7. row \in 0 .. h - 1 /\ col \in 0 .. Width - 1
  BY Sizes
<1>8. [Cut(s, h) EXCEPT ![row][col] = cell] =
        [r \in 0 .. h - 1 |-> [k \in 0 .. Width - 1 |->
           IF r = row /\ k = col THEN cell ELSE s[r][k]]]
  BY <1>7 DEF Cut
<1>9. \A r \in Rows : r >= h => new[r] = s[r]
  BY <1>3 DEF Rows
<1>10. QED
  BY <1>6, <1>8, <1>9 DEF new, Marked

LEMMA CutScrolled ==
  ASSUME NEW s, NEW h \in 1 .. MaxHeight, NEW paper
  PROVE  /\ Cut(Scrolled(s, h, paper), h) = Rolled(Cut(s, h), paper)
         /\ \A r \in Rows : r >= h => Scrolled(s, h, paper)[r] = s[r]
<1>1. /\ h \in Nat /\ \A r \in 0 .. h - 1 : r \in Rows
      /\ \A k \in 0 .. Width - 1 : k \in Cols
  BY Sizes DEF Rows, Cols
<1>2. DOMAIN Cut(s, h) = 0 .. h - 1
  BY DEF Cut
<1>3. ASSUME NEW r \in 0 .. h - 1
      PROVE  Cut(Scrolled(s, h, paper), h)[r] = Rolled(Cut(s, h), paper)[r]
  <2>1. CASE r = h - 1
    <3>1. Scrolled(s, h, paper)[r] = SolidRow(paper) /\ r + 1 \notin 0 .. h - 1
      BY <1>1, <2>1 DEF Scrolled
    <3>2. Rolled(Cut(s, h), paper)[r] = BlankLine(paper)
      BY <1>2, <3>1 DEF Rolled
    <3>3. QED
      BY <1>1, <3>1, <3>2 DEF Cut, SolidRow, BlankLine
  <2>2. CASE r # h - 1
    <3>1. Scrolled(s, h, paper)[r] = s[r + 1] /\ r + 1 \in 0 .. h - 1
      BY <1>1, <2>2 DEF Scrolled
    <3>2. Rolled(Cut(s, h), paper)[r] = Cut(s, h)[r + 1]
      BY <1>2, <3>1 DEF Rolled
    <3>3. QED
      BY <3>1, <3>2 DEF Cut
  <2>3. QED
    BY <2>1, <2>2
<1>4. Cut(Scrolled(s, h, paper), h) = [r \in 0 .. h - 1 |-> Cut(Scrolled(s, h, paper), h)[r]]
  BY DEF Cut
<1>5. Rolled(Cut(s, h), paper) = [r \in 0 .. h - 1 |-> Rolled(Cut(s, h), paper)[r]]
  BY <1>2 DEF Rolled
<1>6. QED
  BY <1>3, <1>4, <1>5 DEF Scrolled

LEMMA CutEmptied ==
  ASSUME NEW s, NEW h \in 1 .. MaxHeight, NEW paper
  PROVE  /\ Cut(Emptied(s, h, paper), h) = [r \in 0 .. h - 1 |-> BlankLine(paper)]
         /\ \A r \in Rows : r >= h => Emptied(s, h, paper)[r] = s[r]
<1>1. \A r \in 0 .. h - 1, k \in 0 .. Width - 1 : r \in Rows /\ k \in Cols
  BY Sizes DEF Rows, Cols
<1>2. \A r \in Rows : r < h => Emptied(s, h, paper)[r] = SolidRow(paper)
  BY DEF Emptied
<1>3. \A r \in 0 .. h - 1, k \in 0 .. Width - 1 : Emptied(s, h, paper)[r][k] = Solid(paper)
  BY <1>1, <1>2 DEF SolidRow
<1>4. \A r \in Rows : r >= h => Emptied(s, h, paper)[r] = s[r]
  BY Sizes DEF Emptied, Rows
<1>5. QED
  BY <1>3, <1>4 DEF Cut, BlankLine

LEMMA CutWiped ==
  ASSUME NEW s \in Screen, NEW h \in 1 .. MaxHeight, NEW rows, NEW cols, NEW bg \in Colour
  PROVE  /\ Cut(Wiped(s, h, rows, cols, bg), h) =
              [r \in 0 .. h - 1 |-> [k \in 0 .. Width - 1 |->
                 IF r \in rows /\ k \in cols THEN Solid(bg) ELSE Cut(s, h)[r][k]]]
         /\ \A r \in Rows : r >= h => Wiped(s, h, rows, cols, bg)[r] = s[r]
         /\ Wiped(s, h, rows, cols, bg) \in Screen
<1>1. \A r \in 0 .. h - 1, k \in 0 .. Width - 1 : r \in Rows /\ k \in Cols /\ r < h /\ k < Width
  BY Sizes DEF Rows, Cols
<1>2. \A r \in Rows, k \in Cols : Wiped(s, h, rows, cols, bg)[r][k] =
        IF r \in rows /\ r < h /\ k \in cols /\ k < Width THEN Solid(bg) ELSE s[r][k]
  BY DEF Wiped
<1>3. \A r \in 0 .. h - 1, k \in 0 .. Width - 1 : Cut(s, h)[r][k] = s[r][k]
  BY DEF Cut
<1>4. \A r \in 0 .. h - 1, k \in 0 .. Width - 1 : Wiped(s, h, rows, cols, bg)[r][k] =
        IF r \in rows /\ k \in cols THEN Solid(bg) ELSE Cut(s, h)[r][k]
  BY <1>1, <1>2, <1>3
<1>5. Cut(Wiped(s, h, rows, cols, bg), h) =
        [r \in 0 .. h - 1 |-> [k \in 0 .. Width - 1 |->
           IF r \in rows /\ k \in cols THEN Solid(bg) ELSE Cut(s, h)[r][k]]]
  BY <1>4 DEF Cut
<1>6. ASSUME NEW r \in Rows, r >= h PROVE Wiped(s, h, rows, cols, bg)[r] = s[r]
  <2>1. ~(r < h)
    BY <1>6, Sizes DEF Rows
  <2>2. Wiped(s, h, rows, cols, bg)[r] = [k \in Cols |-> s[r][k]]
    BY <2>1 DEF Wiped
  <2>3. QED
    BY <2>2 DEF Screen
<1>7. Solid(bg) \in Cell
  BY SolidType
<1>8. Wiped(s, h, rows, cols, bg) \in Screen
  BY <1>7 DEF Wiped, Screen
<1>9. QED
  BY <1>5, <1>6, <1>8

(* Deleting and inserting lines, told of a screen and of a page. *)
Deleted(s, h, row, n, paper) ==
  [r \in Rows |-> IF r < row \/ r >= h THEN s[r]
                  ELSE IF r + n < h THEN s[r + n] ELSE SolidRow(paper)]
Inserted(s, h, row, n, paper) ==
  [r \in Rows |-> IF r < row \/ r >= h THEN s[r]
                  ELSE IF r >= row + n THEN s[r - n] ELSE SolidRow(paper)]

PageDeleted(page, row, n, paper) ==
  [r \in DOMAIN page |->
    IF r < row THEN page[r]
    ELSE IF r + n \in DOMAIN page THEN page[r + n] ELSE BlankLine(paper)]
PageInserted(page, row, n, paper) ==
  [r \in DOMAIN page |->
    IF r < row THEN page[r]
    ELSE IF r - n >= row THEN page[r - n] ELSE BlankLine(paper)]

LEMMA CutDeleted ==
  ASSUME NEW s, NEW h \in 1 .. MaxHeight, NEW row \in Nat, row < h, NEW n \in Nat, NEW paper
  PROVE  /\ \E m \in 0 .. h :
              Cut(Deleted(s, h, row, n, paper), h) = PageDeleted(Cut(s, h), row, m, paper)
         /\ \A r \in Rows : r >= h => Deleted(s, h, row, n, paper)[r] = s[r]
<1> DEFINE m == Least(n, h)
           t == Deleted(s, h, row, n, paper)
           p == PageDeleted(Cut(s, h), row, m, paper)
<1>1. /\ h \in Nat /\ \A r \in 0 .. h - 1 : r \in Rows
      /\ \A k \in 0 .. Width - 1 : k \in Cols
  BY Sizes DEF Rows, Cols
<1>2. m \in 0 .. h /\ \A r \in 0 .. h - 1 :
        r + m \in 0 .. h - 1 <=> r + n < h
  BY <1>1 DEF Least
<1>3. \A r \in 0 .. h - 1 : r + n < h => r + m = r + n
  BY <1>1 DEF Least
<1> HIDE DEF m
<1>4. DOMAIN Cut(s, h) = 0 .. h - 1
        /\ \A r \in 0 .. h - 1 : Cut(s, h)[r] = [k \in 0 .. Width - 1 |-> s[r][k]]
  BY DEF Cut
<1>5. [k \in 0 .. Width - 1 |-> SolidRow(paper)[k]] = BlankLine(paper)
  BY <1>1 DEF SolidRow, BlankLine
<1>6. ASSUME NEW r \in 0 .. h - 1 PROVE Cut(t, h)[r] = p[r]
  <2>1. Cut(t, h)[r] = [k \in 0 .. Width - 1 |-> t[r][k]]
    BY DEF Cut
  <2>2. p[r] = IF r < row THEN Cut(s, h)[r]
               ELSE IF r + m \in 0 .. h - 1 THEN Cut(s, h)[r + m] ELSE BlankLine(paper)
    BY <1>4 DEF PageDeleted
  <2>3. t[r] = IF r < row THEN s[r]
               ELSE IF r + n < h THEN s[r + n] ELSE SolidRow(paper)
    BY <1>1 DEF Deleted
  <2> HIDE DEF t, p
  <2>4. CASE r < row
    BY <1>4, <2>1, <2>2, <2>3, <2>4
  <2>5. CASE ~(r < row) /\ r + n < h
    <3>1. t[r] = s[r + n] /\ p[r] = Cut(s, h)[r + n] /\ r + n \in 0 .. h - 1
      BY <1>2, <1>3, <2>2, <2>3, <2>5
    <3>2. QED
      BY <1>4, <2>1, <3>1
  <2>6. CASE ~(r < row) /\ ~(r + n < h)
    <3>1. t[r] = SolidRow(paper) /\ p[r] = BlankLine(paper)
      BY <1>2, <2>2, <2>3, <2>6
    <3>2. QED
      BY <1>5, <2>1, <3>1
  <2>7. QED
    BY <2>4, <2>5, <2>6
<1>7. Cut(t, h) = [r \in 0 .. h - 1 |-> Cut(t, h)[r]] /\ p = [r \in 0 .. h - 1 |-> p[r]]
  BY <1>4 DEF Cut, PageDeleted
<1>8. Cut(t, h) = p
  BY <1>6, <1>7
<1>9. \A r \in Rows : r >= h => t[r] = s[r]
  BY DEF Deleted
<1>10. QED
  BY <1>2, <1>8, <1>9

LEMMA CutInserted ==
  ASSUME NEW s, NEW h \in 1 .. MaxHeight, NEW row \in Nat, row < h, NEW n \in Nat, NEW paper
  PROVE  /\ Cut(Inserted(s, h, row, n, paper), h) = PageInserted(Cut(s, h), row, n, paper)
         /\ \A r \in Rows : r >= h => Inserted(s, h, row, n, paper)[r] = s[r]
<1> DEFINE t == Inserted(s, h, row, n, paper)
           p == PageInserted(Cut(s, h), row, n, paper)
<1>1. /\ h \in Nat /\ \A r \in 0 .. h - 1 : r \in Rows
      /\ \A k \in 0 .. Width - 1 : k \in Cols
  BY Sizes DEF Rows, Cols
<1>2. \A r \in 0 .. h - 1 : /\ r - n >= row <=> r >= row + n
                            /\ r >= row + n => r - n \in 0 .. h - 1
  BY <1>1
<1>4. DOMAIN Cut(s, h) = 0 .. h - 1
        /\ \A r \in 0 .. h - 1 : Cut(s, h)[r] = [k \in 0 .. Width - 1 |-> s[r][k]]
  BY DEF Cut
<1>5. [k \in 0 .. Width - 1 |-> SolidRow(paper)[k]] = BlankLine(paper)
  BY <1>1 DEF SolidRow, BlankLine
<1>6. ASSUME NEW r \in 0 .. h - 1 PROVE Cut(t, h)[r] = p[r]
  <2>1. Cut(t, h)[r] = [k \in 0 .. Width - 1 |-> t[r][k]]
    BY DEF Cut
  <2>2. p[r] = IF r < row THEN Cut(s, h)[r]
               ELSE IF r - n >= row THEN Cut(s, h)[r - n] ELSE BlankLine(paper)
    BY <1>4 DEF PageInserted
  <2>3. t[r] = IF r < row THEN s[r]
               ELSE IF r >= row + n THEN s[r - n] ELSE SolidRow(paper)
    BY <1>1 DEF Inserted
  <2> HIDE DEF t, p
  <2>4. CASE r < row
    BY <1>4, <2>1, <2>2, <2>3, <2>4
  <2>5. CASE ~(r < row) /\ r >= row + n
    <3>1. t[r] = s[r - n] /\ p[r] = Cut(s, h)[r - n] /\ r - n \in 0 .. h - 1
      BY <1>2, <2>2, <2>3, <2>5
    <3>2. QED
      BY <1>4, <2>1, <3>1
  <2>6. CASE ~(r < row) /\ ~(r >= row + n)
    <3>1. t[r] = SolidRow(paper) /\ p[r] = BlankLine(paper)
      BY <1>2, <2>2, <2>3, <2>6
    <3>2. QED
      BY <1>5, <2>1, <3>1
  <2>7. QED
    BY <2>4, <2>5, <2>6
<1>7. Cut(t, h) = [r \in 0 .. h - 1 |-> Cut(t, h)[r]] /\ p = [r \in 0 .. h - 1 |-> p[r]]
  BY <1>4 DEF Cut, PageInserted
<1>8. Cut(t, h) = p
  BY <1>6, <1>7
<1>9. \A r \in Rows : r >= h => t[r] = s[r]
  BY DEF Inserted
<1>10. QED
  BY <1>8, <1>9

(* Lifting the block, repainting the screen and drawing the block again. *)
LEMMA RepaintPaints ==
  ASSUME NEW c \in Ctx, NEW s,
         NEW e, At(gfx_restore_cursor_content(c), e, c.cursor_row, c.cursor_col),
         Kept(gfx_restore_cursor_content(c), e), e.fb = s
  PROVE  Paints(c, gfx_term_render_cursor(e), s, c.cursor_row, c.cursor_col)
<1> DEFINE lifted == gfx_restore_cursor_content(c)
<1>1. At(c, lifted, c.cursor_row, c.cursor_col) /\ Kept(c, lifted)
  BY RestoreLifts
<1> HIDE DEF lifted
<1>2. At(lifted, e, c.cursor_row, c.cursor_col) /\ Kept(lifted, e)
  BY DEF lifted
<1>3. At(c, e, c.cursor_row, c.cursor_col) /\ Kept(c, e)
  BY <1>1, <1>2 DEF At, Kept
<1>4. Paints(e, gfx_term_render_cursor(e), s, c.cursor_row, c.cursor_col)
  BY <1>3, RenderPaints DEF At
<1>5. QED
  BY <1>3, <1>4, PaintsAfter DEF At

LEMMA DeletePaints ==
  ASSUME NEW c \in Ctx, NEW n \in Nat
  PROVE  Paints(c, DeleteLines(c, n),
                Deleted(Lift(c), c.HEIGHT, c.cursor_row, n, GET_BG(c)),
                c.cursor_row, c.cursor_col)
<1> DEFINE lifted == gfx_restore_cursor_content(c)
           e == gfx_delete_lines(lifted, c.cursor_row, n)
<1>1. At(c, lifted, c.cursor_row, c.cursor_col) /\ Kept(c, lifted) /\ lifted.fb = Lift(c)
  BY RestoreLifts
<1> HIDE DEF lifted
<1>2. At(lifted, e, c.cursor_row, c.cursor_col)
  BY <1>1, DeleteAt DEF At
<1>3. GET_BG(lifted) = GET_BG(c) /\ lifted.HEIGHT = c.HEIGHT
  BY <1>1 DEF At, Kept, GET_BG
<1>4. /\ Kept(lifted, e)
      /\ e.fb = Deleted(Lift(c), c.HEIGHT, c.cursor_row, n, GET_BG(c))
  BY <1>1, <1>3 DEF gfx_delete_lines, Deleted, Kept, At, Ctx
<1>5. QED
  BY <1>2, <1>4, RepaintPaints DEF DeleteLines, lifted, e

LEMMA InsertPaints ==
  ASSUME NEW c \in Ctx, NEW n \in Nat, c.cursor_row + n <= c.HEIGHT
  PROVE  Paints(c, InsertLines(c, n),
                Inserted(Lift(c), c.HEIGHT, c.cursor_row, n, GET_BG(c)),
                c.cursor_row, c.cursor_col)
<1> DEFINE lifted == gfx_restore_cursor_content(c)
           e == gfx_insert_lines(lifted, c.cursor_row, n)
<1>1. At(c, lifted, c.cursor_row, c.cursor_col) /\ Kept(c, lifted) /\ lifted.fb = Lift(c)
  BY RestoreLifts
<1> HIDE DEF lifted
<1>2. At(lifted, e, c.cursor_row, c.cursor_col)
  BY <1>1, LinesInsertedAt DEF At
<1>3. GET_BG(lifted) = GET_BG(c) /\ lifted.HEIGHT = c.HEIGHT
  BY <1>1 DEF At, Kept, GET_BG
<1>4. Least(c.cursor_row, c.HEIGHT - n) = c.cursor_row
  BY DEF Least, Ctx, Rows
<1>5. /\ Kept(lifted, e)
      /\ e.fb = Inserted(Lift(c), c.HEIGHT, c.cursor_row, n, GET_BG(c))
  BY <1>1, <1>3, <1>4 DEF gfx_insert_lines, Inserted, Kept, At, Ctx
<1>6. QED
  BY <1>2, <1>5, RepaintPaints DEF InsertLines, lifted, e

-----------------------------------------------------------------------------
(* The steps of the abstract screen, told of two contexts.                 *)
AsBefore(c, d) == Frame(c, d) /\ Kept(c, d)

Moves(c, d) == AsBefore(c, d) /\ Page(d) = Page(c)

NextLine(c, d, page) ==
  IF c.cursor_row + 1 < c.HEIGHT
  THEN d.cursor_row = c.cursor_row + 1 /\ Page(d) = page
  ELSE d.cursor_row = c.cursor_row /\ Page(d) = Rolled(page, GET_BG(c))

Prints(c, d, g) ==
  LET page == Marked(Page(c), c.cursor_row, c.cursor_col, Glyph(c, g))
  IN  /\ AsBefore(c, d)
      /\ IF c.cursor_col + 1 < Width
         THEN /\ d.cursor_col = c.cursor_col + 1 /\ d.cursor_row = c.cursor_row
              /\ Page(d) = page
         ELSE d.cursor_col = 0 /\ NextLine(c, d, page)

Feeds(c, d) ==
  AsBefore(c, d) /\ d.cursor_col = c.cursor_col /\ NextLine(c, d, Page(c))

Saves(c, d) ==
  /\ d.HEIGHT = c.HEIGHT /\ Kept(c, d) /\ Stays(c, d) /\ Page(d) = Page(c)
  /\ d.saved_cursor = <<c.cursor_row, c.cursor_col>>

Struck(c, mode, r, k) ==
  CASE mode = "line end"    -> r = c.cursor_row /\ k >= c.cursor_col
    [] mode = "line start"  -> r = c.cursor_row /\ k <= c.cursor_col
    [] mode = "line"        -> r = c.cursor_row
    [] mode = "page end"    -> r > c.cursor_row \/ (r = c.cursor_row /\ k >= c.cursor_col)
    [] mode = "page start"  -> r < c.cursor_row \/ (r = c.cursor_row /\ k <= c.cursor_col)

Modes == {"line end", "line start", "line", "page end", "page start"}

Without(c, mode) ==
  [r \in DOMAIN Page(c) |-> [k \in 0 .. Width - 1 |->
     IF Struck(c, mode, r, k) THEN Solid(c.bg) ELSE Page(c)[r][k]]]

Erases(c, d) ==
  AsBefore(c, d) /\ Stays(c, d) /\ \E mode \in Modes : Page(d) = Without(c, mode)

Blanks(c, d, paper) ==
  /\ Frame(c, d) /\ d.cursor_row = 0 /\ d.cursor_col = 0
  /\ Page(d) = [r \in 0 .. c.HEIGHT - 1 |-> BlankLine(paper)]

Clears(c, d) == Kept(c, d) /\ Blanks(c, d, GET_BG(c))
Resets(c, d) ==
  /\ Blanks(c, d, c.default_bg) /\ d.cursor_visible = c.cursor_visible
  /\ Colours(gfx_term_reset_attrib(c), d)
Opens(c, d)  == Colours(c, d) /\ ~d.cursor_visible /\ Blanks(c, d, GET_BG(c))

Edits(c, d) ==
  /\ AsBefore(c, d) /\ Stays(c, d)
  /\ \E n \in 0 .. c.HEIGHT :
       Page(d) \in {PageDeleted(Page(c), c.cursor_row, n, GET_BG(c)),
                    PageInserted(Page(c), c.cursor_row, n, GET_BG(c))}

Flags(c, d) == Frame(c, d) /\ Stays(c, d) /\ Colours(c, d) /\ Page(d) = Page(c)

Recolours(c, d) ==
  /\ Frame(c, d) /\ Stays(c, d) /\ d.cursor_visible = c.cursor_visible
  /\ Page(d) = Page(c)

Draws(c, d, mark) ==
  /\ AsBefore(c, d) /\ Stays(c, d)
  /\ \E r \in 0 .. c.HEIGHT - 1, k \in 0 .. Width - 1 :
       /\ <<r, k>> # <<c.cursor_row, c.cursor_col>>
       /\ Page(d) = Marked(Page(c), r, k, mark)

Resizes(c, d, edge) ==
  /\ d.cursor_row = 0 /\ d.cursor_col = 0 /\ d.saved_cursor = c.saved_cursor
  /\ Kept(c, d)
  /\ DOMAIN Page(d) = 0 .. d.HEIGHT - 1
  /\ \A r \in 0 .. d.HEIGHT - 1 : Page(d)[r] \in {BlankLine(GET_BG(c)), BlankLine(edge)}

OneStep(c, d) ==
  \/ Moves(c, d) \/ Flags(c, d) \/ Saves(c, d) \/ Erases(c, d)
  \/ \E g \in Shape : Prints(c, d, g)
  \/ Feeds(c, d) \/ Clears(c, d) \/ Resets(c, d) \/ Edits(c, d)
  \/ Opens(c, d)

(* What an operation of a well-behaved host does that neither changes an   *)
(* attribute nor draws nor resizes; a workstation that closes may show no  *)
(* block, and is Ghostless only.                                           *)
Ghostless(c, d) == Good(d) /\ OneStep(c, d) /\ Border(c, d)
Works(c, d)     == Ghostless(c, d) /\ (Vivid(c) /\ Distinct(c) => Distinct(d))

LEMMA GoodFacts ==
  ASSUME NEW c, Good(c)
  PROVE  /\ c \in Ctx /\ OnScreen(c) /\ SavedOK(c) /\ Settled(c) /\ Clean(c)
         /\ c.cursor_row \in Nat /\ c.cursor_col \in Nat /\ c.HEIGHT \in Nat
         /\ c.HEIGHT \in 1 .. MaxHeight
         /\ c.cursor_row < c.HEIGHT /\ c.cursor_col < Width
         /\ c.cursor_row \in Rows /\ c.cursor_col \in Cols /\ c.bg \in Colour
         /\ Lift(c) \in Screen /\ Page(c) = Cut(Lift(c), c.HEIGHT)
         /\ Vivid(c) => Contrast(c)
BY LiftType, PageIsCut, Sizes DEF Good, Settled, OnScreen, Ctx, Rows, Cols, Vivid, Contrast

LEMMA StutterWorks ==
  ASSUME NEW c, Good(c)
  PROVE  Works(c, c)
BY GoodFacts DEF Works, Ghostless, OneStep, Moves, AsBefore, Frame, Kept, Border

LEMMA MotionWorks ==
  ASSUME NEW c, Good(c), NEW row \in Nat, NEW col \in Nat, row < c.HEIGHT, col < Width
  PROVE  /\ Works(c, EndOfChar(MovedTo(c, row, col)))
         /\ EndOfChar(MovedTo(c, row, col)).cursor_row = row
         /\ EndOfChar(MovedTo(c, row, col)).cursor_col = col
<1> DEFINE d == MovedTo(c, row, col)
<1>1. row \in Rows /\ col \in Cols /\ c \in Ctx
  BY GoodFacts, Sizes DEF Rows, Cols
<1>2. Paints(c, d, Lift(c), row, col)
  BY <1>1, MovedToPaints
<1> HIDE DEF d
<1>3. /\ Good(d) /\ EndOfChar(d) = d /\ Page(d) = Cut(Lift(c), c.HEIGHT)
      /\ Frame(c, d) /\ Kept(c, d) /\ Border(c, d) /\ (Contrast(c) => Distinct(d))
      /\ d.cursor_row = row /\ d.cursor_col = col
  BY <1>2, PaintedWell
<1>4. Moves(c, d)
  BY <1>3, GoodFacts DEF Moves, AsBefore
<1>5. QED
  BY <1>3, <1>4, GoodFacts DEF Works, Ghostless, OneStep, d

LEMMA MoveCursorWorks ==
  ASSUME NEW c, Good(c), NEW row \in Int, NEW col \in Int
  PROVE  Works(c, EndOfChar(gfx_term_move_cursor(c, row, col)))
<1> DEFINE r == Least(c.HEIGHT - 1, Greatest(row, 0))
           k == Least(Width - 1, Greatest(col, 0))
<1>1. r \in Nat /\ r < c.HEIGHT /\ k \in Nat /\ k < Width
  BY GoodFacts, Sizes DEF Ctx, Least, Greatest
<1>2. QED
  BY <1>1, MotionWorks DEF gfx_term_move_cursor

LEMMA ColumnMotionsWork ==
  ASSUME NEW c, Good(c)
  PROVE  /\ Works(c, EndOfChar(CarriageReturn(c))) /\ Works(c, EndOfChar(Tab(c)))
         /\ Works(c, EndOfChar(BackTab(c))) /\ Works(c, EndOfChar(Backspace(c)))
<1> DEFINE stop == (c.cursor_col \div TabStop) * TabStop
<1>1. /\ c.cursor_col \in Nat /\ c.cursor_col < Width
      /\ c.cursor_row \in Nat /\ c.cursor_row < c.HEIGHT
  BY GoodFacts
<1>2. stop \in Nat /\ stop <= c.cursor_col
  BY <1>1, TabStops, Sizes
<1> HIDE DEF stop
<1>3. Works(c, EndOfChar(CarriageReturn(c)))
  BY <1>1, MotionWorks, Sizes DEF CarriageReturn
<1>4. Works(c, EndOfChar(Tab(c)))
  <2>1. Least(stop + TabStop, Width - 1) \in Nat
          /\ Least(stop + TabStop, Width - 1) < Width
    BY <1>2, Sizes DEF Least
  <2>2. QED
    BY <1>1, <2>1, MotionWorks DEF Tab, stop
<1>5. Works(c, EndOfChar(BackTab(c)))
  <2> DEFINE k == IF c.cursor_col % TabStop # 0 THEN stop
                  ELSE Greatest(c.cursor_col - TabStop, 0)
  <2>1. k \in Nat /\ k < Width
    BY <1>1, <1>2, Sizes DEF Greatest
  <2>2. QED
    BY <1>1, <2>1, MotionWorks DEF BackTab, stop
<1>6. Works(c, EndOfChar(Backspace(c)))
  <2>1. CASE c.cursor_col = 0
    BY <2>1, StutterWorks, EndOfCharStays, GoodFacts DEF Backspace
  <2>2. CASE c.cursor_col # 0
    <3>1. c.cursor_col - 1 \in Nat /\ c.cursor_col - 1 < Width
      BY <2>2, <1>1, Sizes
    <3>2. QED
      BY <1>1, <2>2, <3>1, MotionWorks DEF Backspace
  <2>3. QED
    BY <2>1, <2>2
<1>7. QED
  BY <1>3, <1>4, <1>5, <1>6

LEMMA AddressingWorks ==
  ASSUME NEW c, Good(c), NEW n \in Nat, NEW k \in Nat
  PROVE  /\ Works(c, EndOfChar(CursorUp(c, n))) /\ Works(c, EndOfChar(CursorDown(c, n)))
         /\ Works(c, EndOfChar(CursorRight(c, n))) /\ Works(c, EndOfChar(CursorLeft(c, n)))
         /\ Works(c, EndOfChar(CursorPosition(c, n, k)))
<1>1. /\ c.cursor_row \in Nat /\ c.cursor_col \in Nat /\ c.HEIGHT \in Nat
  BY GoodFacts
<1>2. Works(c, EndOfChar(CursorUp(c, n)))
  BY <1>1, MoveCursorWorks DEF CursorUp, Greatest
<1>3. Works(c, EndOfChar(CursorDown(c, n)))
  BY <1>1, MoveCursorWorks DEF CursorDown, Least
<1>4. Works(c, EndOfChar(CursorRight(c, n)))
  BY <1>1, MoveCursorWorks, Sizes DEF CursorRight, Least
<1>5. Works(c, EndOfChar(CursorLeft(c, n)))
  BY <1>1, MoveCursorWorks DEF CursorLeft, Greatest
<1>6. Works(c, EndOfChar(CursorPosition(c, n, k)))
  <2>1. Word \in Nat /\ Word > 0
    BY SizeAssumption
  <2> DEFINE r == (n + Word - 1) % Word
             q == (k + Word - 1) % Word
  <2>2. r \in Int /\ q \in Int
    BY <2>1
  <2> HIDE DEF r, q
  <2>3. Least(r, c.HEIGHT - 1) \in Int /\ Least(q, Width - 1) \in Int
    BY <2>2, <1>1, Sizes DEF Least
  <2>4. QED
    BY <2>3, MoveCursorWorks DEF CursorPosition, r, q
<1>7. QED
  BY <1>2, <1>3, <1>4, <1>5, <1>6

LEMMA RecallWorks ==
  ASSUME NEW c, Good(c), c.saved_cursor[1] < c.HEIGHT
  PROVE  Works(c, EndOfChar(gfx_term_restore_cursor(c)))
<1>1. /\ c.saved_cursor[1] \in Nat /\ c.saved_cursor[2] \in Nat
      /\ c.saved_cursor[2] < Width
  BY GoodFacts, Sizes DEF Ctx, Rows, Cols, SavedOK
<1>2. QED
  BY <1>1, MotionWorks DEF gfx_term_restore_cursor

LEMMA PrintWorks ==
  ASSUME NEW c, Good(c), NEW g \in Shape
  PROVE  Works(c, EndOfChar(PrintGlyph(c, g)))
<1> DEFINE d   == EndOfChar(PrintGlyph(c, g))
           row == c.cursor_row
           col == c.cursor_col
           s   == Marked(Lift(c), row, col, Glyph(c, g))
           page == Marked(Page(c), row, col, Glyph(c, g))
<1>0. /\ Lift(c) \in Screen /\ c.HEIGHT \in 1 .. MaxHeight /\ Page(c) = Cut(Lift(c), c.HEIGHT)
      /\ row \in Nat /\ col \in Nat /\ row < c.HEIGHT /\ col < Width
  BY GoodFacts
<1>1. Cut(s, c.HEIGHT) = page /\ \A r \in Rows : r >= c.HEIGHT => s[r] = Lift(c)[r]
  BY <1>0, CutGlyph
<1>2. /\ Cut(Scrolled(s, c.HEIGHT, GET_BG(c)), c.HEIGHT) = Rolled(page, GET_BG(c))
      /\ \A r \in Rows : r >= c.HEIGHT => Scrolled(s, c.HEIGHT, GET_BG(c))[r] = Lift(c)[r]
  <2> HIDE DEF s, page
  <2>1. QED
    BY <1>1, GoodFacts, CutScrolled
<1>3. IF col + 1 < Width THEN Paints(c, d, s, row, col + 1)
      ELSE Paints(c, d, Advanced(c, s, row), NextRow(c, row), 0)
  BY GoodFacts, CharPaints DEF Marked
<1> HIDE DEF s, d
<1>4. CASE col + 1 < Width
  <2>1. /\ Good(d) /\ Page(d) = page /\ Frame(c, d) /\ Kept(c, d) /\ Border(c, d)
        /\ d.cursor_row = row /\ d.cursor_col = col + 1 /\ (Contrast(c) => Distinct(d))
    BY <1>1, <1>3, <1>4, GoodFacts, PaintedWell
  <2>2. Prints(c, d, g)
    BY <1>4, <2>1 DEF Prints, AsBefore
  <2>3. QED
    BY <2>1, <2>2, GoodFacts DEF Works, Ghostless, OneStep, d
<1>5. CASE ~(col + 1 < Width) /\ row + 1 < c.HEIGHT
  <2>1. Paints(c, d, s, row + 1, 0)
    BY <1>3, <1>5 DEF Advanced, NextRow
  <2>2. /\ Good(d) /\ Page(d) = page /\ Frame(c, d) /\ Kept(c, d) /\ Border(c, d)
        /\ d.cursor_row = row + 1 /\ d.cursor_col = 0 /\ (Contrast(c) => Distinct(d))
    BY <1>1, <1>5, <2>1, Sizes, PaintedWell
  <2>3. Prints(c, d, g)
    BY <1>5, <2>2 DEF Prints, AsBefore, NextLine
  <2>4. QED
    BY <2>2, <2>3, GoodFacts DEF Works, Ghostless, OneStep, d
<1>6. CASE ~(col + 1 < Width) /\ ~(row + 1 < c.HEIGHT)
  <2>1. Paints(c, d, Scrolled(s, c.HEIGHT, GET_BG(c)), row, 0)
    BY <1>3, <1>6 DEF Advanced, NextRow
  <2>2. /\ Good(d) /\ Page(d) = Rolled(page, GET_BG(c)) /\ Frame(c, d) /\ Kept(c, d)
        /\ Border(c, d) /\ d.cursor_row = row /\ d.cursor_col = 0
        /\ (Contrast(c) => Distinct(d))
    BY <1>2, <2>1, Sizes, GoodFacts, PaintedWell
  <2>3. Prints(c, d, g)
    BY <1>6, <2>2 DEF Prints, AsBefore, NextLine
  <2>4. QED
    BY <2>2, <2>3, GoodFacts DEF Works, Ghostless, OneStep, d
<1>7. QED
  BY <1>4, <1>5, <1>6

LEMMA FeedWorks ==
  ASSUME NEW c, Good(c)
  PROVE  Works(c, EndOfChar(LineFeed(c)))
<1> DEFINE d   == EndOfChar(LineFeed(c))
           row == c.cursor_row
           col == c.cursor_col
<1>1. Paints(c, d, Advanced(c, Lift(c), row), NextRow(c, row), col)
  BY GoodFacts, FeedPaints
<1>2. /\ Cut(Scrolled(Lift(c), c.HEIGHT, GET_BG(c)), c.HEIGHT) = Rolled(Page(c), GET_BG(c))
      /\ \A r \in Rows : r >= c.HEIGHT =>
           Scrolled(Lift(c), c.HEIGHT, GET_BG(c))[r] = Lift(c)[r]
  BY GoodFacts, CutScrolled
<1> HIDE DEF d
<1>3. CASE row + 1 < c.HEIGHT
  <2>1. Paints(c, d, Lift(c), row + 1, col)
    BY <1>1, <1>3 DEF Advanced, NextRow
  <2>2. /\ Good(d) /\ Page(d) = Page(c) /\ Frame(c, d) /\ Kept(c, d) /\ Border(c, d)
        /\ d.cursor_row = row + 1 /\ d.cursor_col = col /\ (Contrast(c) => Distinct(d))
    BY <1>3, <2>1, GoodFacts, PaintedWell
  <2>3. Feeds(c, d)
    BY <1>3, <2>2 DEF Feeds, AsBefore, NextLine
  <2>4. QED
    BY <2>2, <2>3, GoodFacts DEF Works, Ghostless, OneStep, d
<1>4. CASE ~(row + 1 < c.HEIGHT)
  <2>1. Paints(c, d, Scrolled(Lift(c), c.HEIGHT, GET_BG(c)), row, col)
    BY <1>1, <1>4 DEF Advanced, NextRow
  <2>2. /\ Good(d) /\ Page(d) = Rolled(Page(c), GET_BG(c)) /\ Frame(c, d) /\ Kept(c, d)
        /\ Border(c, d) /\ d.cursor_row = row /\ d.cursor_col = col
        /\ (Contrast(c) => Distinct(d))
    BY <1>2, <2>1, GoodFacts, PaintedWell
  <2>3. Feeds(c, d)
    BY <1>4, <2>2 DEF Feeds, AsBefore, NextLine
  <2>4. QED
    BY <2>2, <2>3, GoodFacts DEF Works, Ghostless, OneStep, d
<1>5. QED
  BY <1>3, <1>4

(* An erasure is told cell by cell. *)
LEMMA StruckCells ==
  ASSUME NEW c, NEW r, NEW k
  PROVE  /\ Struck(c, "line end", r, k)   <=> r = c.cursor_row /\ k >= c.cursor_col
         /\ Struck(c, "line start", r, k) <=> r = c.cursor_row /\ k <= c.cursor_col
         /\ Struck(c, "line", r, k)       <=> r = c.cursor_row
         /\ Struck(c, "page end", r, k)   <=>
              r > c.cursor_row \/ (r = c.cursor_row /\ k >= c.cursor_col)
         /\ Struck(c, "page start", r, k) <=>
              r < c.cursor_row \/ (r = c.cursor_row /\ k <= c.cursor_col)
BY DEF Struck

LEMMA ErasureWorks ==
  ASSUME NEW c, Good(c), NEW d, NEW s, NEW mode \in Modes,
         Paints(c, d, s, c.cursor_row, c.cursor_col),
         \A r \in 0 .. c.HEIGHT - 1, k \in 0 .. Width - 1 :
           s[r][k] = IF Struck(c, mode, r, k) THEN Solid(c.bg) ELSE Lift(c)[r][k],
         \A r \in Rows : r >= c.HEIGHT => s[r] = Lift(c)[r]
  PROVE  Works(c, EndOfChar(d))
<1>1. /\ Good(d) /\ EndOfChar(d) = d /\ Page(d) = Cut(s, c.HEIGHT) /\ Frame(c, d)
      /\ Kept(c, d) /\ Border(c, d) /\ d.cursor_row = c.cursor_row
      /\ d.cursor_col = c.cursor_col /\ (Contrast(c) => Distinct(d))
  BY GoodFacts, PaintedWell
<1>2. /\ DOMAIN Page(c) = 0 .. c.HEIGHT - 1
      /\ \A r \in 0 .. c.HEIGHT - 1, k \in 0 .. Width - 1 : Page(c)[r][k] = Lift(c)[r][k]
  <2>1. Page(c) = Cut(Lift(c), c.HEIGHT)
    BY GoodFacts
  <2>2. QED
    BY <2>1, CutCells
<1>3. \A r \in 0 .. c.HEIGHT - 1, k \in 0 .. Width - 1 :
        s[r][k] = IF Struck(c, mode, r, k) THEN Solid(c.bg) ELSE Page(c)[r][k]
  BY <1>2
<1>4. Cut(s, c.HEIGHT) = Without(c, mode)
  BY <1>2, <1>3 DEF Cut, Without
<1>5. Erases(c, d)
  BY <1>1, <1>4 DEF Erases, AsBefore, Stays
<1>6. QED
  BY <1>1, <1>5, GoodFacts DEF Works, Ghostless, OneStep

LEMMA WipedCells ==
  ASSUME NEW s \in Screen, NEW h \in 1 .. MaxHeight, NEW rows, NEW cols, NEW bg \in Colour
  PROVE  /\ \A r \in 0 .. h - 1, k \in 0 .. Width - 1 :
              Wiped(s, h, rows, cols, bg)[r][k] =
                IF r \in rows /\ k \in cols THEN Solid(bg) ELSE s[r][k]
         /\ \A r \in Rows : r >= h => Wiped(s, h, rows, cols, bg)[r] = s[r]
         /\ Wiped(s, h, rows, cols, bg) \in Screen
<1>1. h \in Nat /\ (\A r \in 0 .. h - 1 : r \in Rows) /\ \A k \in 0 .. Width - 1 : k \in Cols
  BY Sizes DEF Rows, Cols
<1>2. \A r \in 0 .. h - 1, k \in 0 .. Width - 1 :
        Wiped(s, h, rows, cols, bg)[r][k] =
          IF r \in rows /\ k \in cols THEN Solid(bg) ELSE s[r][k]
  BY <1>1, Sizes DEF Wiped
<1>3. QED
  BY <1>2, CutWiped

LEMMA EraseInLineWorks ==
  ASSUME NEW c, Good(c), NEW mode
  PROVE  Works(c, EndOfChar(EraseInLine(c, mode)))
<1> DEFINE h == c.HEIGHT
           row == c.cursor_row
           col == c.cursor_col
<1>1. /\ c \in Ctx /\ h \in 1 .. MaxHeight /\ Lift(c) \in Screen /\ c.bg \in Colour
      /\ row \in Nat /\ col \in Nat /\ OnScreen(c)
  BY GoodFacts
<1>2. CASE mode = 0
  <2> DEFINE cols == col .. Width
             s    == Wiped(Lift(c), h, {row}, cols, c.bg)
  <2>1. Paints(c, EraseInLine(c, mode), s, row, col)
    BY <1>1, <1>2, WipePaints DEF EraseInLine, gfx_term_clear_till_end
  <2>2. \A k \in 0 .. Width - 1 : k \in cols <=> k >= col
    BY <1>1, Sizes
  <2> HIDE DEF cols
  <2>3. /\ \A r \in 0 .. h - 1, k \in 0 .. Width - 1 :
             s[r][k] = IF r \in {row} /\ k \in cols THEN Solid(c.bg) ELSE Lift(c)[r][k]
        /\ \A r \in Rows : r >= h => s[r] = Lift(c)[r]
    BY <1>1, WipedCells
  <2> HIDE DEF s
  <2>4. ASSUME NEW r \in 0 .. h - 1, NEW k \in 0 .. Width - 1
        PROVE  s[r][k] = IF Struck(c, "line end", r, k) THEN Solid(c.bg) ELSE Lift(c)[r][k]
    <3>1. Struck(c, "line end", r, k) <=> r = row /\ k >= col
      BY StruckCells
    <3>2. QED
      BY <2>2, <2>3, <3>1
  <2>5. "line end" \in Modes
    BY DEF Modes
  <2>6. QED
    BY <2>1, <2>3, <2>4, <2>5, ErasureWorks
<1>3. CASE mode = 1
  <2> DEFINE cols == 0 .. col
             s    == Wiped(Lift(c), h, {row}, cols, c.bg)
  <2>1. Paints(c, EraseInLine(c, mode), s, row, col)
    BY <1>1, <1>3, WipePaints DEF EraseInLine, gfx_term_clear_till_cursor
  <2>2. \A k \in 0 .. Width - 1 : k \in cols <=> k <= col
    BY <1>1, Sizes
  <2> HIDE DEF cols
  <2>3. /\ \A r \in 0 .. h - 1, k \in 0 .. Width - 1 :
             s[r][k] = IF r \in {row} /\ k \in cols THEN Solid(c.bg) ELSE Lift(c)[r][k]
        /\ \A r \in Rows : r >= h => s[r] = Lift(c)[r]
    BY <1>1, WipedCells
  <2> HIDE DEF s
  <2>4. ASSUME NEW r \in 0 .. h - 1, NEW k \in 0 .. Width - 1
        PROVE  s[r][k] = IF Struck(c, "line start", r, k) THEN Solid(c.bg) ELSE Lift(c)[r][k]
    <3>1. Struck(c, "line start", r, k) <=> r = row /\ k <= col
      BY StruckCells
    <3>2. QED
      BY <2>2, <2>3, <3>1
  <2>5. "line start" \in Modes
    BY DEF Modes
  <2>6. QED
    BY <2>1, <2>3, <2>4, <2>5, ErasureWorks
<1>4. CASE mode = 2
  <2> DEFINE cols == Cols
             s    == Wiped(Lift(c), h, {row}, cols, c.bg)
  <2>0. EraseInLine(c, mode) = gfx_term_clear_line(c)
    BY <1>4 DEF EraseInLine
  <2>1. Paints(c, EraseInLine(c, mode), s, row, col)
    BY <1>1, <2>0, LinePaints
  <2>2. \A k \in 0 .. Width - 1 : k \in cols
    BY Sizes DEF Cols
  <2> HIDE DEF cols
  <2>3. /\ \A r \in 0 .. h - 1, k \in 0 .. Width - 1 :
             s[r][k] = IF r \in {row} /\ k \in cols THEN Solid(c.bg) ELSE Lift(c)[r][k]
        /\ \A r \in Rows : r >= h => s[r] = Lift(c)[r]
    BY <1>1, WipedCells
  <2> HIDE DEF s
  <2>4. ASSUME NEW r \in 0 .. h - 1, NEW k \in 0 .. Width - 1
        PROVE  s[r][k] = IF Struck(c, "line", r, k) THEN Solid(c.bg) ELSE Lift(c)[r][k]
    <3>1. Struck(c, "line", r, k) <=> r = row
      BY StruckCells
    <3>2. QED
      BY <2>2, <2>3, <3>1
  <2>5. "line" \in Modes
    BY DEF Modes
  <2>6. QED
    BY <2>1, <2>3, <2>4, <2>5, ErasureWorks
<1>5. CASE mode \notin {0, 1, 2}
  BY <1>5, StutterWorks, EndOfCharStays, GoodFacts DEF EraseInLine
<1>6. QED
  BY <1>2, <1>3, <1>4, <1>5

(* Wiping part of the cursor's line, and then the lines on one side of it. *)
OnceWiped(c, cols) == Wiped(Lift(c), c.HEIGHT, {c.cursor_row}, cols, c.bg)
TwiceWiped(c, cols, from, to) ==
  Wiped(OnceWiped(c, cols), c.HEIGHT, from .. to, Cols, c.bg)

LEMMA OnceWipedCells ==
  ASSUME NEW c, Good(c), NEW cols
  PROVE  /\ \A r \in 0 .. c.HEIGHT - 1, k \in 0 .. Width - 1 :
              OnceWiped(c, cols)[r][k] = IF r = c.cursor_row /\ k \in cols
                                         THEN Solid(c.bg) ELSE Lift(c)[r][k]
         /\ \A r \in Rows : r >= c.HEIGHT => OnceWiped(c, cols)[r] = Lift(c)[r]
         /\ OnceWiped(c, cols) \in Screen
<1> DEFINE s == OnceWiped(c, cols)
<1>1. /\ c.HEIGHT \in 1 .. MaxHeight /\ Lift(c) \in Screen /\ c.bg \in Colour
  BY GoodFacts
<1>2. /\ \A r \in 0 .. c.HEIGHT - 1, k \in 0 .. Width - 1 :
           s[r][k] = IF r \in {c.cursor_row} /\ k \in cols THEN Solid(c.bg) ELSE Lift(c)[r][k]
      /\ \A r \in Rows : r >= c.HEIGHT => s[r] = Lift(c)[r]
      /\ s \in Screen
  BY <1>1, WipedCells DEF OnceWiped
<1> HIDE DEF s
<1>3. \A r \in 0 .. c.HEIGHT - 1, k \in 0 .. Width - 1 :
        s[r][k] = IF r = c.cursor_row /\ k \in cols THEN Solid(c.bg) ELSE Lift(c)[r][k]
  BY <1>2
<1>4. QED
  BY <1>2, <1>3 DEF s

LEMMA TwiceWipedCells ==
  ASSUME NEW c, Good(c), NEW cols, NEW from, NEW to
  PROVE  /\ \A r \in 0 .. c.HEIGHT - 1, k \in 0 .. Width - 1 :
              TwiceWiped(c, cols, from, to)[r][k] =
                IF r \in from .. to \/ (r = c.cursor_row /\ k \in cols)
                THEN Solid(c.bg) ELSE Lift(c)[r][k]
         /\ \A r \in Rows : r >= c.HEIGHT => TwiceWiped(c, cols, from, to)[r] = Lift(c)[r]
<1> DEFINE h  == c.HEIGHT
           s1 == OnceWiped(c, cols)
           rows == from .. to
           s2 == Wiped(s1, h, rows, Cols, c.bg)
<1>1. h \in 1 .. MaxHeight /\ c.bg \in Colour
  BY GoodFacts
<1>2. /\ \A r \in 0 .. h - 1, k \in 0 .. Width - 1 :
           s1[r][k] = IF r = c.cursor_row /\ k \in cols THEN Solid(c.bg) ELSE Lift(c)[r][k]
      /\ \A r \in Rows : r >= h => s1[r] = Lift(c)[r]
      /\ s1 \in Screen
  BY OnceWipedCells
<1> HIDE DEF s1, rows
<1>3. /\ \A r \in 0 .. h - 1, k \in 0 .. Width - 1 :
           s2[r][k] = IF r \in rows /\ k \in Cols THEN Solid(c.bg) ELSE s1[r][k]
      /\ \A r \in Rows : r >= h => s2[r] = s1[r]
  BY <1>1, <1>2, WipedCells
<1> HIDE DEF s2
<1>4. \A k \in 0 .. Width - 1 : k \in Cols
  BY Sizes DEF Cols
<1>5. \A r \in 0 .. h - 1, k \in 0 .. Width - 1 :
        s2[r][k] = IF r \in from .. to \/ (r = c.cursor_row /\ k \in cols)
                   THEN Solid(c.bg) ELSE Lift(c)[r][k]
  BY <1>2, <1>3, <1>4 DEF rows
<1>6. QED
  BY <1>2, <1>3, <1>5 DEF s1, s2, rows, TwiceWiped

LEMMA TwoWipesPaint ==
  ASSUME NEW c, Good(c), NEW d, NEW cols, NEW from \in Nat, NEW to \in Nat,
         from <= to, to < c.HEIGHT,
         Paints(c, d, OnceWiped(c, cols), c.cursor_row, c.cursor_col)
  PROVE  Paints(c, gfx_term_clear_lines(d, from, to), TwiceWiped(c, cols, from, to),
                c.cursor_row, c.cursor_col)
<1>1. /\ d \in Ctx /\ d.HEIGHT = c.HEIGHT /\ d.saved_cursor = c.saved_cursor
      /\ d.cursor_row = c.cursor_row /\ d.cursor_col = c.cursor_col
      /\ Kept(c, d) /\ Lift(d) = OnceWiped(c, cols) /\ d.bg = c.bg
  BY DEF Paints, At, Kept
<1>2. Least(to, d.HEIGHT - 1) = to /\ ~(from > to) /\ c \in Ctx
  <2>1. c \in Ctx /\ c.HEIGHT \in Nat
    BY GoodFacts
  <2>2. QED
    BY <1>1, <2>1 DEF Least
<1>3. Paints(d, gfx_term_clear_lines(d, from, to),
             Wiped(Lift(d), d.HEIGHT, from .. Least(to, d.HEIGHT - 1), Cols, d.bg),
             d.cursor_row, d.cursor_col)
  BY <1>1, <1>2, ClearLinesPaints
<1>4. Paints(d, gfx_term_clear_lines(d, from, to), TwiceWiped(c, cols, from, to),
             c.cursor_row, c.cursor_col)
  BY <1>1, <1>2, <1>3 DEF TwiceWiped
<1>5. QED
  BY <1>1, <1>2, <1>4, PaintsAfter

LEMMA EraseInDisplayWorks ==
  ASSUME NEW c, Good(c), NEW mode, mode # 2
  PROVE  Works(c, EndOfChar(EraseInDisplay(c, mode)))
<1> DEFINE h == c.HEIGHT
           row == c.cursor_row
           col == c.cursor_col
<1>1. /\ c \in Ctx /\ h \in 1 .. MaxHeight /\ Lift(c) \in Screen /\ c.bg \in Colour
      /\ row \in Nat /\ col \in Nat /\ h \in Nat /\ row < h /\ col < Width
  BY GoodFacts
<1>2. CASE mode = 0
  <2> DEFINE cols == col .. Width
             d    == gfx_term_clear_till_end(c)
             e    == EraseInDisplay(c, mode)
             s    == IF row + 1 < h THEN TwiceWiped(c, cols, row + 1, h - 1)
                     ELSE OnceWiped(c, cols)
  <2>1. Paints(c, d, OnceWiped(c, cols), row, col)
    BY <1>1, WipePaints DEF gfx_term_clear_till_end, OnceWiped
  <2>2. \A k \in 0 .. Width - 1 : k \in cols <=> k >= col
    BY <1>1, Sizes
  <2>3. "page end" \in Modes
    BY DEF Modes
  <2>4. e = IF row + 1 < h THEN gfx_term_clear_lines(d, row + 1, h - 1) ELSE d
    BY <1>2 DEF EraseInDisplay
  <2> HIDE DEF cols, d, e
  <2>5. /\ Paints(c, e, s, row, col)
        /\ \A r \in 0 .. h - 1, k \in 0 .. Width - 1 :
             s[r][k] = IF r > row \/ (r = row /\ k \in cols)
                       THEN Solid(c.bg) ELSE Lift(c)[r][k]
        /\ \A r \in Rows : r >= h => s[r] = Lift(c)[r]
    <3>1. CASE row + 1 < h
      <4> DEFINE from == row + 1
                 to   == h - 1
      <4>1. from \in Nat /\ to \in Nat /\ from <= to /\ to < h
        BY <1>1, <3>1
      <4>2. \A r \in 0 .. h - 1 : r > row <=> r \in from .. to
        BY <1>1
      <4>3. s = TwiceWiped(c, cols, from, to) /\ e = gfx_term_clear_lines(d, from, to)
        BY <2>4, <3>1
      <4> HIDE DEF s, from, to
      <4>4. /\ Paints(c, e, s, row, col)
            /\ \A r \in 0 .. h - 1, k \in 0 .. Width - 1 :
                 s[r][k] = IF r \in from .. to \/ (r = row /\ k \in cols)
                           THEN Solid(c.bg) ELSE Lift(c)[r][k]
            /\ \A r \in Rows : r >= h => s[r] = Lift(c)[r]
        <5>1. Paints(c, e, TwiceWiped(c, cols, from, to), row, col)
          BY <2>1, <4>1, <4>3, TwoWipesPaint
        <5>2. \A r \in 0 .. h - 1, k \in 0 .. Width - 1 :
                TwiceWiped(c, cols, from, to)[r][k] =
                  IF r \in from .. to \/ (r = row /\ k \in cols)
                  THEN Solid(c.bg) ELSE Lift(c)[r][k]
          BY TwiceWipedCells
        <5>3. \A r \in Rows : r >= h => TwiceWiped(c, cols, from, to)[r] = Lift(c)[r]
          BY TwiceWipedCells
        <5>4. QED
          BY <4>3, <5>1, <5>2, <5>3
      <4>5. QED
        BY <4>2, <4>4
    <3>2. CASE ~(row + 1 < h)
      <4>1. \A r \in 0 .. h - 1 : ~(r > row)
        BY <1>1, <3>2
      <4>2. s = OnceWiped(c, cols) /\ e = d
        BY <2>4, <3>2
      <4> HIDE DEF s
      <4>3. /\ \A r \in 0 .. h - 1, k \in 0 .. Width - 1 :
                 s[r][k] = IF r = row /\ k \in cols THEN Solid(c.bg) ELSE Lift(c)[r][k]
            /\ \A r \in Rows : r >= h => s[r] = Lift(c)[r]
        BY <4>2, OnceWipedCells
      <4>4. QED
        BY <2>1, <4>1, <4>2, <4>3
    <3>3. QED
      BY <3>1, <3>2
  <2> HIDE DEF s
  <2>6. ASSUME NEW r \in 0 .. h - 1, NEW k \in 0 .. Width - 1
        PROVE  s[r][k] = IF Struck(c, "page end", r, k) THEN Solid(c.bg) ELSE Lift(c)[r][k]
    <3>1. Struck(c, "page end", r, k) <=> r > row \/ (r = row /\ k >= col)
      BY StruckCells
    <3>2. QED
      BY <2>2, <2>5, <3>1
  <2>7. Works(c, EndOfChar(e))
    BY <2>3, <2>5, <2>6, ErasureWorks, ZenonT(60)
  <2>8. QED
    BY <2>7 DEF e
<1>3. CASE mode = 1
  <2> DEFINE cols == 0 .. col
             d    == gfx_term_clear_till_cursor(c)
             e    == EraseInDisplay(c, mode)
             s    == IF row > 0 THEN TwiceWiped(c, cols, 0, row - 1)
                     ELSE OnceWiped(c, cols)
  <2>1. Paints(c, d, OnceWiped(c, cols), row, col)
    BY <1>1, WipePaints DEF gfx_term_clear_till_cursor, OnceWiped
  <2>2. \A k \in 0 .. Width - 1 : k \in cols <=> k <= col
    BY <1>1, Sizes
  <2>3. "page start" \in Modes
    BY DEF Modes
  <2>4. e = IF row > 0 THEN gfx_term_clear_lines(d, 0, row - 1) ELSE d
    BY <1>3 DEF EraseInDisplay
  <2> HIDE DEF cols, d, e
  <2>5. /\ Paints(c, e, s, row, col)
        /\ \A r \in 0 .. h - 1, k \in 0 .. Width - 1 :
             s[r][k] = IF r < row \/ (r = row /\ k \in cols)
                       THEN Solid(c.bg) ELSE Lift(c)[r][k]
        /\ \A r \in Rows : r >= h => s[r] = Lift(c)[r]
    <3>1. CASE row > 0
      <4> DEFINE from == 0
                 to   == row - 1
      <4>1. from \in Nat /\ to \in Nat /\ from <= to /\ to < h
        BY <1>1, <3>1
      <4>2. \A r \in 0 .. h - 1 : r < row <=> r \in from .. to
        BY <1>1
      <4>3. s = TwiceWiped(c, cols, from, to) /\ e = gfx_term_clear_lines(d, from, to)
        BY <2>4, <3>1
      <4> HIDE DEF s, from, to
      <4>4. /\ Paints(c, e, s, row, col)
            /\ \A r \in 0 .. h - 1, k \in 0 .. Width - 1 :
                 s[r][k] = IF r \in from .. to \/ (r = row /\ k \in cols)
                           THEN Solid(c.bg) ELSE Lift(c)[r][k]
            /\ \A r \in Rows : r >= h => s[r] = Lift(c)[r]
        <5>1. Paints(c, e, TwiceWiped(c, cols, from, to), row, col)
          BY <2>1, <4>1, <4>3, TwoWipesPaint
        <5>2. \A r \in 0 .. h - 1, k \in 0 .. Width - 1 :
                TwiceWiped(c, cols, from, to)[r][k] =
                  IF r \in from .. to \/ (r = row /\ k \in cols)
                  THEN Solid(c.bg) ELSE Lift(c)[r][k]
          BY TwiceWipedCells
        <5>3. \A r \in Rows : r >= h => TwiceWiped(c, cols, from, to)[r] = Lift(c)[r]
          BY TwiceWipedCells
        <5>4. QED
          BY <4>3, <5>1, <5>2, <5>3
      <4>5. QED
        BY <4>2, <4>4
    <3>2. CASE ~(row > 0)
      <4>1. \A r \in 0 .. h - 1 : ~(r < row)
        BY <1>1, <3>2
      <4>2. s = OnceWiped(c, cols) /\ e = d
        BY <2>4, <3>2
      <4> HIDE DEF s
      <4>3. /\ \A r \in 0 .. h - 1, k \in 0 .. Width - 1 :
                 s[r][k] = IF r = row /\ k \in cols THEN Solid(c.bg) ELSE Lift(c)[r][k]
            /\ \A r \in Rows : r >= h => s[r] = Lift(c)[r]
        BY <4>2, OnceWipedCells
      <4>4. QED
        BY <2>1, <4>1, <4>2, <4>3
    <3>3. QED
      BY <3>1, <3>2
  <2> HIDE DEF s
  <2>6. ASSUME NEW r \in 0 .. h - 1, NEW k \in 0 .. Width - 1
        PROVE  s[r][k] = IF Struck(c, "page start", r, k) THEN Solid(c.bg) ELSE Lift(c)[r][k]
    <3>1. Struck(c, "page start", r, k) <=> r < row \/ (r = row /\ k <= col)
      BY StruckCells
    <3>2. QED
      BY <2>2, <2>5, <3>1
  <2>7. Works(c, EndOfChar(e))
    BY <2>3, <2>5, <2>6, ErasureWorks, ZenonT(60)
  <2>8. QED
    BY <2>7 DEF e
<1>4. CASE mode \notin {0, 1, 2}
  BY <1>4, StutterWorks, EndOfCharStays, GoodFacts DEF EraseInDisplay
<1>5. QED
  BY <1>2, <1>3, <1>4

LEMMA FormFeedWorks ==
  ASSUME NEW c, Good(c)
  PROVE  LET d == EndOfChar(FormFeed(c))
         IN  /\ Good(d) /\ Clears(c, d) /\ Border(c, d) /\ (Contrast(c) => Distinct(d))
             /\ Works(c, d)
<1> DEFINE d == FormFeed(c)
           s == Emptied(Lift(c), c.HEIGHT, GET_BG(c))
<1>1. c \in Ctx /\ OnScreen(c) /\ c.HEIGHT \in 1 .. MaxHeight
  BY GoodFacts
<1>2. Paints(c, d, s, 0, 0)
  BY <1>1, FormFeedPaints
<1>3. /\ Cut(s, c.HEIGHT) = [r \in 0 .. c.HEIGHT - 1 |-> BlankLine(GET_BG(c))]
      /\ \A r \in Rows : r >= c.HEIGHT => s[r] = Lift(c)[r]
  BY <1>1, CutEmptied
<1> HIDE DEF d, s
<1>4. 0 < c.HEIGHT /\ 0 < Width
  BY <1>1, Sizes
<1>5. /\ Good(d) /\ EndOfChar(d) = d /\ Page(d) = Cut(s, c.HEIGHT) /\ Frame(c, d)
      /\ Kept(c, d) /\ Border(c, d) /\ d.cursor_row = 0 /\ d.cursor_col = 0
      /\ (Contrast(c) => Distinct(d))
  BY <1>2, <1>3, <1>4, PaintedWell
<1>6. Clears(c, d)
  BY <1>3, <1>5 DEF Clears, Blanks
<1>7. Vivid(c) => Contrast(c)
  BY GoodFacts
<1>8. Works(c, d)
  BY <1>5, <1>6, <1>7 DEF Works, Ghostless, OneStep
<1>9. QED
  BY <1>5, <1>6, <1>8 DEF d

(* Two contexts with the same cells show the same page. *)
SameCells(c, d) ==
  /\ d \in Ctx /\ d.fb = c.fb /\ d.cursor_buffer = c.cursor_buffer
  /\ d.HEIGHT = c.HEIGHT /\ Stays(c, d)

LEMMA SameCellsShow ==
  ASSUME NEW c, Good(c), NEW d, SameCells(c, d), SavedOK(d)
  PROVE  /\ EndOfChar(d) = d /\ Page(d) = Page(c) /\ Lift(d) = Lift(c) /\ Border(c, d)
         /\ CursorCell(d) = CursorCell(c)
         /\ d.cursor_visible = c.cursor_visible \/ d.cursor_visible => Good(d)
         /\ d.cursor_visible = c.cursor_visible => (Distinct(c) => Distinct(d))
<1>1. OnScreen(d) /\ Settled(d)
  BY Sizes DEF SameCells, Stays, Good, Settled, OnScreen, Ctx, Rows
<1>2. EndOfChar(d) = d
  BY <1>1, EndOfCharStays
<1>3. Lift(d) = Lift(c) /\ CursorCell(d) = CursorCell(c)
  BY DEF SameCells, Stays, Lift, CursorCell
<1>4. Page(d) = Page(c)
  BY <1>3, GoodFacts, PageIsCut DEF SameCells
<1>5. Border(c, d)
  BY DEF SameCells, Border
<1>6. d.cursor_visible = c.cursor_visible \/ d.cursor_visible => Good(d)
  BY <1>1, <1>3 DEF Good, Clean, SameCells
<1>7. d.cursor_visible = c.cursor_visible => (Distinct(c) => Distinct(d))
  BY <1>3 DEF Distinct, SameCells
<1>8. QED
  BY <1>2, <1>3, <1>4, <1>5, <1>6, <1>7

LEMMA ResetWorks ==
  ASSUME NEW c, Good(c)
  PROVE  Works(c, EndOfChar(ResetTerminal(c)))
<1> DEFINE plain == gfx_term_reset_attrib(c)
           d     == EndOfChar(FormFeed(plain))
<1>0. c \in Ctx /\ SavedOK(c)
  BY GoodFacts
<1>1. /\ SameCells(c, plain) /\ SavedOK(plain) /\ plain.saved_cursor = c.saved_cursor
      /\ plain.cursor_visible = c.cursor_visible
      /\ plain.fg = c.default_fg /\ plain.bg = c.default_bg /\ ~plain.inverse
  BY <1>0 DEF gfx_term_reset_attrib, SameCells, Stays, SavedOK, Ctx
<1> HIDE DEF plain
<1>2. Good(plain) /\ Border(c, plain)
  BY <1>1, SameCellsShow
<1>3. GET_BG(plain) = c.default_bg /\ plain.HEIGHT = c.HEIGHT
  BY <1>1 DEF GET_BG, SameCells
<1>4. /\ Good(d) /\ Clears(plain, d) /\ Border(plain, d) /\ (Contrast(plain) => Distinct(d))
  BY <1>2, FormFeedWorks
<1> HIDE DEF d
<1>5. Resets(c, d)
  BY <1>1, <1>3, <1>4 DEF Resets, Clears, Blanks, Frame, Kept, Colours, plain
<1>6. Border(c, d)
  BY <1>2, <1>3, <1>4 DEF Border
<1>7. Vivid(c) => Contrast(plain)
  BY <1>1 DEF Vivid, Contrast
<1>8. Works(c, d)
  BY <1>4, <1>5, <1>6, <1>7 DEF Works, Ghostless, OneStep
<1>9. QED
  BY <1>8 DEF ResetTerminal, d, plain

LEMMA EditsWork ==
  ASSUME NEW c, Good(c), NEW n \in Nat
  PROVE  /\ Works(c, EndOfChar(DeleteLines(c, n)))
         /\ c.cursor_row + n <= c.HEIGHT => Works(c, EndOfChar(InsertLines(c, n)))
<1> DEFINE h   == c.HEIGHT
           row == c.cursor_row
           bg  == GET_BG(c)
<1>1. /\ c \in Ctx /\ h \in 1 .. MaxHeight /\ h \in Nat /\ row \in Nat /\ row < h
      /\ c.cursor_col < Width /\ Page(c) = Cut(Lift(c), h) /\ (Vivid(c) => Contrast(c))
  BY GoodFacts
<1>2. ASSUME NEW d, NEW s, Paints(c, d, s, row, c.cursor_col),
             \A r \in Rows : r >= h => s[r] = Lift(c)[r],
             \E m \in 0 .. h : Cut(s, h) \in {PageDeleted(Page(c), row, m, bg),
                                              PageInserted(Page(c), row, m, bg)}
      PROVE  Works(c, EndOfChar(d))
  <2>1. /\ Good(d) /\ EndOfChar(d) = d /\ Page(d) = Cut(s, h) /\ Frame(c, d)
        /\ Kept(c, d) /\ Border(c, d) /\ d.cursor_row = row
        /\ d.cursor_col = c.cursor_col /\ (Contrast(c) => Distinct(d))
    BY <1>1, <1>2, PaintedWell
  <2>2. Edits(c, d)
    BY <1>2, <2>1 DEF Edits, AsBefore, Stays
  <2>3. QED
    BY <1>1, <2>1, <2>2 DEF Works, Ghostless, OneStep
<1>3. Works(c, EndOfChar(DeleteLines(c, n)))
  <2> DEFINE s == Deleted(Lift(c), h, row, n, bg)
             d == DeleteLines(c, n)
  <2>1. Paints(c, d, s, row, c.cursor_col)
    BY <1>1, DeletePaints
  <2>2. /\ \E m \in 0 .. h : Cut(s, h) = PageDeleted(Page(c), row, m, bg)
        /\ \A r \in Rows : r >= h => s[r] = Lift(c)[r]
    BY <1>1, CutDeleted
  <2> HIDE DEF s, d
  <2>3. Works(c, EndOfChar(d))
    BY <1>2, <2>1, <2>2
  <2>4. QED
    BY <2>3 DEF d
<1>4. ASSUME row + n <= h PROVE Works(c, EndOfChar(InsertLines(c, n)))
  <2> DEFINE s == Inserted(Lift(c), h, row, n, bg)
             d == InsertLines(c, n)
  <2>1. Paints(c, d, s, row, c.cursor_col)
    BY <1>1, <1>4, InsertPaints
  <2>2. /\ Cut(s, h) = PageInserted(Page(c), row, n, bg)
        /\ \A r \in Rows : r >= h => s[r] = Lift(c)[r]
    BY <1>1, CutInserted
  <2>3. n \in 0 .. h
    BY <1>1, <1>4
  <2> HIDE DEF s, d
  <2>4. Works(c, EndOfChar(d))
    BY <1>2, <2>1, <2>2, <2>3
  <2>5. QED
    BY <2>4 DEF d
<1>5. QED
  BY <1>3, <1>4

-----------------------------------------------------------------------------
(* The cursor's visibility.  Hiding it, and closing a workstation, put the *)
(* saved cell back under whatever flag.                                    *)
Relifted(c, d) ==
  /\ d \in Ctx /\ d.fb = Lift(c) /\ d.cursor_buffer = c.cursor_buffer
  /\ Frame(c, d) /\ Stays(c, d)

LEMMA ReliftedShows ==
  ASSUME NEW c, Good(c), NEW d, Relifted(c, d)
  PROVE  Good(d) /\ EndOfChar(d) = d /\ Page(d) = Page(c) /\ Border(c, d)
<1>1. /\ c.fb \in Screen /\ c.cursor_row \in Rows /\ c.cursor_col \in Cols
      /\ OnScreen(c) /\ SavedOK(c) /\ Settled(c) /\ c \in Ctx
  BY GoodFacts DEF Ctx
<1>2. CursorCell(d) = d.cursor_buffer /\ Lift(d) = Lift(c)
  BY <1>1 DEF Relifted, Stays, CursorCell, Lift, Screen
<1>3. OnScreen(d) /\ Settled(d)
  BY <1>1 DEF Relifted, Frame, Stays, OnScreen, Settled, SavedOK
<1>4. Good(d)
  BY <1>2, <1>3 DEF Good, Clean
<1>5. Page(d) = Page(c)
  <2>1. Page(d) = Cut(Lift(d), d.HEIGHT)
    BY PageIsCut DEF Relifted
  <2>2. Page(c) = Cut(Lift(c), c.HEIGHT)
    BY <1>1, PageIsCut
  <2>3. QED
    BY <1>2, <2>1, <2>2 DEF Relifted, Frame
<1>6. Border(c, d)
  BY <1>1, OnScreenBorder DEF Relifted, Border
<1>7. QED
  BY <1>3, <1>4, <1>5, <1>6, EndOfCharStays

LEMMA HideWorks ==
  ASSUME NEW c, Good(c)
  PROVE  /\ Works(c, EndOfChar(HideCursor(c))) /\ Good(HideCursor(c))
         /\ Flags(c, HideCursor(c)) /\ ~HideCursor(c).cursor_visible
         /\ Border(c, HideCursor(c))
         /\ Ghostless(c, EndOfChar(gfx_close_workstation(c)))
         /\ Good(gfx_close_workstation(c)) /\ Flags(c, gfx_close_workstation(c))
         /\ Border(c, gfx_close_workstation(c))
<1>1. c \in Ctx
  BY GoodFacts
<1>2. ASSUME NEW v \in BOOLEAN
      PROVE  LET d == gfx_restore_cursor_content([c EXCEPT !.cursor_visible = v])
             IN  /\ Good(d) /\ EndOfChar(d) = d /\ Flags(c, d) /\ Border(c, d)
                 /\ d.cursor_visible = v
  <2> DEFINE e == [c EXCEPT !.cursor_visible = v]
             d == gfx_restore_cursor_content(e)
  <2>1. /\ e \in Ctx /\ Lift(e) = Lift(c) /\ e.cursor_visible = v
        /\ e.cursor_buffer = c.cursor_buffer /\ Frame(c, e) /\ Stays(c, e) /\ Colours(c, e)
    BY <1>1 DEF Ctx, Lift, Frame, Stays, Colours
  <2> HIDE DEF e
  <2>2. /\ At(e, d, e.cursor_row, e.cursor_col) /\ Kept(e, d) /\ d.fb = Lift(e)
        /\ d.cursor_buffer = e.cursor_buffer
    BY <2>1, RestoreLifts
  <2> HIDE DEF d
  <2>3. Relifted(c, d)
    BY <2>1, <2>2 DEF Relifted, At, Frame, Stays
  <2>4. Good(d) /\ EndOfChar(d) = d /\ Page(d) = Page(c) /\ Border(c, d)
    BY <2>3, ReliftedShows
  <2>5. Flags(c, d) /\ d.cursor_visible = v
    BY <2>1, <2>2, <2>3, <2>4 DEF Flags, Relifted, Colours, Kept
  <2>6. QED
    BY <2>4, <2>5 DEF d, e
<1> DEFINE hidden == HideCursor(c)
           closed == gfx_close_workstation(c)
<1>3. /\ Good(hidden) /\ EndOfChar(hidden) = hidden /\ Flags(c, hidden)
      /\ Border(c, hidden) /\ ~hidden.cursor_visible
  BY <1>2 DEF HideCursor
<1>4. /\ Good(closed) /\ EndOfChar(closed) = closed /\ Flags(c, closed)
      /\ Border(c, closed)
  BY <1>2 DEF gfx_close_workstation
<1> HIDE DEF hidden, closed
<1>5. Works(c, hidden)
  BY <1>3 DEF Works, Ghostless, OneStep, Distinct
<1>6. Ghostless(c, closed)
  BY <1>4 DEF Ghostless, OneStep
<1>7. QED
  BY <1>3, <1>4, <1>5, <1>6 DEF hidden, closed

(* Drawing the block over a cell without one: what ESC[?25h and the start  *)
(* of graphics mode do, both of a hidden cursor.                           *)
LEMMA RerenderWorks ==
  ASSUME NEW c, Good(c), ~c.cursor_visible, NEW v \in BOOLEAN
  PROVE  LET d == gfx_term_render_cursor([c EXCEPT !.cursor_visible = v])
         IN  Works(c, EndOfChar(d)) /\ d.cursor_visible = v
<1> DEFINE e == [c EXCEPT !.cursor_visible = v]
           d == gfx_term_render_cursor(e)
<1>1. c \in Ctx /\ CursorCell(c) = c.cursor_buffer
  BY GoodFacts DEF Clean
<1>2. c.fb = Lift(c)
  BY <1>1 DEF Ctx, Lift, CursorCell, Screen
<1>3. /\ e \in Ctx /\ e.fb = c.fb /\ e.cursor_visible = v
      /\ Frame(c, e) /\ Stays(c, e) /\ Colours(c, e)
  BY <1>1 DEF Ctx, Frame, Stays, Colours
<1> HIDE DEF e
<1>4. Paints(e, d, e.fb, e.cursor_row, e.cursor_col)
  BY <1>3, RenderPaints
<1> HIDE DEF d
<1>5. /\ d \in Ctx /\ Frame(c, d) /\ Stays(c, d) /\ Colours(c, d)
      /\ d.cursor_visible = v /\ Lift(d) = Lift(c) /\ Clean(d)
      /\ Contrast(c) => Distinct(d)
  BY <1>2, <1>3, <1>4 DEF Paints, At, Kept, Frame, Stays, Colours, Contrast
<1>6. OnScreen(d) /\ Settled(d)
  BY <1>5, GoodFacts DEF Frame, Stays, OnScreen, Settled, SavedOK
<1>7. Good(d) /\ EndOfChar(d) = d
  BY <1>5, <1>6, EndOfCharStays DEF Good
<1>8. Page(d) = Page(c)
  <2>1. Page(d) = Cut(Lift(d), d.HEIGHT)
    BY <1>5, PageIsCut
  <2>2. Page(c) = Cut(Lift(c), c.HEIGHT)
    BY <1>1, PageIsCut
  <2>3. QED
    BY <1>5, <2>1, <2>2 DEF Frame
<1>9. Border(c, d)
  <2>1. \A r \in Rows : r >= c.HEIGHT => Lift(c)[r] = c.fb[r]
    BY <1>1, GoodFacts, OnScreenBorder
  <2>2. \A r \in Rows : r >= c.HEIGHT => Lift(d)[r] = d.fb[r]
    BY <1>5, <1>6, OnScreenBorder DEF Frame
  <2>3. QED
    BY <1>5, <2>1, <2>2 DEF Border
<1>10. Vivid(c) => Contrast(c)
  BY GoodFacts
<1>11. Works(c, d)
  BY <1>5, <1>7, <1>8, <1>9, <1>10 DEF Works, Ghostless, OneStep, Flags
<1>12. QED
  BY <1>5, <1>7, <1>11 DEF d, e

LEMMA ShowWorks ==
  ASSUME NEW c, Good(c), ~c.cursor_visible
  PROVE  /\ Works(c, EndOfChar(ShowCursor(c)))
         /\ Works(c, EndOfChar(EnterGraphicsMode(c)))
BY RerenderWorks DEF ShowCursor, EnterGraphicsMode

LEMMA OpenWorks ==
  ASSUME NEW c, Good(c)
  PROVE  Works(c, EndOfChar(gfx_open_workstation(c)))
<1> DEFINE closed == gfx_close_workstation(c)
           hidden == HideCursor(closed)
           d      == EndOfChar(FormFeed(hidden))
<1>1. Good(closed) /\ Flags(c, closed) /\ Border(c, closed)
  BY HideWorks
<1> HIDE DEF closed
<1>2. /\ Good(hidden) /\ Flags(closed, hidden) /\ Border(closed, hidden)
      /\ ~hidden.cursor_visible
  BY <1>1, HideWorks
<1> HIDE DEF hidden
<1>3. Good(d) /\ Clears(hidden, d) /\ Border(hidden, d)
  BY <1>2, FormFeedWorks
<1> HIDE DEF d
<1>4. Opens(c, d)
  BY <1>1, <1>2, <1>3 DEF Opens, Clears, Blanks, Flags, Frame, Kept, Colours, GET_BG
<1>5. Border(c, d)
  BY <1>1, <1>2, <1>3 DEF Border, Flags, Frame
<1>6. Works(c, d)
  BY <1>3, <1>4, <1>5 DEF Works, Ghostless, OneStep, Distinct, Opens
<1>7. QED
  BY <1>6 DEF d, hidden, closed, gfx_open_workstation, gfx_clear_workstation

LEMMA SaveWorks ==
  ASSUME NEW c, Good(c)
  PROVE  Works(c, EndOfChar(gfx_term_save_cursor(c)))
<1> DEFINE d == gfx_term_save_cursor(c)
<1>1. c \in Ctx /\ c.cursor_row < MaxHeight /\ c.cursor_col < Width
  BY GoodFacts DEF Settled
<1>2. /\ SameCells(c, d) /\ SavedOK(d) /\ Kept(c, d)
      /\ d.saved_cursor = <<c.cursor_row, c.cursor_col>>
  BY <1>1 DEF gfx_term_save_cursor, SameCells, Stays, SavedOK, Kept, Ctx
<1> HIDE DEF d
<1>3. /\ EndOfChar(d) = d /\ Page(d) = Page(c) /\ Border(c, d) /\ Good(d)
      /\ (Distinct(c) => Distinct(d))
  BY <1>2, SameCellsShow DEF Kept
<1>4. Works(c, d)
  BY <1>2, <1>3 DEF Works, Ghostless, OneStep, Saves, SameCells
<1>5. QED
  BY <1>3, <1>4 DEF d

(* The attributes change; the block stays as it was drawn. *)
LEMMA RecolouredWorks ==
  ASSUME NEW c, Good(c), NEW d, SameCells(c, d), d.saved_cursor = c.saved_cursor,
         d.cursor_visible = c.cursor_visible
  PROVE  /\ EndOfChar(d) = d /\ Good(d) /\ Recolours(c, d) /\ Border(c, d)
         /\ Distinct(c) => Distinct(d)
<1>1. SavedOK(d)
  BY GoodFacts DEF SavedOK
<1>2. /\ EndOfChar(d) = d /\ Page(d) = Page(c) /\ Border(c, d) /\ Good(d)
      /\ (Distinct(c) => Distinct(d))
  BY <1>1, SameCellsShow
<1>3. QED
  BY <1>2 DEF Recolours, Frame, SameCells

(* A change of attributes takes each colour from the choice or from the    *)
(* one it had, and a reset from the default.                               *)
Tints(c, d, F, B) ==
  /\ d.fg \in F \cup {c.fg, c.default_fg} /\ d.default_fg \in F \cup {c.default_fg}
  /\ d.bg \in B \cup {c.bg, c.default_bg} /\ d.default_bg \in B \cup {c.default_bg}

Recoloured(c, d, F, B) ==
  /\ Good(d) /\ Recolours(c, d) /\ Border(c, d) /\ (Distinct(c) => Distinct(d))
  /\ Tints(c, d, F, B)

LEMMA AttributesWork ==
  ASSUME NEW c, Good(c), NEW f \in Colour, NEW b \in Colour, NEW i \in BOOLEAN
  PROVE  /\ Recoloured(c, EndOfChar([c EXCEPT !.fg = f]), {f}, {})
         /\ Recoloured(c, EndOfChar([c EXCEPT !.bg = b]), {}, {b})
         /\ Recoloured(c, EndOfChar([c EXCEPT !.default_fg = f, !.default_bg = b]), {f}, {b})
         /\ Recoloured(c, EndOfChar([c EXCEPT !.inverse = i]), {}, {})
         /\ Recoloured(c, EndOfChar(gfx_term_reset_attrib(c)), {}, {})
<1> DEFINE Same(d) == /\ SameCells(c, d) /\ d.saved_cursor = c.saved_cursor
                      /\ d.cursor_visible = c.cursor_visible
           reset == gfx_term_reset_attrib(c)
<1>1. c \in Ctx
  BY GoodFacts
<1>2. /\ Same([c EXCEPT !.fg = f]) /\ Same([c EXCEPT !.bg = b])
      /\ Same([c EXCEPT !.inverse = i])
  BY <1>1 DEF SameCells, Stays, Ctx
<1>3. Same([c EXCEPT !.default_fg = f, !.default_bg = b]) /\ Same(reset)
  BY <1>1 DEF SameCells, Stays, Ctx, gfx_term_reset_attrib
<1>4. /\ Tints(c, [c EXCEPT !.fg = f], {f}, {}) /\ Tints(c, [c EXCEPT !.bg = b], {}, {b})
      /\ Tints(c, [c EXCEPT !.inverse = i], {}, {})
  BY <1>1 DEF Tints, Ctx
<1>5. /\ Tints(c, [c EXCEPT !.default_fg = f, !.default_bg = b], {f}, {b})
      /\ Tints(c, reset, {}, {})
  BY <1>1 DEF Tints, Ctx, gfx_term_reset_attrib
<1>6. ASSUME NEW d, Same(d), NEW F, NEW B, Tints(c, d, F, B)
      PROVE  Recoloured(c, EndOfChar(d), F, B)
  BY <1>6, RecolouredWorks DEF Recoloured
<1> HIDE DEF Same, reset
<1>7. QED
  BY <1>2, <1>3, <1>4, <1>5, <1>6 DEF reset

(* A reset, attribute by attribute. *)
LEMMA ResetColours ==
  ASSUME NEW c \in Ctx, NEW d, Resets(c, d)
  PROVE  /\ d.fg = c.default_fg /\ d.bg = c.default_bg /\ d.inverse = FALSE
         /\ d.default_fg = c.default_fg /\ d.default_bg = c.default_bg
BY DEF Resets, Colours, gfx_term_reset_attrib, Ctx

LEMMA EscapeWorks ==
  ASSUME NEW c, Good(c), NEW id \in 2 .. 10, id \in {2, 3} => ~c.cursor_visible
  PROVE  Works(c, EndOfChar(gfx_escape(c, id)))
<1>1. CASE id \in {2, 3}
  BY <1>1, ShowWorks DEF gfx_escape
<1>2. CASE id \in {4, 5, 6, 7}
  <2>1. /\ Works(c, EndOfChar(CursorUp(c, 1))) /\ Works(c, EndOfChar(CursorDown(c, 1)))
        /\ Works(c, EndOfChar(CursorRight(c, 1))) /\ Works(c, EndOfChar(CursorLeft(c, 1)))
    BY AddressingWorks
  <2>2. QED
    BY <1>2, <2>1 DEF gfx_escape
<1>3. CASE id = 8
  BY <1>3, MoveCursorWorks DEF gfx_escape
<1>4. CASE id = 9
  BY <1>4, EraseInDisplayWorks DEF gfx_escape
<1>5. CASE id = 10
  BY <1>5, EraseInLineWorks DEF gfx_escape
<1>6. id \in {2, 3} \/ id \in {4, 5, 6, 7} \/ id = 8 \/ id = 9 \/ id = 10
  OBVIOUS
<1>7. QED
  BY <1>1, <1>2, <1>3, <1>4, <1>5, <1>6

(* A figure that keeps away from the cursor's cell. *)
LEMMA DrawWorks ==
  ASSUME NEW c, Good(c), NEW mark \in Cell, NEW r \in 0 .. c.HEIGHT - 1,
         NEW k \in 0 .. Width - 1, <<r, k>> # <<c.cursor_row, c.cursor_col>>
  PROVE  LET d == EndOfChar([c EXCEPT !.fb[r][k] = mark])
         IN  Good(d) /\ Draws(c, d, mark) /\ Border(c, d) /\ (Distinct(c) => Distinct(d))
<1> DEFINE d == [c EXCEPT !.fb[r][k] = mark]
<1>1. /\ c \in Ctx /\ c.fb \in Screen /\ c.cursor_row \in Rows /\ c.cursor_col \in Cols
      /\ OnScreen(c) /\ Settled(c) /\ c.HEIGHT \in 1 .. MaxHeight
      /\ Lift(c) \in Screen /\ Page(c) = Cut(Lift(c), c.HEIGHT)
  BY GoodFacts DEF Ctx
<1>2. r \in Rows /\ k \in Cols /\ r \in Nat /\ k \in Nat /\ r < c.HEIGHT /\ k < Width
  BY <1>1, Sizes DEF Rows, Cols
<1>3. /\ d \in Ctx /\ d.fb = Marked(c.fb, r, k, mark) /\ AsBefore(c, d) /\ Stays(c, d)
      /\ d.cursor_buffer = c.cursor_buffer
  BY <1>1, <1>2 DEF Ctx, Screen, Marked, AsBefore, Frame, Kept, Stays
<1> HIDE DEF d
<1>4. \A row \in Rows, col \in Cols :
        d.fb[row][col] = IF row = r /\ col = k THEN mark ELSE c.fb[row][col]
  BY <1>1, <1>2, <1>3 DEF Marked, Screen
<1>5. CursorCell(d) = CursorCell(c)
  BY <1>1, <1>3, <1>4 DEF CursorCell, Stays
<1>6. OnScreen(d) /\ Settled(d)
  BY <1>1, <1>3 DEF AsBefore, Frame, Stays, OnScreen, Settled, SavedOK
<1>7. Good(d) /\ EndOfChar(d) = d /\ (Distinct(c) => Distinct(d))
  <2>1. Clean(c)
    BY GoodFacts
  <2>2. Clean(d) /\ (Distinct(c) => Distinct(d))
    BY <1>3, <1>5, <2>1 DEF AsBefore, Kept, Clean, Distinct
  <2>3. QED
    BY <1>6, <2>2, EndOfCharStays DEF Good
<1>8. Lift(d) = Marked(Lift(c), r, k, mark)
  <2>1. r # c.cursor_row \/ k # c.cursor_col
    OBVIOUS
  <2>2. QED
    BY <1>1, <1>2, <1>3, <2>1 DEF Lift, Marked, Screen, Stays
<1>9. Page(d) = Marked(Page(c), r, k, mark)
  <2>1. Page(d) = Cut(Lift(d), c.HEIGHT)
    BY <1>3, PageIsCut DEF AsBefore, Frame
  <2>2. Cut(Marked(Lift(c), r, k, mark), c.HEIGHT) = Marked(Cut(Lift(c), c.HEIGHT), r, k, mark)
    BY <1>1, <1>2, CutGlyph
  <2>3. QED
    BY <1>1, <1>8, <2>1, <2>2
<1>10. Border(c, d)
  BY <1>1, <1>2, <1>3 DEF Border, Marked, Screen
<1>11. Draws(c, d, mark)
  BY <1>3, <1>9 DEF Draws
<1>12. QED
  BY <1>7, <1>10, <1>11 DEF d

-----------------------------------------------------------------------------
(* A resize starts over: every row of the page is blank, in the paper or   *)
(* in the colour of the border, whatever was drawn where.                  *)
LEMMA GeometryWorks ==
  ASSUME NEW c \in Ctx, SavedOK(c), NEW edge \in Colour
  PROVE  LET d == gfx_set_screen_geometry(c, edge)
         IN  Good(d) /\ Resizes(c, d, edge) /\ (Contrast(c) => Distinct(d))
<1> DEFINE pfb == BorderRows(c.font_height, c.line_limit)
           h   == TermHeight(c.font_height, c.line_limit)
           inside(r) == /\ pfb + r * c.font_height >= c.pfb
                        /\ pfb + (r + 1) * c.font_height <= FullHeight - c.pfb
           s   == [r \in Rows |-> SolidRow(IF inside(r) THEN GET_BG(c) ELSE edge)]
           new == [c EXCEPT !.fb = s, !.pfb = pfb, !.HEIGHT = h,
                            !.cursor_row = 0, !.cursor_col = 0]
           d   == gfx_set_screen_geometry(c, edge)
<1>1. s \in Screen
  BY PaintType, SolidType DEF Screen
<1>1a. \A r \in Rows : s[r] \in {SolidRow(GET_BG(c)), SolidRow(edge)}
  OBVIOUS
<1>2. pfb \in 0 .. FullHeight /\ h \in 1 .. MaxHeight
  BY FontAssumption DEF Ctx
<1>3. 0 \in Rows /\ 0 \in Cols
  BY Sizes DEF Rows, Cols
<1> HIDE DEF s, pfb, h
<1>4. /\ new \in Ctx /\ new.cursor_row = 0 /\ new.cursor_col = 0 /\ new.fb = s
      /\ new.HEIGHT = h /\ new.saved_cursor = c.saved_cursor /\ Kept(c, new)
  BY <1>1, <1>2, <1>3 DEF Ctx, Kept
<1>5. d = gfx_term_render_cursor(new)
  BY DEF gfx_set_screen_geometry, s, pfb, h
<1> HIDE DEF new, d
<1>6. Paints(new, d, s, 0, 0)
  BY <1>4, <1>5, RenderPaints
<1>7. /\ d \in Ctx /\ d.HEIGHT = h /\ d.saved_cursor = c.saved_cursor
      /\ d.cursor_row = 0 /\ d.cursor_col = 0 /\ Kept(c, d) /\ Lift(d) = s
      /\ Clean(d) /\ (Contrast(c) => Distinct(d))
  BY <1>4, <1>6 DEF Paints, At, Kept, Contrast
<1>8. Settled(d) /\ OnScreen(d)
  BY GeometrySettles DEF d
<1>9. Page(d) = Cut(s, h)
  BY <1>7, PageIsCut
<1>10. ASSUME NEW r \in 0 .. h - 1
       PROVE  Cut(s, h)[r] \in {BlankLine(GET_BG(c)), BlankLine(edge)}
  <2>1. r \in Rows
    BY <1>2, Sizes DEF Rows
  <2>2. Cut(s, h)[r] = [k \in 0 .. Width - 1 |-> s[r][k]]
    BY DEF Cut
  <2>3. \A k \in 0 .. Width - 1 : k \in Cols
    BY Sizes DEF Cols
  <2>4. PICK p \in {GET_BG(c), edge} : s[r] = SolidRow(p)
    BY <1>1a, <2>1
  <2>5. Cut(s, h)[r] = BlankLine(p)
    BY <2>2, <2>3, <2>4 DEF SolidRow, BlankLine
  <2>6. QED
    BY <2>4, <2>5
<1>11. DOMAIN Cut(s, h) = 0 .. h - 1
  BY DEF Cut
<1>12. Resizes(c, d, edge)
  BY <1>7, <1>9, <1>10, <1>11 DEF Resizes
<1>13. QED
  BY <1>7, <1>8, <1>12 DEF Good, d

LEMMA TogglesWork ==
  ASSUME NEW c, Good(c), NEW edge \in Colour,
         NEW d \in {gfx_toggle_font_height(c, edge), gfx_toggle_lines(c, edge)}
  PROVE  Good(d) /\ Resizes(c, d, edge) /\ (Contrast(c) => Distinct(d))
<1>1. Settled(c)
  BY GoodFacts
<1>2. ASSUME NEW new \in Ctx, new.saved_cursor = c.saved_cursor, Kept(c, new),
             d = gfx_set_screen_geometry(new, edge)
      PROVE  Good(d) /\ Resizes(c, d, edge) /\ (Contrast(c) => Distinct(d))
  <2>1. SavedOK(new)
    BY <1>1, <1>2 DEF Settled, SavedOK
  <2>2. Good(d) /\ Resizes(new, d, edge) /\ (Contrast(new) => Distinct(d))
    BY <1>2, <2>1, GeometryWorks
  <2>3. GET_BG(new) = GET_BG(c) /\ (Contrast(c) => Contrast(new))
    BY <1>2 DEF Kept, GET_BG, Contrast
  <2>4. Resizes(c, d, edge)
    BY <1>2, <2>2, <2>3 DEF Resizes, Kept
  <2>5. QED
    BY <2>2, <2>3, <2>4
<1>3. CASE d = gfx_toggle_font_height(c, edge)
  <2>1. PICK h \in FontSet, l \in 0 .. FullHeight :
          d = gfx_set_screen_geometry([c EXCEPT !.font_height = h, !.line_limit = l], edge)
    BY <1>1, <1>3, ToggledFont
  <2>2. /\ [c EXCEPT !.font_height = h, !.line_limit = l] \in Ctx
        /\ [c EXCEPT !.font_height = h, !.line_limit = l].saved_cursor = c.saved_cursor
        /\ Kept(c, [c EXCEPT !.font_height = h, !.line_limit = l])
    BY <1>1 DEF Settled, Ctx, Kept
  <2>3. QED
    BY <1>2, <2>1, <2>2
<1>4. CASE d = gfx_toggle_lines(c, edge)
  <2>1. ToggledLimit(c) \in 0 .. FullHeight
    BY <1>1, ToggledLimitType
  <2>2. /\ [c EXCEPT !.line_limit = ToggledLimit(c)] \in Ctx
        /\ [c EXCEPT !.line_limit = ToggledLimit(c)].saved_cursor = c.saved_cursor
        /\ Kept(c, [c EXCEPT !.line_limit = ToggledLimit(c)])
    BY <1>1, <2>1 DEF Settled, Ctx, Kept
  <2>3. d = gfx_set_screen_geometry([c EXCEPT !.line_limit = ToggledLimit(c)], edge)
    BY <1>4 DEF gfx_toggle_lines
  <2>4. QED
    BY <1>2, <2>2, <2>3
<1>5. QED
  BY <1>3, <1>4

(* The terminal powers up with a blank page and the cursor in its corner.  *)
LEMMA PowerUpWorks ==
  /\ Good(PowerUp) /\ PowerUp.cursor_row = 0 /\ PowerUp.cursor_col = 0
  /\ PowerUp.saved_cursor = <<0, 0>> /\ PowerUp.cursor_visible /\ ~PowerUp.inverse
  /\ PowerUp.fg = DEFAULT_FG /\ PowerUp.bg = DEFAULT_BG
  /\ PowerUp.default_fg = DEFAULT_FG /\ PowerUp.default_bg = DEFAULT_BG
  /\ Page(PowerUp) = [r \in 0 .. PowerUp.HEIGHT - 1 |-> BlankLine(DEFAULT_BG)]
  /\ DEFAULT_FG # DEFAULT_BG => Distinct(PowerUp)
<1> DEFINE c == [ fb |-> [r \in Rows |-> SolidRow(DEFAULT_BG)],
      pfb |-> BorderRows(FONT_HEIGHT, 0), HEIGHT |-> TermHeight(FONT_HEIGHT, 0),
      cursor_row |-> 0, cursor_col |-> 0, saved_cursor |-> <<0, 0>>,
      cursor_visible |-> TRUE, cursor_buffer |-> Solid(DEFAULT_BG),
      fg |-> DEFAULT_FG, bg |-> DEFAULT_BG, inverse |-> FALSE,
      default_fg |-> DEFAULT_FG, default_bg |-> DEFAULT_BG,
      line_limit |-> 0, font_height |-> FONT_HEIGHT ]
           d == PowerUp
<1>1. 0 \in Rows /\ 0 \in Cols /\ 0 \in 0 .. FullHeight
  BY Sizes DEF Rows, Cols
<1>2. DEFAULT_FG \in Colour /\ DEFAULT_BG \in Colour
  BY SizeAssumption DEF Colour
<1>3. /\ FONT_HEIGHT \in FontSet /\ TermHeight(FONT_HEIGHT, 0) \in 1 .. MaxHeight
      /\ BorderRows(FONT_HEIGHT, 0) \in 0 .. FullHeight
  BY <1>1, FontAssumption
<1>4. [r \in Rows |-> SolidRow(DEFAULT_BG)] \in Screen /\ Solid(DEFAULT_BG) \in Cell
  BY <1>2, SolidType DEF Screen
<1>5. c \in Ctx
  BY <1>1, <1>2, <1>3, <1>4 DEF Ctx
<1>6. d = gfx_term_render_cursor(c)
  BY DEF PowerUp
<1> HIDE DEF d
<1>7. Paints(c, d, c.fb, 0, 0)
  BY <1>5, <1>6, RenderPaints
<1>8. /\ d \in Ctx /\ d.HEIGHT = c.HEIGHT /\ d.saved_cursor = c.saved_cursor
      /\ d.cursor_row = 0 /\ d.cursor_col = 0 /\ Kept(c, d)
      /\ Lift(d) = c.fb /\ Clean(d) /\ (Contrast(c) => Distinct(d))
  BY <1>7 DEF Paints, At
<1>9. Good(d)
  BY <1>8, PowerUpSettles DEF Good, d
<1>10. Page(d) = Cut(c.fb, d.HEIGHT)
  BY <1>8, PageIsCut
<1>11. Cut(c.fb, c.HEIGHT) = [r \in 0 .. c.HEIGHT - 1 |-> BlankLine(DEFAULT_BG)]
  <2>1. \A r \in 0 .. c.HEIGHT - 1, k \in 0 .. Width - 1 : r \in Rows /\ k \in Cols
    BY <1>3, Sizes DEF Rows, Cols
  <2>2. QED
    BY <2>1 DEF Cut, BlankLine, SolidRow
<1>12. QED
  BY <1>8, <1>9, <1>10, <1>11 DEF Kept, Contrast, d

-----------------------------------------------------------------------------
(* The refinement.  What Gfx says of two contexts is what LogicalScreen    *)
(* says of the page they show.                                             *)
LEMMA MotionIsLogical ==
  ASSUME Good(ctx), Good(ctx'), Moves(ctx, ctx')
  PROVE  Logical!Motion
<1>1. /\ ctx'.HEIGHT = ctx.HEIGHT /\ ctx'.cursor_row \in Nat /\ ctx'.cursor_col \in Nat
      /\ ctx'.cursor_row < ctx.HEIGHT /\ ctx'.cursor_col < Width /\ ctx.HEIGHT \in Nat
  BY GoodFacts DEF Moves, AsBefore, Frame
<1> DEFINE r == ctx'.cursor_row + 1
           k == ctx'.cursor_col + 1
<1>2. r \in 1 .. ctx.HEIGHT /\ k \in 1 .. Width
  BY <1>1, Sizes
<1>3. Logical!Address(r, k)
  BY <1>1, Sizes DEF Logical!Address, Logical!MoveTo, Logical!Within
<1> HIDE DEF r, k
<1>4. Page(ctx') = Page(ctx)
  BY DEF Moves
<1>5. QED
  BY <1>2, <1>3, <1>4 DEF Logical!Motion, Moves, AsBefore, Frame, Kept

LEMMA WritingIsLogical ==
  ASSUME Good(ctx), Good(ctx')
  PROVE  /\ \A g \in Shape : Prints(ctx, ctx', g) => Logical!Put(g)
         /\ Feeds(ctx, ctx') => Logical!LineFeed
<1>1. ASSUME NEW page, NextLine(ctx, ctx', page) PROVE Logical!NextLine(page)
  BY <1>1 DEF NextLine, Logical!NextLine, Rolled, Logical!Rolled, BlankLine,
              Logical!ClearedRow, Logical!PageCols, Logical!Cleared, Solid,
              GET_BG, Logical!Paper
<1>2. ASSUME NEW g \in Shape, Prints(ctx, ctx', g) PROVE Logical!Put(g)
  <2> DEFINE page == Marked(Page(ctx), ctx.cursor_row, ctx.cursor_col, Glyph(ctx, g))
  <2>1. page = [Page(ctx) EXCEPT ![ctx.cursor_row][ctx.cursor_col] = Logical!Char(g)]
    BY DEF Marked, Glyph, Logical!Char, Logical!Cleared, Solid, Logical!Ink,
           Logical!Paper, GET_BG, GET_FG
  <2>2. /\ AsBefore(ctx, ctx')
        /\ IF ctx.cursor_col + 1 < Width
           THEN /\ ctx'.cursor_col = ctx.cursor_col + 1 /\ ctx'.cursor_row = ctx.cursor_row
                /\ Page(ctx') = page
           ELSE ctx'.cursor_col = 0 /\ NextLine(ctx, ctx', page)
    BY <1>2 DEF Prints
  <2> HIDE DEF page
  <2>3. IF ctx.cursor_col + 1 < Width
        THEN /\ ctx'.cursor_col = ctx.cursor_col + 1 /\ ctx'.cursor_row = ctx.cursor_row
             /\ Page(ctx') = page
        ELSE ctx'.cursor_col = 0 /\ Logical!NextLine(page)
    BY <1>1, <2>2
  <2>4. QED
    BY <2>1, <2>2, <2>3 DEF Logical!Put, AsBefore, Frame, Kept
<1>3. ASSUME Feeds(ctx, ctx') PROVE Logical!LineFeed
  BY <1>1, <1>3 DEF Feeds, Logical!LineFeed, AsBefore, Frame, Kept
<1>4. QED
  BY <1>2, <1>3

LEMMA ErasureIsLogical ==
  ASSUME Erases(ctx, ctx')
  PROVE  Logical!Erase
<1>1. PICK mode \in Modes : Page(ctx') = Without(ctx, mode)
  BY DEF Erases
<1>2. ASSUME NEW r, NEW k
      PROVE  Logical!Erased(mode, r, k) <=> Struck(ctx, mode, r, k)
  BY DEF Logical!Erased, Struck
<1>3. Page(ctx') =
        [r \in DOMAIN Page(ctx) |-> [k \in Logical!PageCols |->
           IF Logical!Erased(mode, r, k) THEN Logical!Cleared(ctx.bg) ELSE Page(ctx)[r][k]]]
  BY <1>1, <1>2 DEF Without, Logical!PageCols, Logical!Cleared, Solid
<1>4. mode \in {"line end", "line start", "line", "page end", "page start"}
  BY DEF Modes
<1>5. QED
  BY <1>3, <1>4, ZenonT(60) DEF Erases, Logical!Erase, AsBefore, Frame, Kept, Stays

LEMMA PlainRecord ==
  ASSUME NEW S, NEW a \in [fg : S, bg : S, inverse : BOOLEAN, default_fg : S, default_bg : S]
  PROVE  [a EXCEPT !.fg = a.default_fg, !.bg = a.default_bg, !.inverse = FALSE] =
           [fg |-> a.default_fg, bg |-> a.default_bg, inverse |-> FALSE,
            default_fg |-> a.default_fg, default_bg |-> a.default_bg]
<1> DEFINE e == [a EXCEPT !.fg = a.default_fg, !.bg = a.default_bg, !.inverse = FALSE]
<1>1. /\ e \in [fg : S, bg : S, inverse : BOOLEAN, default_fg : S, default_bg : S]
      /\ e.fg = a.default_fg /\ e.bg = a.default_bg /\ ~e.inverse
      /\ e.default_fg = a.default_fg /\ e.default_bg = a.default_bg
  OBVIOUS
<1> HIDE DEF e
<1>2. e = [fg |-> a.default_fg, bg |-> a.default_bg, inverse |-> FALSE,
           default_fg |-> a.default_fg, default_bg |-> a.default_bg]
  BY <1>1
<1>3. QED
  BY <1>2 DEF e

LEMMA ClearingIsLogical ==
  ASSUME ctx \in Ctx
  PROVE  /\ Clears(ctx, ctx') => Logical!Clear
         /\ Resets(ctx, ctx') => Logical!Reset
         /\ Opens(ctx, ctx') => Logical!Open
<1>1. ASSUME NEW paper, Blanks(ctx, ctx', paper) PROVE Logical!HomeAndClear(paper)
  BY <1>1 DEF Blanks, Frame, BlankLine, Logical!HomeAndClear, Logical!PageRows,
              Logical!ClearedRow, Logical!PageCols, Logical!Cleared, Solid
<1>2. Clears(ctx, ctx') => Logical!Clear
  BY <1>1 DEF Clears, Kept, Logical!Clear, Logical!Paper, GET_BG
<1>3. ASSUME Resets(ctx, ctx') PROVE Logical!Reset
  <2>1. Blanks(ctx, ctx', ctx.default_bg) /\ ctx'.cursor_visible = ctx.cursor_visible
    BY <1>3 DEF Resets
  <2>1a. Logical!HomeAndClear(ctx.default_bg)
    BY <1>1, <2>1
  <2>2. /\ ctx'.fg = ctx.default_fg /\ ctx'.bg = ctx.default_bg /\ ctx'.inverse = FALSE
        /\ ctx'.default_fg = ctx.default_fg /\ ctx'.default_bg = ctx.default_bg
    BY <1>3, ResetColours
  <2>3. QED
    <3> DEFINE attr == [fg |-> ctx.fg, bg |-> ctx.bg, inverse |-> ctx.inverse,
                        default_fg |-> ctx.default_fg, default_bg |-> ctx.default_bg]
    <3>1. attr' = Logical!PlainAttr
      <4>1. attr \in [fg : Colour, bg : Colour, inverse : BOOLEAN,
                       default_fg : Colour, default_bg : Colour]
        BY DEF Ctx
      <4> HIDE DEF attr
      <4>2. Logical!PlainAttr =
              [fg |-> attr.default_fg, bg |-> attr.default_bg, inverse |-> FALSE,
               default_fg |-> attr.default_fg, default_bg |-> attr.default_bg]
        BY <4>1, PlainRecord DEF Logical!PlainAttr, attr
      <4>3. attr.default_fg = ctx.default_fg /\ attr.default_bg = ctx.default_bg
        BY DEF attr
      <4>4. QED
        BY <2>2, <4>2, <4>3 DEF attr
    <3>2. attr.default_bg = ctx.default_bg
      OBVIOUS
    <3>3. Logical!HomeAndClear(attr.default_bg)
      BY <1>1, <2>1, <3>2
    <3>4. QED
      BY <2>1, <3>1, <3>3 DEF Logical!Reset
<1>4. Opens(ctx, ctx') => Logical!Open
  BY <1>1 DEF Opens, Colours, Logical!Open, Logical!Paper, GET_BG
<1>5. QED
  BY <1>2, <1>3, <1>4

LEMMA EditingIsLogical ==
  ASSUME Edits(ctx, ctx')
  PROVE  Logical!EditLines
<1>1. PICK n \in 0 .. ctx.HEIGHT :
        Page(ctx') \in {PageDeleted(Page(ctx), ctx.cursor_row, n, GET_BG(ctx)),
                        PageInserted(Page(ctx), ctx.cursor_row, n, GET_BG(ctx))}
  BY DEF Edits
<1>2. /\ PageDeleted(Page(ctx), ctx.cursor_row, n, GET_BG(ctx)) =
           Logical!DeleteLines(Page(ctx), n)
      /\ PageInserted(Page(ctx), ctx.cursor_row, n, GET_BG(ctx)) =
           Logical!InsertLines(Page(ctx), n)
  BY DEF PageDeleted, PageInserted, Logical!DeleteLines, Logical!InsertLines, BlankLine,
         Logical!ClearedRow, Logical!PageCols, Logical!Cleared, Solid, GET_BG, Logical!Paper
<1>3. QED
  BY <1>1, <1>2 DEF Edits, Logical!EditLines, AsBefore, Frame, Kept, Stays

LEMMA FlagsAreLogical ==
  ASSUME ctx' \in Ctx
  PROVE  /\ Flags(ctx, ctx') => Logical!SetShown
         /\ Saves(ctx, ctx') => Logical!Save
         /\ Recolours(ctx, ctx') => Logical!SetAttr
<1>1. Flags(ctx, ctx') => Logical!SetShown
  BY DEF Ctx, Flags, Frame, Stays, Colours, Logical!SetShown
<1>2. Saves(ctx, ctx') => Logical!Save
  BY DEF Saves, Kept, Stays, Logical!Save
<1>3. Recolours(ctx, ctx') => Logical!SetAttr
  BY DEF Ctx, Recolours, Frame, Stays, Logical!SetAttr
<1>4. QED
  BY <1>1, <1>2, <1>3

LEMMA ResizeIsLogical ==
  ASSUME Good(ctx'), NEW edge \in Colour, Resizes(ctx, ctx', edge)
  PROVE  Logical!Resize
<1>1. ctx'.HEIGHT \in 1 .. MaxHeight
  BY GoodFacts
<1>2. /\ DOMAIN Page(ctx') = 0 .. ctx'.HEIGHT - 1
      /\ \A r \in 0 .. ctx'.HEIGHT - 1 :
           Page(ctx')[r] \in {BlankLine(GET_BG(ctx)), BlankLine(edge)}
  BY DEF Resizes
<1>3. /\ BlankLine(GET_BG(ctx)) = Logical!ClearedRow(Logical!Paper)
      /\ BlankLine(edge) = Logical!ClearedRow(edge)
  BY DEF BlankLine, Logical!ClearedRow, Logical!PageCols, Logical!Cleared, Solid,
         GET_BG, Logical!Paper
<1>4. QED
  BY <1>1, <1>2, <1>3 DEF Resizes, Kept, Logical!Resize

LEMMA DrawingIsLogical ==
  ASSUME NEW mark \in Marks, Draws(ctx, ctx', mark)
  PROVE  Logical!Draw
<1>1. PICK r \in 0 .. ctx.HEIGHT - 1, k \in 0 .. Width - 1 :
        /\ <<r, k>> # <<ctx.cursor_row, ctx.cursor_col>>
        /\ Page(ctx') = Marked(Page(ctx), r, k, mark)
  BY DEF Draws
<1>2. Page(ctx') = [Page(ctx) EXCEPT ![r][k] = mark]
  BY <1>1 DEF Marked
<1>3. r \in Logical!PageRows /\ k \in Logical!PageCols
  BY DEF Logical!PageRows, Logical!PageCols
<1>4. QED
  BY <1>1, <1>2, <1>3 DEF Draws, Logical!Draw, AsBefore, Frame, Kept, Stays

LEMMA OneStepIsLogical ==
  ASSUME Good(ctx), Good(ctx'), OneStep(ctx, ctx')
  PROVE  Logical!Next
<1>1. ctx \in Ctx /\ ctx' \in Ctx
  BY GoodFacts
<1>2. CASE Moves(ctx, ctx')
  BY <1>2, MotionIsLogical DEF Logical!Next
<1>3. CASE Flags(ctx, ctx') \/ Saves(ctx, ctx')
  BY <1>1, <1>3, FlagsAreLogical DEF Logical!Next
<1>4. CASE Erases(ctx, ctx')
  BY <1>4, ErasureIsLogical DEF Logical!Next
<1>5. ASSUME NEW g \in Shape, Prints(ctx, ctx', g) PROVE Logical!Next
  BY <1>5, WritingIsLogical DEF Logical!Next, Shape
<1>6. CASE Feeds(ctx, ctx')
  BY <1>6, WritingIsLogical DEF Logical!Next
<1>7. CASE Clears(ctx, ctx') \/ Resets(ctx, ctx') \/ Opens(ctx, ctx')
  BY <1>1, <1>7, ClearingIsLogical DEF Logical!Next
<1>8. CASE Edits(ctx, ctx')
  BY <1>8, EditingIsLogical DEF Logical!Next
<1>9. QED
  BY <1>2, <1>3, <1>4, <1>5, <1>6, <1>7, <1>8 DEF OneStep

LEMMA PowerUpIsLogical ==
  ASSUME ctx = PowerUp
  PROVE  Good(ctx) /\ Logical!Init
<1>2. /\ Good(ctx) /\ ctx.cursor_row = 0 /\ ctx.cursor_col = 0
      /\ ctx.saved_cursor = <<0, 0>> /\ ctx.cursor_visible /\ ~ctx.inverse
      /\ Page(ctx) = [r \in 0 .. ctx.HEIGHT - 1 |-> BlankLine(DEFAULT_BG)]
  BY PowerUpWorks
<1>3. /\ ctx.HEIGHT \in 1 .. MaxHeight /\ ctx \in Ctx /\ DEFAULT_BG \in Colour
  BY <1>2, GoodFacts, SizeAssumption DEF Colour
<1>4. \E b \in Colour : Page(ctx) = [r \in Logical!PageRows |-> Logical!ClearedRow(b)]
  BY <1>2, <1>3 DEF BlankLine, Logical!PageRows, Logical!ClearedRow, Logical!PageCols,
                    Logical!Cleared, Solid
<1>5. [fg |-> ctx.fg, bg |-> ctx.bg, inverse |-> ctx.inverse,
       default_fg |-> ctx.default_fg, default_bg |-> ctx.default_bg]
        \in [fg : Colour, bg : Colour, inverse : {FALSE},
             default_fg : Colour, default_bg : Colour]
  BY <1>2, <1>3 DEF Ctx
<1>6. ctx.cursor_visible = TRUE
  BY <1>2, <1>3 DEF Ctx
<1>7. Logical!Init
  BY <1>2, <1>3, <1>4, <1>5, <1>6 DEF Logical!Init
<1>8. QED
  BY <1>2, <1>7
=============================================================================
