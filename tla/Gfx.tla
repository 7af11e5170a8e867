-------------------------------- MODULE Gfx --------------------------------
(***************************************************************************)
(* The terminal half of gfx.c as pure operators on the context record ctx. *)
(* An operator named like a C function maps the context before the call to *)
(* the context after it.  Pixels are abstracted to character cells: a cell *)
(* is <<glyph, foreground, background>>, and the cursor block is what the  *)
(* code makes it, a recolouring of one cell that is undone by writing back *)
(* a saved copy (the save-under buffer cursor_buffer).                     *)
(***************************************************************************)
EXTENDS Integers, Sequences

CONSTANTS
  Width,        \* ctx.term.WIDTH: columns of the terminal
  FullHeight,   \* ctx.full_height: pixel rows of the framebuffer
  Fonts,        \* heights of the fonts, in the order F12 cycles through them
  FONT_HEIGHT,  \* the font at power-up
  MinLines,     \* fewest lines F10 selects (16 in the code)
  MaxHeight,    \* most text lines any font and line limit gives
  TabStop,      \* distance of tab stops (8 in the code)
  MaxColour,    \* the last palette index (255 in the code)
  Word,         \* the modulus of unsigned arithmetic (2^32 in the code)
  Glyphs,       \* the printable shapes told apart
  Blank,        \* the shape without a foreground pixel
  DEFAULT_FG, DEFAULT_BG

FontSet == {Fonts[i] : i \in DOMAIN Fonts}

(* gfx_set_screen_geometry: lines, border and text rows of a font/limit. *)
ScreenLines(font, limit) ==
  LET all == FullHeight \div font
  IN  IF limit > 0 /\ limit < all THEN limit ELSE all

BorderRows(font, limit) ==
  LET rest == (FullHeight - ScreenLines(font, limit) * font) \div 2
  IN  IF limit = 0 /\ rest = 0 THEN font \div 2 ELSE rest

TermHeight(font, limit) == (FullHeight - 2 * BorderRows(font, limit)) \div font

ASSUME SizeAssumption ==
  /\ Width \in Nat \ {0}
  /\ TabStop \in Nat \ {0}
  /\ FullHeight \in Nat \ {0}
  /\ MinLines \in Nat
  /\ MaxHeight \in 1 .. FullHeight
  /\ MaxColour \in Nat /\ MaxColour % 2 = 1
  /\ Word \in Nat /\ Word > FullHeight /\ Word > Width
  /\ DEFAULT_FG \in 0 .. MaxColour /\ DEFAULT_BG \in 0 .. MaxColour

ASSUME FontAssumption ==
  /\ Fonts \in Seq(Nat \ {0}) /\ FONT_HEIGHT \in FontSet
  /\ \A f \in FontSet :
       /\ FullHeight \div f \in 1 .. FullHeight
       /\ \A l \in 0 .. FullHeight :
            /\ TermHeight(f, l) \in 1 .. MaxHeight
            /\ BorderRows(f, l) \in 0 .. FullHeight

-----------------------------------------------------------------------------
(* Cells, and the framebuffer as rows of cells.  Column Width and row      *)
(* HEIGHT are the positions one past the edge at which the code renders    *)
(* the cursor before it wraps or scrolls; rows from HEIGHT on are border.  *)

Colour == 0 .. MaxColour
Shape  == Glyphs \cup {Blank}
Cell   == Shape \X Colour \X Colour
Rows   == 0 .. MaxHeight
Cols   == 0 .. Width
Screen == [Rows -> [Cols -> Cell]]

Solid(colour)    == <<Blank, colour, colour>>
SolidRow(colour) == [k \in Cols |-> Solid(colour)]

Ctx == [ fb : Screen, pfb : 0 .. FullHeight, HEIGHT : 1 .. MaxHeight,
         cursor_row : Rows, cursor_col : Cols,
         saved_cursor : Rows \X Cols, cursor_visible : BOOLEAN,
         cursor_buffer : Cell, fg : Colour, bg : Colour, inverse : BOOLEAN,
         default_fg : Colour, default_bg : Colour,
         line_limit : 0 .. FullHeight, font_height : FontSet ]

Least(a, b)    == IF a < b THEN a ELSE b
Greatest(a, b) == IF a > b THEN a ELSE b

GET_FG(c) == IF c.inverse THEN c.bg ELSE c.fg
GET_BG(c) == IF c.inverse THEN c.fg ELSE c.bg

-----------------------------------------------------------------------------
(* Drawing. *)

gfx_putc(c, g) ==
  IF c.cursor_col >= Width \/ c.cursor_row >= c.HEIGHT THEN c
  ELSE [c EXCEPT !.fb[c.cursor_row][c.cursor_col] =
          IF g = Blank THEN Solid(GET_BG(c)) ELSE <<g, GET_FG(c), GET_BG(c)>>]

(* Every row of the text area; the DMA fill is waited for before any use. *)
gfx_clear(c) ==
  [c EXCEPT !.fb = [r \in Rows |-> IF r < c.HEIGHT THEN SolidRow(GET_BG(c))
                                                    ELSE c.fb[r]]]

(* Clipped to the text area; always the plain background, inverse or not. *)
gfx_clear_rect(c, rows, cols) ==
  [c EXCEPT !.fb = [r \in Rows |-> [k \in Cols |->
     IF r \in rows /\ r < c.HEIGHT /\ k \in cols /\ k < Width
     THEN Solid(c.bg) ELSE c.fb[r][k]]]]

gfx_scroll_down(c) ==
  [c EXCEPT !.fb = [r \in Rows |->
     IF r >= c.HEIGHT THEN c.fb[r]
     ELSE IF r = c.HEIGHT - 1 THEN SolidRow(GET_BG(c))
     ELSE c.fb[r + 1]]]

(* Slip: the copy stops one line short of the end of the text area. *)
DeleteLinesShort(c, row, n) ==
  [c EXCEPT !.fb = [r \in Rows |->
     IF r < row \/ r >= c.HEIGHT THEN c.fb[r]
     ELSE IF r + n < c.HEIGHT - 1 THEN c.fb[r + n]
     ELSE SolidRow(GET_BG(c))]]

gfx_delete_lines(c, row, n) ==
  [c EXCEPT !.fb = [r \in Rows |->
     IF r < row \/ r >= c.HEIGHT THEN c.fb[r]
     ELSE IF r + n < c.HEIGHT THEN c.fb[r + n]
     ELSE SolidRow(GET_BG(c))]]

(* The copy runs downwards and stops at the row; the fill then runs from   *)
(* where the source pointer stopped, which is row HEIGHT - n when nothing  *)
(* was copied: above the cursor when n exceeds the rows left.              *)
gfx_insert_lines(c, row, n) ==
  LET first == Least(row, c.HEIGHT - n)
  IN  [c EXCEPT !.fb = [r \in Rows |->
         IF r < first \/ r >= c.HEIGHT THEN c.fb[r]
         ELSE IF r >= row + n THEN c.fb[r - n]
         ELSE SolidRow(GET_BG(c))]]

-----------------------------------------------------------------------------
(* The cursor block and its save-under buffer. *)

(* The XOR of the cursor: fg and bg change places, any other colour is     *)
(* complemented (~p on a byte).                                            *)
Swapped(c, p) ==
  IF p = c.fg THEN c.bg ELSE IF p = c.bg THEN c.fg ELSE MaxColour - p

Inverted(c, cell) == <<cell[1], Swapped(c, cell[2]), Swapped(c, cell[3])>>

CursorCell(c) == c.fb[c.cursor_row][c.cursor_col]

(* Slip: the cursor undone by inverting the cell again. *)
RestoreByInverting(c) ==
  [c EXCEPT !.fb[c.cursor_row][c.cursor_col] =
              IF c.cursor_visible THEN Inverted(c, CursorCell(c)) ELSE @]

gfx_restore_cursor_content(c) ==
  [c EXCEPT !.fb[c.cursor_row][c.cursor_col] = c.cursor_buffer]

gfx_term_render_cursor(c) ==
  [c EXCEPT !.cursor_buffer = CursorCell(c),
            !.fb[c.cursor_row][c.cursor_col] =
              IF c.cursor_visible THEN Inverted(c, CursorCell(c)) ELSE @]

(* After a scroll the new row is known to be background: no read back. *)
gfx_term_render_cursor_newline(c) ==
  [c EXCEPT !.cursor_buffer = Solid(GET_BG(c)),
            !.fb[c.cursor_row][c.cursor_col] =
              IF c.cursor_visible THEN Solid(GET_FG(c)) ELSE @]

(* The pattern of almost every operation: lift the block, move, drop it. *)
MovedTo(c, row, col) ==
  gfx_term_render_cursor(
    [gfx_restore_cursor_content(c) EXCEPT !.cursor_row = row, !.cursor_col = col])

gfx_term_move_cursor(c, row, col) ==
  MovedTo(c, Least(c.HEIGHT - 1, Greatest(row, 0)),
             Least(Width - 1, Greatest(col, 0)))

(* The end of every iteration of gfx_term_putstring's loop: wrap, scroll. *)
(* Slip: the column past the edge taken for a column. *)
WrapLate(c) ==
  IF c.cursor_col <= Width THEN c ELSE MovedTo(c, c.cursor_row + 1, 0)

WrapLine(c) ==
  IF c.cursor_col < Width THEN c ELSE MovedTo(c, c.cursor_row + 1, 0)

(* Slip: the scroll forgets to lift the cursor from the row below. *)
ScrollWithCursor(c) ==
  IF c.cursor_row < c.HEIGHT THEN c
  ELSE gfx_term_render_cursor_newline(gfx_scroll_down([c EXCEPT !.cursor_row = @ - 1]))

ScrollScreen(c) ==
  IF c.cursor_row < c.HEIGHT THEN c
  ELSE gfx_term_render_cursor_newline(gfx_scroll_down(
         [gfx_restore_cursor_content(c) EXCEPT !.cursor_row = @ - 1]))

EndOfChar(c) == ScrollScreen(WrapLine(c))

-----------------------------------------------------------------------------
(* The operations behind characters and control sequences. *)

PrintGlyph(c, g) ==
  gfx_term_render_cursor([gfx_putc(c, g) EXCEPT !.cursor_col = @ + 1])

CarriageReturn(c) == MovedTo(c, c.cursor_row, 0)
LineFeed(c)       == MovedTo(c, c.cursor_row + 1, c.cursor_col)

Tab(c) ==
  MovedTo(c, c.cursor_row,
          Least((c.cursor_col \div TabStop) * TabStop + TabStop, Width - 1))

(* Slip: on a tab stop the cursor stays where it is. *)
BackTabOnStop(c) ==
  MovedTo(c, c.cursor_row, (c.cursor_col \div TabStop) * TabStop)

BackTab(c) ==
  MovedTo(c, c.cursor_row,
          IF c.cursor_col % TabStop # 0
          THEN (c.cursor_col \div TabStop) * TabStop
          ELSE Greatest(c.cursor_col - TabStop, 0))

Backspace(c) ==
  IF c.cursor_col = 0 THEN c ELSE MovedTo(c, c.cursor_row, c.cursor_col - 1)

gfx_term_clear_screen(c) == gfx_term_render_cursor(gfx_clear(c))

(* Slip: the page is cleared but the cursor stays where it is. *)
ClearInPlace(c) == gfx_term_clear_screen(gfx_restore_cursor_content(c))

FormFeed(c) == gfx_term_clear_screen(gfx_term_move_cursor(c, 0, 0))

gfx_term_clear_till_end(c) ==
  gfx_term_render_cursor(gfx_clear_rect(
    gfx_restore_cursor_content(c), {c.cursor_row}, c.cursor_col .. Width))

gfx_term_clear_till_cursor(c) ==
  gfx_term_render_cursor(gfx_clear_rect(
    gfx_restore_cursor_content(c), {c.cursor_row}, 0 .. c.cursor_col))

(* Does not restore: the cursor's cell is about to be cleared anyway. *)
gfx_term_clear_line(c) ==
  gfx_term_render_cursor(gfx_clear_rect(c, {c.cursor_row}, Cols))

(* Slip: the cursor is not drawn again after the rows are cleared. *)
ClearLinesHiding(c, from, to) ==
  gfx_clear_rect(gfx_restore_cursor_content(c), from .. Least(to, c.HEIGHT - 1), Cols)

gfx_term_clear_lines(c, from, to) ==
  LET lifted == gfx_restore_cursor_content(c)
      last   == Least(to, c.HEIGHT - 1)
  IN  IF from > last THEN lifted
      ELSE gfx_term_render_cursor(gfx_clear_rect(lifted, from .. last, Cols))

EraseInLine(c, mode) ==
  CASE mode = 0 -> gfx_term_clear_till_end(c)
    [] mode = 1 -> gfx_term_clear_till_cursor(c)
    [] mode = 2 -> gfx_term_clear_line(c)
    [] OTHER    -> c

EraseInDisplay(c, mode) ==
  CASE mode = 0 ->
         LET d == gfx_term_clear_till_end(c)
         IN  IF c.cursor_row + 1 < c.HEIGHT
             THEN gfx_term_clear_lines(d, c.cursor_row + 1, c.HEIGHT - 1) ELSE d
    [] mode = 1 ->
         LET d == gfx_term_clear_till_cursor(c)
         IN  IF c.cursor_row > 0
             THEN gfx_term_clear_lines(d, 0, c.cursor_row - 1) ELSE d
    [] mode = 2 -> FormFeed(c)
    [] OTHER    -> c

CursorUp(c, n)    == gfx_term_move_cursor(c, Greatest(0, c.cursor_row - n), c.cursor_col)
CursorDown(c, n)  == gfx_term_move_cursor(c, Least(c.HEIGHT - 1, c.cursor_row + n), c.cursor_col)
CursorRight(c, n) == gfx_term_move_cursor(c, c.cursor_row, Least(Width - 1, c.cursor_col + n))
CursorLeft(c, n)  == gfx_term_move_cursor(c, c.cursor_row, Greatest(0, c.cursor_col - n))

(* r - 1 is unsigned: a parameter 0 wraps and clamps to the last position. *)
CursorPosition(c, r, k) ==
  gfx_term_move_cursor(c, Least((r + Word - 1) % Word, c.HEIGHT - 1),
                          Least((k + Word - 1) % Word, Width - 1))

DeleteLines(c, n) ==
  gfx_term_render_cursor(gfx_delete_lines(gfx_restore_cursor_content(c), c.cursor_row, n))
InsertLines(c, n) ==
  gfx_term_render_cursor(gfx_insert_lines(gfx_restore_cursor_content(c), c.cursor_row, n))

(* Slip: the flag is cleared but the block stays on the screen. *)
HideLeavingBlock(c) == [c EXCEPT !.cursor_visible = FALSE]

HideCursor(c) == gfx_restore_cursor_content([c EXCEPT !.cursor_visible = FALSE])
(* Renders without restoring first: harmless only while nothing is shown. *)
ShowCursor(c) == gfx_term_render_cursor([c EXCEPT !.cursor_visible = TRUE])

gfx_term_save_cursor(c) ==
  [c EXCEPT !.saved_cursor = <<c.cursor_row, c.cursor_col>>]
gfx_term_restore_cursor(c) == MovedTo(c, c.saved_cursor[1], c.saved_cursor[2])

gfx_term_reset_attrib(c) ==
  [c EXCEPT !.fg = c.default_fg, !.bg = c.default_bg, !.inverse = FALSE]

(* Slip: the page is cleared in the colours the reset takes away. *)
ResetAfterClear(c) == gfx_term_reset_attrib(FormFeed(c))

(* ESC c *)
ResetTerminal(c) == FormFeed(gfx_term_reset_attrib(c))

-----------------------------------------------------------------------------
(* The GSX calls that act on the terminal.  Closing a workstation sets the *)
(* flag and puts the cell back, but does not draw the block: it appears    *)
(* with the next motion.                                                   *)
(* Slip: the block is drawn at once, over a block if there is one. *)
CloseRendering(c) == ShowCursor(c)

gfx_close_workstation(c) ==
  gfx_restore_cursor_content([c EXCEPT !.cursor_visible = TRUE])

gfx_clear_workstation(c) == FormFeed(c)

gfx_open_workstation(c) ==
  gfx_clear_workstation(HideCursor(gfx_close_workstation(c)))

(* The block is not lifted: harmless only while nothing is shown. *)
EnterGraphicsMode(c) == gfx_term_render_cursor([c EXCEPT !.cursor_visible = FALSE])

(* Escapes that take no parameter and draw nothing. *)
gfx_escape(c, id) ==
  CASE id = 2  -> EnterGraphicsMode(c)
    [] id = 3  -> ShowCursor(c)
    [] id = 4  -> CursorUp(c, 1)
    [] id = 5  -> CursorDown(c, 1)
    [] id = 6  -> CursorRight(c, 1)
    [] id = 7  -> CursorLeft(c, 1)
    [] id = 8  -> gfx_term_move_cursor(c, 0, 0)
    [] id = 9  -> EraseInDisplay(c, 0)
    [] id = 10 -> EraseInLine(c, 0)
    [] id = 13 -> [c EXCEPT !.inverse = TRUE]
    [] id = 14 -> [c EXCEPT !.inverse = FALSE]
    [] OTHER   -> c

-----------------------------------------------------------------------------
(* Geometry.  The clear covers the old text area; a row of the new area    *)
(* that reaches beyond it shows the border, whose colour is edge.          *)
(* Slip: the cursor stays where it was in the old geometry. *)
GeometryKeepingCursor(c, edge) ==
  gfx_term_render_cursor(
    [c EXCEPT !.fb = [r \in Rows |-> SolidRow(GET_BG(c))],
              !.pfb = BorderRows(c.font_height, c.line_limit),
              !.HEIGHT = TermHeight(c.font_height, c.line_limit)])

gfx_set_screen_geometry(c, edge) ==
  LET pfb     == BorderRows(c.font_height, c.line_limit)
      top(r)  == pfb + r * c.font_height
      inside(r) == top(r) >= c.pfb /\ top(r + 1) <= FullHeight - c.pfb
  IN  gfx_term_render_cursor(
        [c EXCEPT !.fb = [r \in Rows |-> SolidRow(IF inside(r) THEN GET_BG(c) ELSE edge)],
                  !.pfb = pfb,
                  !.HEIGHT = TermHeight(c.font_height, c.line_limit),
                  !.cursor_row = 0, !.cursor_col = 0])

gfx_set_font_height(c, h, edge) ==
  gfx_set_screen_geometry(
    [c EXCEPT !.font_height = h, !.line_limit = Least(@, FullHeight \div h)], edge)

gfx_toggle_font_height(c, edge) ==
  LET i == CHOOSE i \in DOMAIN Fonts : Fonts[i] = c.font_height
  IN  gfx_set_font_height(c, Fonts[(i % Len(Fonts)) + 1], edge)

(* Without the banner, which Terminal prints character by character. *)
ToggledLimit(c) ==
  LET lower == (IF c.line_limit = 0 THEN c.HEIGHT ELSE c.line_limit) - 1
  IN  IF lower < MinLines THEN FullHeight \div c.font_height ELSE lower

gfx_toggle_lines(c, edge) ==
  gfx_set_screen_geometry([c EXCEPT !.line_limit = ToggledLimit(c)], edge)

(* entry_point: framebuffer set up, attributes reset, ESC[2J printed. *)
PowerUp ==
  gfx_term_render_cursor(
    [ fb |-> [r \in Rows |-> SolidRow(DEFAULT_BG)],
      pfb |-> BorderRows(FONT_HEIGHT, 0), HEIGHT |-> TermHeight(FONT_HEIGHT, 0),
      cursor_row |-> 0, cursor_col |-> 0, saved_cursor |-> <<0, 0>>,
      cursor_visible |-> TRUE, cursor_buffer |-> Solid(DEFAULT_BG),
      fg |-> DEFAULT_FG, bg |-> DEFAULT_BG, inverse |-> FALSE,
      default_fg |-> DEFAULT_FG, default_bg |-> DEFAULT_BG,
      line_limit |-> 0, font_height |-> FONT_HEIGHT ])

-----------------------------------------------------------------------------
(* What the host may take for its page: the text area with the cell under  *)
(* the cursor put back.                                                    *)
Page(c) ==
  [r \in 0 .. c.HEIGHT - 1 |-> [k \in 0 .. Width - 1 |->
    IF r = c.cursor_row /\ k = c.cursor_col THEN c.cursor_buffer ELSE c.fb[r][k]]]
=============================================================================
