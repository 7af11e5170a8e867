------------------------------ MODULE GfxPage ------------------------------
(***************************************************************************)
(* The graphics context as the one variable the components of the terminal *)
(* share, and the page it shows its host: the framebuffer with the cell    *)
(* under the cursor replaced by its saved copy, cut to the text area.      *)
(***************************************************************************)
EXTENDS Gfx

CONSTANT Marks   \* what drawing may make of a cell

ASSUME MarksAssumption == Marks \subseteq Cell

VARIABLE ctx     \* the FRAMEBUFFER_CTX of gfx.c

Logical == INSTANCE LogicalScreen WITH
  Heights <- 1 .. MaxHeight,
  height <- ctx.HEIGHT,
  text  <- Page(ctx),
  row   <- ctx.cursor_row,
  col   <- ctx.cursor_col,
  saved <- ctx.saved_cursor,
  shown <- ctx.cursor_visible,
  attr  <- [fg |-> ctx.fg, bg |-> ctx.bg, inverse |-> ctx.inverse,
            default_fg |-> ctx.default_fg, default_bg |-> ctx.default_bg]
=============================================================================
