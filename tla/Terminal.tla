------------------------------ MODULE Terminal ------------------------------
(***************************************************************************)
(* The terminal as its host sees it: one step per printed character or per *)
(* complete control sequence, in any order the host likes, and the F10 and *)
(* F12 keys, which resize the screen.  The operations are those of Gfx.    *)
(*                                                                         *)
(* Lax names the sequences of a host that does not keep to the conditions  *)
(* under which the terminal works; with Lax = {} the host shows only a     *)
(* hidden cursor, inserts no more lines than are left below the cursor and *)
(* recalls only a saved position that is still on the screen.              *)
(***************************************************************************)
EXTENDS GfxPage

CONSTANTS
  Lax,          \* subset of Hazards the host may commit
  SgrFg, SgrBg, \* the colours SGR sequences select
  Inverses,     \* the values SGR 7 and 27 give to inverse
  Counts,       \* the parameters of counted sequences and positions
  Features,     \* what else is used: "save" a position, "resize" by F10, F12
  BannerLen     \* length of "[<n> lines]"

Hazards == {"show_shown", "insert_past_bottom", "recall_off_screen",
            "graphics_shown", "draw_under_cursor"}

ASSUME HostAssumption ==
  /\ Lax \subseteq Hazards
  /\ SgrFg \subseteq Colour /\ SgrBg \subseteq Colour
  /\ Inverses \subseteq BOOLEAN /\ Features \subseteq {"save", "resize"}
  /\ Counts \subseteq 0 .. Word - 1
  /\ BannerLen \in Nat

VARIABLE banner   \* what gfx_toggle_lines has still to print

vars == <<ctx, banner>>

Text == "text"
Banner == [i \in 1 .. BannerLen |-> Text] \o <<"cr", "lf">>

TypeOK ==
  /\ ctx \in Ctx
  /\ ctx.cursor_row < MaxHeight /\ ctx.cursor_col < Width
  /\ ctx.saved_cursor[1] < MaxHeight /\ ctx.saved_cursor[2] < Width
  /\ banner \in Seq({Text, "cr", "lf"})

Init == ctx = PowerUp /\ banner = <<>>

-----------------------------------------------------------------------------
(* One character or sequence from the host, taken only when no banner is   *)
(* being printed.                                                          *)
Host(after) == banner = <<>> /\ ctx' = EndOfChar(after) /\ UNCHANGED banner

Put(g)  == Host(PrintGlyph(ctx, g))
CR        == Host(CarriageReturn(ctx))
LF        == Host(LineFeed(ctx))
TAB       == Host(Tab(ctx))
BS        == Host(Backspace(ctx))
FF        == Host(FormFeed(ctx))
CBT       == Host(BackTab(ctx))
RIS       == Host(ResetTerminal(ctx))
EL(mode)  == Host(EraseInLine(ctx, mode))
ED(mode)  == Host(EraseInDisplay(ctx, mode))
CUU(n)    == Host(CursorUp(ctx, n))
CUD(n)    == Host(CursorDown(ctx, n))
CUF(n)    == Host(CursorRight(ctx, n))
CUB(n)    == Host(CursorLeft(ctx, n))
CUP(r, k) == Host(CursorPosition(ctx, r, k))
DL(n)     == Host(DeleteLines(ctx, n))
SCP       == "save" \in Features /\ Host(gfx_term_save_cursor(ctx))
Hide      == Host(HideCursor(ctx))

IL(n) ==
  /\ "insert_past_bottom" \in Lax \/ ctx.cursor_row + n <= ctx.HEIGHT
  /\ Host(InsertLines(ctx, n))

RCP ==
  /\ "recall_off_screen" \in Lax \/ ctx.saved_cursor[1] < ctx.HEIGHT
  /\ Host(gfx_term_restore_cursor(ctx))

Show ==
  /\ "show_shown" \in Lax \/ ~ctx.cursor_visible
  /\ Host(ShowCursor(ctx))

SetFg(f)      == Host([ctx EXCEPT !.fg = f])
SetBg(b)      == Host([ctx EXCEPT !.bg = b])
SetInverse(i) == Host([ctx EXCEPT !.inverse = i])
SetDefaults(f, b) == Host([ctx EXCEPT !.default_fg = f, !.default_bg = b])
ResetAttrib   == Host(gfx_term_reset_attrib(ctx))

-----------------------------------------------------------------------------
(* The function keys.  The handler of F10 prints its banner before it      *)
(* returns; the border strips may have any colour.                         *)
ToggleFont(edge) ==
  /\ "resize" \in Features /\ banner = <<>>
  /\ ctx' = gfx_toggle_font_height(ctx, edge)
  /\ UNCHANGED banner

ToggleLines(edge) ==
  /\ "resize" \in Features /\ banner = <<>>
  /\ ctx' = gfx_toggle_lines(ctx, edge)
  /\ banner' = Banner

PrintBanner ==
  /\ banner # <<>>
  /\ \E g \in Shape :
       ctx' = EndOfChar(CASE Head(banner) = Text -> PrintGlyph(ctx, g)
                          [] Head(banner) = "cr" -> CarriageReturn(ctx)
                          [] Head(banner) = "lf" -> LineFeed(ctx))
  /\ banner' = Tail(banner)

Counted ==
  \E n \in Counts :
    CUU(n) \/ CUD(n) \/ CUF(n) \/ CUB(n) \/ DL(n) \/ IL(n)
      \/ \E k \in Counts : CUP(n, k)

Attributes ==
  \/ \E f \in SgrFg : SetFg(f)
  \/ \E b \in SgrBg : SetBg(b)
  \/ \E i \in Inverses : SetInverse(i)
  \/ \E f \in SgrFg, b \in SgrBg : SetDefaults(f, b)
  \/ ResetAttrib

Keys == \E edge \in Colour : ToggleFont(edge) \/ ToggleLines(edge)

Next ==
  \/ \E g \in Shape : Put(g)
  \/ CR \/ LF \/ TAB \/ BS \/ FF \/ CBT \/ RIS
  \/ \E mode \in 0 .. 2 : EL(mode) \/ ED(mode)
  \/ Counted
  \/ SCP \/ RCP \/ Hide \/ Show
  \/ Attributes
  \/ Keys
  \/ PrintBanner

Spec == Init /\ [][Next]_vars

-----------------------------------------------------------------------------
(* Properties. *)

(* The cursor is a position of the text area whenever a character has been *)
(* dealt with, however the screen was resized in between.                  *)
CursorOnScreen == ctx.cursor_row < ctx.HEIGHT /\ ctx.cursor_col < Width

(* While the cursor is hidden the save-under buffer is a true copy of the  *)
(* cell it would cover, so that lifting the cursor changes nothing.        *)
HiddenClean == ~ctx.cursor_visible => CursorCell(ctx) = ctx.cursor_buffer

(* While it is shown the cell differs from its copy, on every cell the     *)
(* cursor can reach, provided the two colours differ when it is drawn.     *)
ShownDistinct == ctx.cursor_visible => CursorCell(ctx) # ctx.cursor_buffer

(* Rendering the cursor one past the bottom, before the scroll, leaves the *)
(* border as it was: nothing but a resize writes below the text area.      *)
BorderKept ==
  [][(\A r \in ctx.HEIGHT .. MaxHeight : ctx'.fb[r] = ctx.fb[r]) \/ Keys]_vars
=============================================================================
