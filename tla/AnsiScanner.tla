----------------------------- MODULE AnsiScanner -----------------------------
(***************************************************************************)
(* gfx_term_putstring and the scanner of ANSI codes behind it, byte by     *)
(* byte, fed by two actors: the host, whose bytes term_main_loop takes     *)
(* from the UART, and the key handler, which runs in interrupt context and *)
(* prints strings of its own for Print Screen and F10 through the same     *)
(* scanner.  The host waits while the handler runs; the handler may come   *)
(* between any two bytes of the host.                                      *)
(*                                                                         *)
(* A byte is a string: "0" to "9", "ESC", a punctuation mark, a letter, or *)
(* the name of a control character.                                        *)
(***************************************************************************)
EXTENDS GfxPage, SequencesExt

CONSTANTS
  HostBytes,    \* the bytes the host sends
  ShapeOf(_, _), \* the shape of a byte in the normal or alternate set
  MaxParams,    \* bound on the parameters of a sequence (644 in the code)
  Values,       \* the values of parameters the host sends, and their prefixes
  Keys,         \* subset of {"print_screen", "F10", "F12"}
  Lax           \* what host and user may do, see Hazards

Hazards == {"show_shown", "insert_past_bottom", "recall_off_screen", "key_in_sequence",
            "short_call", "figure"}

\* What the key handler prints, and the character named by its code.
OtherBytes == {"ESC", "[", "1", "2", "3", "J", "m", " ", "l", "]", "CR", "LF", "code"}

ASSUME ScannerAssumption ==
  /\ MaxParams \in Nat \ {0} /\ 0 \in Values /\ Values \subseteq Nat
  /\ Keys \subseteq {"print_screen", "F10", "F12"} /\ Lax \subseteq Hazards
  /\ \A ch \in HostBytes \cup OtherBytes, alt \in BOOLEAN : ShapeOf(ch, alt) \in Shape

VARIABLES
  scn,      \* its scanner: [next, private_mode_char, cmd_params, alt_charset]
  typed,    \* what the key handler has still to print
  sent      \* the answer to the byte just taken, <<>> if it asked nothing

vars == <<ctx, scn, typed, sent>>

States == {"normaltext", "waitsquarebracket", "selectescape", "read_digit",
           "alt_charset"}

TypeOK ==
  /\ ctx \in Ctx
  /\ scn \in [next : States, private_mode_char : {"", "?", "#"},
              cmd_params : Seq(Values), alt_charset : BOOLEAN]
  /\ typed \in Seq(OtherBytes)

Init ==
  /\ ctx = PowerUp
  /\ scn = [next |-> "normaltext", private_mode_char |-> "", cmd_params |-> <<>>,
            alt_charset |-> FALSE]
  /\ typed = <<>> /\ sent = <<>>

-----------------------------------------------------------------------------
Digit == [d \in {"0", "1", "2", "3", "4", "5", "6", "7", "8", "9"} |->
            CASE d = "0" -> 0 [] d = "1" -> 1 [] d = "2" -> 2 [] d = "3" -> 3
              [] d = "4" -> 4 [] d = "5" -> 5 [] d = "6" -> 6 [] d = "7" -> 7
              [] d = "8" -> 8 [] d = "9" -> 9]

(* The scanner's next state, when the byte changes nothing else. *)
Go(state) == scn' = [scn EXCEPT !.next = state] /\ sent' = <<>> /\ UNCHANGED ctx

Draw(after) == ctx' = EndOfChar(after)

state_fun_alt_charset(ch) ==
  /\ scn' = [scn EXCEPT !.next = "normaltext",
               !.alt_charset = IF ch = "0" THEN TRUE ELSE IF ch = "B" THEN FALSE ELSE @]
  /\ sent' = <<>> /\ UNCHANGED ctx

state_fun_normaltext(ch) ==
  IF ch = "ESC" THEN Go("waitsquarebracket")
  ELSE Draw(PrintGlyph(ctx, ShapeOf(ch, scn.alt_charset))) /\ sent' = <<>> /\ UNCHANGED scn

state_fun_waitsquarebracket(ch) ==
  CASE ch = "[" ->
         /\ scn' = [scn EXCEPT !.next = "selectescape", !.private_mode_char = ""]
         /\ sent' = <<>> /\ UNCHANGED ctx
    [] ch = "(" -> Go("alt_charset")
    [] OTHER ->
         /\ scn' = [scn EXCEPT !.next = "normaltext"]
         /\ Draw(CASE ch = "ESC" -> PrintGlyph(ctx, ShapeOf(ch, FALSE))
                   [] ch = "c"   -> ResetTerminal(ctx)
                   [] OTHER      -> ctx)
         /\ sent' = <<>>

-----------------------------------------------------------------------------
(* ESC[...m.  The parameters are taken in order, 38;5;n and 48;5;n three   *)
(* at a time; a colour is a byte.                                          *)
(* Slip: the colour kept wider than the byte it is stored in. *)
PaletteWide(n) == n

Palette(n) == n % (MaxColour + 1)
Bold(colour)  == IF (colour \div 8) % 2 = 1 THEN colour ELSE Palette(colour + 8)

Rendition(c, p) ==
  CASE p = 0         -> gfx_term_reset_attrib(c)
    [] p = 1         -> [c EXCEPT !.fg = Bold(@)]
    [] p = 2         -> [c EXCEPT !.fg = @ % 8]
    [] p = 7         -> [c EXCEPT !.inverse = TRUE]
    [] p = 27        -> [c EXCEPT !.inverse = FALSE]
    [] p \in 30 .. 37 -> [c EXCEPT !.fg = Palette(((@ \div 8) % 2) * 8 + p - 30)]
    [] p = 39        -> [c EXCEPT !.fg = c.default_fg]
    [] p \in 40 .. 47 -> [c EXCEPT !.bg = Palette(p - 40)]
    [] p = 49        -> [c EXCEPT !.bg = c.default_bg]
    [] OTHER         -> c

Extended(ps, i, code) == i + 2 <= Len(ps) /\ ps[i] = code /\ ps[i + 1] = 5

(* One parameter; skip counts those that the code before it has used. *)
TakeParam(acc, ps, i) ==
  IF acc.skip > 0 THEN [c |-> acc.c, skip |-> acc.skip - 1]
  ELSE IF Extended(ps, i, 38)
       THEN [c |-> [acc.c EXCEPT !.fg = Palette(ps[i + 2])], skip |-> 2]
  ELSE IF Extended(ps, i, 48)
       THEN [c |-> [acc.c EXCEPT !.bg = Palette(ps[i + 2])], skip |-> 2]
  ELSE [c |-> Rendition(acc.c, ps[i]), skip |-> 0]

Taken(c, ps) ==
  LET after[i \in 0 .. Len(ps)] ==
        IF i = 0 THEN [c |-> c, skip |-> 0] ELSE TakeParam(after[i - 1], ps, i)
  IN  after

SelectGraphicRendition(c, ps) ==
  IF ps = <<>> THEN gfx_term_reset_attrib(c) ELSE Taken(c, ps)[Len(ps)].c

Param(ps, i, default) == IF Len(ps) < i THEN default ELSE ps[i]

(* ESC[#...G.  Calls that draw are left to Workstation, and those that set *)
(* attributes of figures change nothing here.                              *)
GsxCall(c, ps) ==
  CASE ps[1] = 1 -> gfx_open_workstation(c)
    [] ps[1] = 2 -> gfx_close_workstation(c)
    [] ps[1] = 3 -> gfx_clear_workstation(c)
    [] ps[1] = 5 -> gfx_escape(c, ps[2])
    [] OTHER     -> c

(* The private sequences ESC[#... *)
PrivateLetter(c, ch, ps) ==
  CASE ch = "m" ->
         IF Len(ps) # 2 \/ ps[2] > Least(15, MaxColour) THEN c
         ELSE IF ps[1] = 39 THEN [c EXCEPT !.default_fg = ps[2]]
         ELSE IF ps[1] = 49 THEN [c EXCEPT !.default_bg = ps[2]] ELSE c
    [] ch = "c" -> IF Len(ps) = 1 THEN PrintGlyph(c, ShapeOf("code", FALSE)) ELSE c
    [] ch = "G" -> GsxCall(c, ps)

CursorMode(ps) == scn.private_mode_char = "?" /\ ps = <<25>>

Letter(c, ch, ps) ==
  LET n == Param(ps, 1, 1)
  IN  CASE ch = "l" -> IF CursorMode(ps) THEN HideCursor(c) ELSE c
        [] ch = "h" -> IF CursorMode(ps) THEN ShowCursor(c) ELSE c
        [] ch = "K" -> IF Len(ps) <= 1 THEN EraseInLine(c, Param(ps, 1, 0)) ELSE c
        [] ch = "J" -> EraseInDisplay(c, Param(ps, 1, 0))
        [] ch = "A" -> CursorUp(c, n)
        [] ch = "B" -> CursorDown(c, n)
        [] ch = "C" -> CursorRight(c, n)
        [] ch = "D" -> CursorLeft(c, n)
        [] ch = "M" -> DeleteLines(c, n)
        [] ch = "L" -> InsertLines(c, n)
        [] ch = "Z" -> BackTab(c)
        [] ch = "m" -> SelectGraphicRendition(c, ps)
        [] ch \in {"f", "H"} -> CursorPosition(c, Param(ps, 1, 1), Param(ps, 2, 1))
        [] ch = "s" -> gfx_term_save_cursor(c)
        [] ch = "u" -> gfx_term_restore_cursor(c)
        [] OTHER    -> c

(* Slip: rows and columns reported as they are counted inside. *)
ReportFromZero(c) == <<"R", c.cursor_row, c.cursor_col>>

CursorReport(c) == <<"R", c.cursor_row + 1, c.cursor_col + 1>>

(* What uart_write sends back: ESC[?1;0c, ESC[0n, ESC[<Row>;<Col>R, and G  *)
(* for a graphics call.                                                    *)
Answer(ch, ps) ==
  CASE ch = "c" /\ (ps = <<>> \/ ps[1] = 0) -> <<"c", 1, 0>>
    [] ch = "n" /\ ps = <<5>> -> <<"n", 0>>
    [] ch = "n" /\ ps = <<6>> -> CursorReport(ctx)
    [] OTHER -> <<>>

PrivateAnswer(ch, ps) == IF ch = "G" /\ ps[1] \in 1 .. 33 THEN <<"G">> ELSE <<>>

(* Which hazards a final letter would commit.  A graphics call that lacks  *)
(* parameters acts on those of an earlier sequence.                        *)
Commits(ch, ps) ==
  CASE ch = "h" /\ CursorMode(ps) /\ ctx.cursor_visible -> {"show_shown"}
    [] ch = "L" /\ ctx.cursor_row + Param(ps, 1, 1) > ctx.HEIGHT -> {"insert_past_bottom"}
    [] ch = "u" /\ ctx.saved_cursor[1] >= ctx.HEIGHT -> {"recall_off_screen"}
    [] OTHER -> {}

PrivateCommits(ch, ps) ==
  IF ch # "G" THEN {}
  ELSE CASE ps[1] \in 6 .. 11 -> {"figure"}
         [] ps[1] = 5 /\ (Len(ps) < 2 \/ ps[2] \in {11, 12}) -> {"short_call"}
         [] ps[1] = 5 /\ ps[2] \in {2, 3} /\ ctx.cursor_visible -> {"show_shown"}
         [] OTHER -> {}

(* Slip: the parameters left for the next sequence. *)
BackKeepingParams == [scn EXCEPT !.next = "normaltext"]

BackToNormal == [scn EXCEPT !.next = "normaltext", !.cmd_params = <<>>]

state_fun_final_letter(ch) ==
  LET ps      == scn.cmd_params
      private == scn.private_mode_char = "#" /\ ch \in {"m", "c", "G"}
  IN  /\ (IF private THEN PrivateCommits(ch, ps) ELSE Commits(ch, ps)) \subseteq Lax
      /\ Draw(IF private THEN PrivateLetter(ctx, ch, ps) ELSE Letter(ctx, ch, ps))
      /\ sent' = IF private THEN PrivateAnswer(ch, ps) ELSE Answer(ch, ps)
      /\ scn' = BackToNormal

Appended(ps, ch) == [ps EXCEPT ![Len(ps)] = @ * 10 + Digit[ch]]

state_fun_read_digit(ch) ==
  CASE ch \in DOMAIN Digit ->
         /\ Last(scn.cmd_params) * 10 + Digit[ch] \in Values
         /\ scn' = [scn EXCEPT !.cmd_params = Appended(@, ch)]
         /\ sent' = <<>> /\ UNCHANGED ctx
    [] ch = ";" ->
         /\ Len(scn.cmd_params) < MaxParams
         /\ scn' = [scn EXCEPT !.cmd_params = Append(@, 0)]
         /\ sent' = <<>> /\ UNCHANGED ctx
    [] OTHER -> state_fun_final_letter(ch)

state_fun_selectescape(ch) ==
  LET reads(ps, private) ==
        /\ scn' = [scn EXCEPT !.next = "read_digit", !.cmd_params = ps,
                              !.private_mode_char = private]
        /\ sent' = <<>> /\ UNCHANGED ctx
  IN  CASE ch \in DOMAIN Digit -> Digit[ch] \in Values
                                    /\ reads(<<Digit[ch]>>, scn.private_mode_char)
        [] ch = ";" -> MaxParams >= 2 /\ reads(<<0, 0>>, scn.private_mode_char)
        [] ch \in {"?", "#"} -> reads(<<0>>, ch)
        [] OTHER -> state_fun_final_letter(ch)

-----------------------------------------------------------------------------
(* gfx_term_putstring.  Control characters act at once, in any state.      *)
Control == {"CR", "LF", "TAB", "BS", "DEL", "SO", "SI", "BEL", "FF"}

ControlChar(ch) ==
  /\ Draw(CASE ch = "CR"  -> CarriageReturn(ctx)
            [] ch = "LF"  -> LineFeed(ctx)
            [] ch = "TAB" -> Tab(ctx)
            [] ch \in {"BS", "DEL"} -> Backspace(ctx)
            [] ch = "FF"  -> FormFeed(ctx)
            [] OTHER      -> ctx)
  /\ sent' = <<>> /\ UNCHANGED scn

Consume(ch) ==
  IF ch \in Control THEN ControlChar(ch)
  ELSE CASE scn.next = "normaltext"        -> state_fun_normaltext(ch)
         [] scn.next = "waitsquarebracket" -> state_fun_waitsquarebracket(ch)
         [] scn.next = "selectescape"      -> state_fun_selectescape(ch)
         [] scn.next = "read_digit"        -> state_fun_read_digit(ch)
         [] scn.next = "alt_charset"       -> state_fun_alt_charset(ch)

HostByte(ch) == typed = <<>> /\ Consume(ch) /\ UNCHANGED typed

(* The interrupt: a key that prints, and then its string to the end.  One  *)
(* digit and one letter stand for those of "[<n> lines]".                  *)
PrintScreen == <<"ESC", "[", "2", "J", "ESC", "[", "3", "2", "m">>
Lines == <<"[", "1", " ", "l", "]", "CR", "LF">>

KeyPressed ==
  /\ typed = <<>>
  /\ "key_in_sequence" \in Lax \/ scn.next = "normaltext"
  /\ sent' = <<>> /\ UNCHANGED scn
  /\ \/ "print_screen" \in Keys /\ typed' = PrintScreen /\ UNCHANGED ctx
     \/ \E edge \in Colour :
          /\ "F10" \in Keys /\ typed' = Lines
          /\ ctx' = gfx_toggle_lines(ctx, edge)
     \/ \E edge \in Colour :
          /\ "F12" \in Keys /\ UNCHANGED typed
          /\ ctx' = gfx_toggle_font_height(ctx, edge)

KeyPrints == typed # <<>> /\ Consume(Head(typed)) /\ typed' = Tail(typed)

Next == (\E ch \in HostBytes : HostByte(ch)) \/ KeyPressed \/ KeyPrints

Spec == Init /\ [][Next]_vars

-----------------------------------------------------------------------------
(* Properties. *)

(* The digit states have a parameter to write to and the others have none: *)
(* cmd_params[cmd_params_size - 1] never reaches before the array, and no  *)
(* sequence inherits the parameters of an aborted one.                     *)
ParamsOpen == scn.cmd_params # <<>> <=> scn.next = "read_digit"

(* The position a query reports is one the host can send back in ESC[H to  *)
(* have the cursor where it was, whatever was printed to get there.        *)
ReportReturns ==
  [][sent' # <<>> /\ sent'[1] = "R" =>
       LET back == CursorPosition(FormFeed(ctx'), sent'[2], sent'[3])
       IN  <<back.cursor_row, back.cursor_col>> = <<ctx'.cursor_row, ctx'.cursor_col>>]_vars

(* Print Screen clears the screen: when the handler has printed its first  *)
(* sequence every cell is blank and the cursor is home.                    *)
PrintScreenClears ==
  [][KeyPrints /\ typed = SubSeq(PrintScreen, 4, 9) =>
       /\ \A r \in DOMAIN Page(ctx'), k \in 0 .. Width - 1 : Page(ctx')[r][k][1] = Blank
       /\ ctx'.cursor_row = 0 /\ ctx'.cursor_col = 0]_vars
=============================================================================
