--------------------------- MODULE TerminalProofs ---------------------------
(***************************************************************************)
(* Terminal and Workstation for every screen size, font set, palette and   *)
(* host: types and the cursor's place on the screen first, then, for a     *)
(* host that commits none of the named hazards, the refinement of          *)
(* LogicalScreen step by step, and what follows from the same invariant: a *)
(* hidden cursor leaves nothing, the border is kept, a shown cursor is     *)
(* seen.                                                                   *)
(***************************************************************************)
EXTENDS TerminalRefinement, GfxProofs

-----------------------------------------------------------------------------
(* The steps.  A step of the host settles whatever lands. *)
LEMMA HostSettles ==
  ASSUME Settled(ctx), NEW d, Landed(d), Host(d)
  PROVE  Settled(ctx') /\ (LandedOn(d) => OnScreen(ctx'))
BY EndOfCharSettles DEF Host

LEMMA HostLands ==
  ASSUME Settled(ctx), NEW d, Lands(ctx, d), Host(d)
  PROVE  Settled(ctx') /\ (OnScreen(ctx) => OnScreen(ctx'))
BY HostSettles DEF Lands

LEMMA BannerType == Banner \in Seq({Text, "cr", "lf"})
<1>1. BannerLen \in Nat
  BY HostAssumption
<1>2. [i \in 1 .. BannerLen |-> Text] \in Seq({Text, "cr", "lf"})
  BY <1>1
<1>3. <<"cr", "lf">> \in Seq({Text, "cr", "lf"})
  OBVIOUS
<1>4. QED
  BY <1>2, <1>3 DEF Banner

(* Every step keeps the context settled, and keeps the cursor on the       *)
(* screen unless it recalls a position that has left the screen.           *)
LEMMA StepSettles ==
  ASSUME Settled(ctx), banner \in Seq({Text, "cr", "lf"}), Next
  PROVE  /\ Settled(ctx') /\ banner' \in Seq({Text, "cr", "lf"})
         /\ "recall_off_screen" \notin Lax /\ OnScreen(ctx) => OnScreen(ctx')
<1> DEFINE Goal == /\ Settled(ctx') /\ banner' \in Seq({Text, "cr", "lf"})
                   /\ "recall_off_screen" \notin Lax /\ OnScreen(ctx) => OnScreen(ctx')
<1> SUFFICES Goal
  OBVIOUS
<1>h. ASSUME NEW d, Lands(ctx, d), Host(d) PROVE Goal
  BY <1>h, HostLands DEF Host
<1> HIDE DEF Goal
<1>1. ASSUME NEW g \in Shape, Put(g) PROVE Goal
  BY <1>1, <1>h, PrintLands DEF Put
<1>2. CASE CR
  BY <1>2, <1>h, ColumnMotionsLand DEF CR
<1>3. CASE LF
  BY <1>3, <1>h, LineFeedLands DEF LF
<1>4. CASE TAB
  BY <1>4, <1>h, ColumnMotionsLand DEF TAB
<1>5. CASE BS
  BY <1>5, <1>h, ColumnMotionsLand DEF BS
<1>6. CASE FF
  BY <1>6, <1>h, FormFeedLands DEF FF
<1>7. CASE CBT
  BY <1>7, <1>h, ColumnMotionsLand DEF CBT
<1>8. CASE RIS
  BY <1>8, <1>h, ResetLands DEF RIS
<1>9. ASSUME NEW mode \in 0 .. 2, EL(mode) \/ ED(mode) PROVE Goal
  <2>1. Lands(ctx, EraseInLine(ctx, mode))
    BY EraseInLineAt, StayLands DEF Settled
  <2>2. QED
    BY <1>9, <1>h, <2>1, EraseInDisplayLands DEF EL, ED
<1>10. CASE Counted
  <2>1. Counts \subseteq Nat
    BY HostAssumption
  <2>2. ASSUME NEW n \in Counts, CUU(n) \/ CUD(n) \/ CUF(n) \/ CUB(n) PROVE Goal
    BY <2>1, <2>2, <1>h, AddressingLands DEF CUU, CUD, CUF, CUB
  <2>3. ASSUME NEW n \in Counts, NEW k \in Counts, CUP(n, k) PROVE Goal
    BY <2>1, <2>3, <1>h, AddressingLands DEF CUP
  <2>4. ASSUME NEW n \in Counts, DL(n) \/ IL(n) PROVE Goal
    BY <2>1, <2>4, <1>h, LinesLand DEF DL, IL
  <2>5. QED
    BY <1>10, <2>2, <2>3, <2>4 DEF Counted
<1>11. CASE SCP
  BY <1>11, <1>h, SaveLands DEF SCP
<1>12. CASE RCP
  <2>1. Host(gfx_term_restore_cursor(ctx))
    BY <1>12 DEF RCP
  <2>2. Settled(ctx') /\ (ctx.saved_cursor[1] < ctx.HEIGHT => OnScreen(ctx'))
    BY <2>1, RecallLands, HostSettles
  <2>3. "recall_off_screen" \notin Lax => ctx.saved_cursor[1] < ctx.HEIGHT
    BY <1>12 DEF RCP
  <2>4. banner' = banner
    BY <2>1 DEF Host
  <2>5. QED
    BY <2>2, <2>3, <2>4 DEF Goal
<1>13. CASE Hide \/ Show
  BY <1>13, <1>h, VisibilityLands DEF Hide, Show
<1>14. CASE Attributes
  <2>1. SgrFg \subseteq Colour /\ SgrBg \subseteq Colour /\ Inverses \subseteq BOOLEAN
    BY HostAssumption
  <2>2. 0 \in Colour
    BY Sizes DEF Colour
  <2>3. ASSUME NEW f \in SgrFg, SetFg(f) PROVE Goal
    BY <2>1, <2>2, <2>3, <1>h, AttributesLand DEF SetFg
  <2>4. ASSUME NEW b \in SgrBg, SetBg(b) PROVE Goal
    BY <2>1, <2>2, <2>4, <1>h, AttributesLand DEF SetBg
  <2>5. ASSUME NEW i \in Inverses, SetInverse(i) PROVE Goal
    BY <2>1, <2>2, <2>5, <1>h, AttributesLand DEF SetInverse
  <2>6. ASSUME NEW f \in SgrFg, NEW b \in SgrBg, SetDefaults(f, b) PROVE Goal
    BY <2>1, <2>2, <2>6, <1>h, AttributesLand DEF SetDefaults
  <2>7. CASE ResetAttrib
    BY <2>2, <2>7, <1>h, AttributesLand DEF ResetAttrib
  <2>8. QED
    BY <1>14, <2>3, <2>4, <2>5, <2>6, <2>7 DEF Attributes
<1>15. CASE Keys
  <2>1. PICK edge \in Colour : ToggleFont(edge) \/ ToggleLines(edge)
    BY <1>15 DEF Keys
  <2>2. CASE ToggleFont(edge)
    BY <2>2, ToggleFontSettles DEF ToggleFont, Goal
  <2>3. CASE ToggleLines(edge)
    BY <2>3, ToggleLinesSettles, BannerType DEF ToggleLines, Goal
  <2>4. QED
    BY <2>1, <2>2, <2>3
<1>16. CASE PrintBanner
  <2>1. banner # <<>> /\ banner' = Tail(banner)
    BY <1>16 DEF PrintBanner
  <2>2. Head(banner) \in {Text, "cr", "lf"} /\ banner' \in Seq({Text, "cr", "lf"})
    BY <2>1
  <2>3. PICK g \in Shape :
          ctx' = EndOfChar(CASE Head(banner) = Text -> PrintGlyph(ctx, g)
                             [] Head(banner) = "cr" -> CarriageReturn(ctx)
                             [] Head(banner) = "lf" -> LineFeed(ctx))
    BY <1>16 DEF PrintBanner
  <2>4. PICK d : Lands(ctx, d) /\ ctx' = EndOfChar(d)
    <3>1. CASE Head(banner) = Text
      BY <2>3, <3>1, PrintLands DEF Text
    <3>2. CASE Head(banner) = "cr"
      BY <2>3, <3>2, ColumnMotionsLand DEF Text
    <3>3. CASE Head(banner) = "lf"
      BY <2>3, <3>3, LineFeedLands DEF Text
    <3>4. QED
      BY <2>2, <3>1, <3>2, <3>3
  <2>5. QED
    BY <2>2, <2>4, EndOfCharSettles DEF Lands, Goal
<1>17. QED
  BY <1>1, <1>2, <1>3, <1>4, <1>5, <1>6, <1>7, <1>8, <1>9, <1>10, <1>11, <1>12,
     <1>13, <1>14, <1>15, <1>16 DEF Next

(* Nor does a graphics call disturb them. *)
LEMMA GsxSettles ==
  ASSUME Settled(ctx), Gsx
  PROVE  /\ Settled(ctx') /\ banner' = banner
         /\ OnScreen(ctx) => OnScreen(ctx')
<1> DEFINE Goal == /\ Settled(ctx') /\ banner' = banner
                   /\ OnScreen(ctx) => OnScreen(ctx')
<1> SUFFICES Goal
  OBVIOUS
<1>h. ASSUME NEW d, Lands(ctx, d), Host(d) PROVE Goal
  BY <1>h, HostLands DEF Host
<1> HIDE DEF Goal
<1>1. CASE Open \/ Close
  BY <1>1, <1>h, OpenAndCloseLand DEF Open, Close
<1>2. ASSUME NEW id \in 2 .. 10, Escape(id) PROVE Goal
  BY <1>2, <1>h, EscapeLands DEF Escape
<1>3. ASSUME NEW r \in 0 .. ctx.HEIGHT - 1, NEW k \in 0 .. Width - 1, Draw(r, k)
      PROVE  Goal
  <2>1. PICK mark \in Marks : Host([ctx EXCEPT !.fb[r][k] = mark])
    BY <1>3 DEF Draw
  <2>2. mark \in Cell
    BY MarksAssumption
  <2>3. r \in Rows /\ k \in Cols
    BY Sizes DEF Settled, Ctx, Rows, Cols
  <2>4. QED
    BY <2>1, <2>2, <2>3, <1>h, DrawingLands
<1>4. QED
  BY <1>1, <1>2, <1>3 DEF Gsx

-----------------------------------------------------------------------------
(* The screen, the cursor and the saved position stay within the arrays of *)
(* gfx.c, whatever the host sends and however the screen is resized.       *)
THEOREM TypeCorrect == Spec => []TypeOK
<1> DEFINE IInv == Settled(ctx) /\ banner \in Seq({Text, "cr", "lf"})
<1>1. Init => IInv
  BY PowerUpSettles DEF Init
<1>2. IInv /\ [Next]_vars => IInv'
  <2> SUFFICES ASSUME IInv, [Next]_vars PROVE IInv'
    OBVIOUS
  <2>1. CASE Next
    BY <2>1, StepSettles DEF Settled, SavedOK
  <2>2. CASE UNCHANGED vars
    BY <2>2 DEF vars, Settled, SavedOK
  <2>3. QED
    BY <2>1, <2>2
<1>3. IInv => TypeOK
  BY DEF TypeOK, Settled, SavedOK
<1>4. QED
  BY <1>1, <1>2, <1>3, PTL DEF Spec

(* The cursor is on the screen after every character, provided the host    *)
(* recalls no position that a resize has put outside it.                   *)
THEOREM CursorStaysOnScreen ==
  ASSUME "recall_off_screen" \notin Lax
  PROVE  Spec => []CursorOnScreen
<1> DEFINE IInv == /\ Settled(ctx) /\ OnScreen(ctx)
                   /\ banner \in Seq({Text, "cr", "lf"})
<1>1. Init => IInv
  BY PowerUpSettles DEF Init
<1>2. IInv /\ [Next]_vars => IInv'
  <2> SUFFICES ASSUME IInv, [Next]_vars PROVE IInv'
    OBVIOUS
  <2>1. CASE Next
    BY <2>1, StepSettles DEF Settled, SavedOK, OnScreen
  <2>2. CASE UNCHANGED vars
    BY <2>2 DEF vars, Settled, SavedOK, OnScreen
  <2>3. QED
    BY <2>1, <2>2
<1>3. IInv => CursorOnScreen
  BY DEF CursorOnScreen, OnScreen
<1>4. QED
  BY <1>1, <1>2, <1>3, PTL DEF Spec

(* The types also hold when graphics calls, GSX opening, closing, escapes  *)
(* and drawing, come between the characters in any order.                  *)
THEOREM WorkstationTypeCorrect == WorkstationSpec => []TypeOK
<1> DEFINE IInv == Settled(ctx) /\ banner \in Seq({Text, "cr", "lf"})
<1>1. Init => IInv
  BY PowerUpSettles DEF Init
<1>2. IInv /\ [WorkstationNext]_vars => IInv'
  <2> SUFFICES ASSUME IInv, [WorkstationNext]_vars PROVE IInv'
    OBVIOUS
  <2>1. CASE Next
    BY <2>1, StepSettles DEF Settled, SavedOK
  <2>2. CASE Gsx
    BY <2>2, GsxSettles DEF Settled, SavedOK
  <2>3. CASE UNCHANGED vars
    BY <2>3 DEF vars, Settled, SavedOK
  <2>4. QED
    BY <2>1, <2>2, <2>3 DEF WorkstationNext
<1>3. IInv => TypeOK
  BY DEF TypeOK, Settled, SavedOK
<1>4. QED
  BY <1>1, <1>2, <1>3, PTL DEF WorkstationSpec

(* And the cursor stays on the screen, on the same condition: no escape    *)
(* moves it off, and a workstation opens with it in the corner.            *)
THEOREM WorkstationKeepsCursor ==
  ASSUME "recall_off_screen" \notin Lax
  PROVE  WorkstationSpec => []CursorOnScreen
<1> DEFINE IInv == /\ Settled(ctx) /\ OnScreen(ctx)
                   /\ banner \in Seq({Text, "cr", "lf"})
<1>1. Init => IInv
  BY PowerUpSettles DEF Init
<1>2. IInv /\ [WorkstationNext]_vars => IInv'
  <2> SUFFICES ASSUME IInv, [WorkstationNext]_vars PROVE IInv'
    OBVIOUS
  <2>1. CASE Next
    BY <2>1, StepSettles DEF Settled, SavedOK, OnScreen
  <2>2. CASE Gsx
    BY <2>2, GsxSettles DEF Settled, SavedOK, OnScreen
  <2>3. CASE UNCHANGED vars
    BY <2>3 DEF vars, Settled, SavedOK, OnScreen
  <2>4. QED
    BY <2>1, <2>2, <2>3 DEF WorkstationNext
<1>3. IInv => CursorOnScreen
  BY DEF CursorOnScreen, OnScreen
<1>4. QED
  BY <1>1, <1>2, <1>3, PTL DEF WorkstationSpec

-----------------------------------------------------------------------------
(* What the steps of a careful host do: one that commits none of the       *)
(* hazards of the text sequences.                                          *)
Careful ==
  /\ "show_shown" \notin Lax /\ "insert_past_bottom" \notin Lax
  /\ "recall_off_screen" \notin Lax

Resized ==
  \E edge \in Colour :
    /\ Resizes(ctx, ctx', edge) /\ Good(ctx') /\ (Contrast(ctx) => Distinct(ctx'))

StepWorks ==
  \/ Works(ctx, ctx') \/ Recoloured(ctx, ctx', SgrFg, SgrBg)
  \/ Keys /\ Resized

LEMMA TextWorks ==
  ASSUME Careful, Good(ctx), banner \in Seq({Text, "cr", "lf"}), Next
  PROVE  StepWorks
<1>h. ASSUME NEW d, Works(ctx, EndOfChar(d)), Host(d) PROVE StepWorks
  BY <1>h DEF Host, StepWorks
<1> HIDE DEF StepWorks
<1>1. ASSUME NEW g \in Shape, Put(g) PROVE StepWorks
  BY <1>1, <1>h, PrintWorks DEF Put
<1>2. CASE CR
  BY <1>2, <1>h, ColumnMotionsWork DEF CR
<1>3. CASE LF
  BY <1>3, <1>h, FeedWorks DEF LF
<1>4. CASE TAB
  BY <1>4, <1>h, ColumnMotionsWork DEF TAB
<1>5. CASE BS
  BY <1>5, <1>h, ColumnMotionsWork DEF BS
<1>6. CASE FF
  BY <1>6, <1>h, FormFeedWorks DEF FF
<1>7. CASE CBT
  BY <1>7, <1>h, ColumnMotionsWork DEF CBT
<1>8. CASE RIS
  BY <1>8, <1>h, ResetWorks DEF RIS
<1>9. ASSUME NEW mode \in 0 .. 2, EL(mode) \/ ED(mode) PROVE StepWorks
  <2>1. CASE EL(mode)
    BY <2>1, <1>h, EraseInLineWorks DEF EL
  <2>2. CASE ED(mode) /\ mode # 2
    BY <2>2, <1>h, EraseInDisplayWorks DEF ED
  <2>3. CASE ED(mode) /\ mode = 2
    <3>1. EraseInDisplay(ctx, 2) = FormFeed(ctx)
      BY DEF EraseInDisplay
    <3>2. QED
      BY <2>3, <3>1, <1>h, FormFeedWorks DEF ED
  <2>4. QED
    BY <1>9, <2>1, <2>2, <2>3
<1>10. CASE Counted
  <2>1. Counts \subseteq Nat
    BY HostAssumption
  <2>2. ASSUME NEW n \in Counts, CUU(n) \/ CUD(n) \/ CUF(n) \/ CUB(n) PROVE StepWorks
    BY <2>1, <2>2, <1>h, AddressingWorks DEF CUU, CUD, CUF, CUB
  <2>3. ASSUME NEW n \in Counts, NEW k \in Counts, CUP(n, k) PROVE StepWorks
    BY <2>1, <2>3, <1>h, AddressingWorks DEF CUP
  <2>4. ASSUME NEW n \in Counts, DL(n) PROVE StepWorks
    BY <2>1, <2>4, <1>h, EditsWork DEF DL
  <2>5. ASSUME NEW n \in Counts, IL(n) PROVE StepWorks
    BY <2>1, <2>5, <1>h, EditsWork DEF IL, Careful
  <2>6. QED
    BY <1>10, <2>2, <2>3, <2>4, <2>5 DEF Counted
<1>11. CASE SCP
  BY <1>11, <1>h, SaveWorks DEF SCP
<1>12. CASE RCP
  BY <1>12, <1>h, RecallWorks DEF RCP, Careful
<1>13. CASE Hide
  BY <1>13, <1>h, HideWorks DEF Hide
<1>14. CASE Show
  BY <1>14, <1>h, ShowWorks DEF Show, Careful
<1>15. CASE Attributes
  <2>1. /\ SgrFg \subseteq Colour /\ SgrBg \subseteq Colour /\ Inverses \subseteq BOOLEAN
        /\ 0 \in Colour
    BY HostAssumption, Sizes DEF Colour
  <2>2. ASSUME NEW d, Host(d), NEW F \in SUBSET SgrFg, NEW B \in SUBSET SgrBg,
               Recoloured(ctx, EndOfChar(d), F, B)
        PROVE  StepWorks
    BY <2>2 DEF Host, StepWorks, Recoloured, Tints
  <2>3. ASSUME NEW f \in SgrFg, SetFg(f) PROVE StepWorks
    <3>1. Recoloured(ctx, EndOfChar([ctx EXCEPT !.fg = f]), {f}, {})
      BY <2>1, AttributesWork
    <3>2. QED
      BY <2>2, <2>3, <3>1 DEF SetFg
  <2>4. ASSUME NEW b \in SgrBg, SetBg(b) PROVE StepWorks
    <3>1. Recoloured(ctx, EndOfChar([ctx EXCEPT !.bg = b]), {}, {b})
      BY <2>1, AttributesWork
    <3>2. QED
      BY <2>2, <2>4, <3>1 DEF SetBg
  <2>5. ASSUME NEW i \in Inverses, SetInverse(i) PROVE StepWorks
    <3>1. Recoloured(ctx, EndOfChar([ctx EXCEPT !.inverse = i]), {}, {})
      BY <2>1, AttributesWork
    <3>2. QED
      BY <2>2, <2>5, <3>1 DEF SetInverse
  <2>6. ASSUME NEW f \in SgrFg, NEW b \in SgrBg, SetDefaults(f, b) PROVE StepWorks
    <3>1. Recoloured(ctx, EndOfChar([ctx EXCEPT !.default_fg = f, !.default_bg = b]),
                     {f}, {b})
      BY <2>1, AttributesWork
    <3>2. QED
      BY <2>2, <2>6, <3>1 DEF SetDefaults
  <2>7. CASE ResetAttrib
    <3>1. Recoloured(ctx, EndOfChar(gfx_term_reset_attrib(ctx)), {}, {})
      BY <2>1, AttributesWork
    <3>2. QED
      BY <2>2, <2>7, <3>1 DEF ResetAttrib
  <2>8. QED
    BY <1>15, <2>3, <2>4, <2>5, <2>6, <2>7 DEF Attributes
<1>16. CASE Keys
  <2>1. PICK edge \in Colour : ToggleFont(edge) \/ ToggleLines(edge)
    BY <1>16 DEF Keys
  <2>2. ctx' \in {gfx_toggle_font_height(ctx, edge), gfx_toggle_lines(ctx, edge)}
    BY <2>1 DEF ToggleFont, ToggleLines
  <2>3. Good(ctx') /\ Resizes(ctx, ctx', edge) /\ (Contrast(ctx) => Distinct(ctx'))
    BY <2>2, TogglesWork
  <2>4. QED
    BY <1>16, <2>3 DEF StepWorks, Resized
<1>17. CASE PrintBanner
  <2>1. PICK g \in Shape :
          ctx' = EndOfChar(CASE Head(banner) = Text -> PrintGlyph(ctx, g)
                             [] Head(banner) = "cr" -> CarriageReturn(ctx)
                             [] Head(banner) = "lf" -> LineFeed(ctx))
    BY <1>17 DEF PrintBanner
  <2>2. Head(banner) \in {Text, "cr", "lf"}
    BY <1>17 DEF PrintBanner
  <2>3. CASE Head(banner) = Text
    BY <2>1, <2>3, PrintWorks DEF Text, StepWorks
  <2>4. CASE Head(banner) = "cr"
    BY <2>1, <2>4, ColumnMotionsWork DEF Text, StepWorks
  <2>5. CASE Head(banner) = "lf"
    BY <2>1, <2>5, FeedWorks DEF Text, StepWorks
  <2>6. QED
    BY <2>2, <2>3, <2>4, <2>5
<1>18. QED
  BY <1>1, <1>2, <1>3, <1>4, <1>5, <1>6, <1>7, <1>8, <1>9, <1>10, <1>11, <1>12,
     <1>13, <1>14, <1>15, <1>16, <1>17 DEF Next

(* The graphics calls of a host that commits neither of their hazards.     *)
GsxCareful == "graphics_shown" \notin Lax /\ "draw_under_cursor" \notin Lax

Drawn ==
  /\ Good(ctx') /\ Border(ctx, ctx')
  /\ \E mark \in Marks : Draws(ctx, ctx', mark)

LEMMA GraphicsWorks ==
  ASSUME Careful, GsxCareful, Good(ctx), Gsx
  PROVE  Ghostless(ctx, ctx') \/ Drawn
<1>1. CASE Open
  BY <1>1, OpenWorks DEF Open, Host, Works
<1>2. CASE Close
  BY <1>2, HideWorks DEF Close, Host
<1>3. ASSUME NEW id \in 2 .. 10, Escape(id) PROVE Ghostless(ctx, ctx')
  <2>1. id \in {2, 3} => ~ctx.cursor_visible
    BY <1>3 DEF Escape, Careful, GsxCareful
  <2>2. Works(ctx, EndOfChar(gfx_escape(ctx, id)))
    BY <2>1, EscapeWorks
  <2>3. QED
    BY <1>3, <2>2 DEF Escape, Host, Works
<1>4. ASSUME NEW r \in 0 .. ctx.HEIGHT - 1, NEW k \in 0 .. Width - 1, Draw(r, k)
      PROVE  Drawn
  <2>1. PICK mark \in Marks : Host([ctx EXCEPT !.fb[r][k] = mark])
    BY <1>4 DEF Draw
  <2>2. mark \in Cell /\ <<r, k>> # <<ctx.cursor_row, ctx.cursor_col>>
    BY <1>4, MarksAssumption DEF Draw, GsxCareful
  <2>3. Good(ctx') /\ Draws(ctx, ctx', mark) /\ Border(ctx, ctx')
    BY <2>1, <2>2, DrawWorks DEF Host
  <2>4. QED
    BY <2>3 DEF Drawn
<1>5. QED
  BY <1>1, <1>2, <1>3, <1>4 DEF Gsx

(* Every step of a careful host is a step of the logical screen, and keeps *)
(* the context good.                                                       *)
LEMMA StepIsLogical ==
  ASSUME Good(ctx), StepWorks \/ Ghostless(ctx, ctx') \/ Drawn
  PROVE  Good(ctx') /\ Logical!Next
<1>1. CASE Works(ctx, ctx') \/ Ghostless(ctx, ctx')
  BY <1>1, OneStepIsLogical DEF Works, Ghostless
<1>2. CASE Recoloured(ctx, ctx', SgrFg, SgrBg)
  <2>1. ctx' \in Ctx
    BY <1>2, GoodFacts DEF Recoloured
  <2>2. QED
    BY <1>2, <2>1, FlagsAreLogical DEF Recoloured, Logical!Next
<1>3. CASE Resized
  BY <1>3, ResizeIsLogical DEF Resized, Logical!Next
<1>4. CASE Drawn
  BY <1>4, DrawingIsLogical DEF Drawn, Logical!Next
<1>5. QED
  BY <1>1, <1>2, <1>3, <1>4 DEF StepWorks

LEMMA StutterIsLogical ==
  ASSUME UNCHANGED vars
  PROVE  UNCHANGED Logical!vars
BY DEF vars, Logical!vars, Page

LEMMA InitIsLogical ==
  ASSUME Init
  PROVE  Good(ctx) /\ Logical!Init /\ banner \in Seq({Text, "cr", "lf"})
BY PowerUpIsLogical DEF Init

(* Careful text and graphics keep the context good. *)
LEMMA SpecGood ==
  ASSUME Careful
  PROVE  Spec => [](Good(ctx) /\ banner \in Seq({Text, "cr", "lf"}))
<1> DEFINE IInv == Good(ctx) /\ banner \in Seq({Text, "cr", "lf"})
<1>1. Init => IInv
  BY InitIsLogical
<1>2. IInv /\ [Next]_vars => IInv'
  <2> SUFFICES ASSUME IInv, [Next]_vars PROVE IInv'
    OBVIOUS
  <2>1. CASE Next
    <3>1. Good(ctx')
      BY <2>1, TextWorks, StepIsLogical
    <3>2. banner' \in Seq({Text, "cr", "lf"})
      BY <2>1, GoodFacts, StepSettles
    <3>3. QED
      BY <3>1, <3>2 DEF Good, Settled, OnScreen, Clean, SavedOK, CursorCell
  <2>2. CASE UNCHANGED vars
    BY <2>2 DEF vars, Good, Settled, OnScreen, Clean, SavedOK, CursorCell
  <2>3. QED
    BY <2>1, <2>2
<1>3. QED
  BY <1>1, <1>2, PTL DEF Spec

LEMMA WorkstationGood ==
  ASSUME Careful, GsxCareful
  PROVE  WorkstationSpec => [](Good(ctx) /\ banner \in Seq({Text, "cr", "lf"}))
<1> DEFINE IInv == Good(ctx) /\ banner \in Seq({Text, "cr", "lf"})
<1>1. Init => IInv
  BY InitIsLogical
<1>2. IInv /\ [WorkstationNext]_vars => IInv'
  <2> SUFFICES ASSUME IInv, [WorkstationNext]_vars PROVE IInv'
    OBVIOUS
  <2>1. CASE WorkstationNext
    <3>1. Good(ctx')
      BY <2>1, TextWorks, GraphicsWorks, StepIsLogical DEF WorkstationNext
    <3>2. banner' \in Seq({Text, "cr", "lf"})
      BY <2>1, GoodFacts, StepSettles, GsxSettles DEF WorkstationNext
    <3>3. QED
      BY <3>1, <3>2 DEF Good, Settled, OnScreen, Clean, SavedOK, CursorCell
  <2>2. CASE UNCHANGED vars
    BY <2>2 DEF vars, Good, Settled, OnScreen, Clean, SavedOK, CursorCell
  <2>3. QED
    BY <2>1, <2>2
<1>3. QED
  BY <1>1, <1>2, PTL DEF WorkstationSpec

-----------------------------------------------------------------------------
(* The terminal shows its host what a screen without a cursor block would: *)
(* the block leaves no ghost and hides no text, over every sequence of     *)
(* characters, attribute changes and resizes, for every size and palette.  *)
THEOREM TerminalImplementsScreen ==
  ASSUME Careful
  PROVE  Spec => ImplementsScreen
<1>1. Init => Logical!Init
  BY InitIsLogical
<1>2. Good(ctx) /\ banner \in Seq({Text, "cr", "lf"}) /\ [Next]_vars
        => [Logical!Next]_(Logical!vars)
  BY TextWorks, StepIsLogical, StutterIsLogical
<1>3. QED
  BY <1>1, <1>2, SpecGood, PTL DEF Spec, ImplementsScreen, Logical!Spec

(* So it does when graphics workstations open, draw and close in between.  *)
THEOREM WorkstationImplementsScreen ==
  ASSUME Careful, GsxCareful
  PROVE  WorkstationSpec => ImplementsScreen
<1>1. Init => Logical!Init
  BY InitIsLogical
<1>2. Good(ctx) /\ banner \in Seq({Text, "cr", "lf"}) /\ [WorkstationNext]_vars
        => [Logical!Next]_(Logical!vars)
  BY TextWorks, GraphicsWorks, StepIsLogical, StutterIsLogical DEF WorkstationNext
<1>3. QED
  BY <1>1, <1>2, WorkstationGood, PTL DEF WorkstationSpec, ImplementsScreen, Logical!Spec

-----------------------------------------------------------------------------
(* A hidden cursor never differs from its saved copy, so that lifting it   *)
(* writes back what is already there, for text and for graphics.           *)
THEOREM HiddenCursorIsClean ==
  ASSUME Careful
  PROVE  Spec => []HiddenClean
<1>1. Good(ctx) => HiddenClean
  BY DEF Good, Clean, HiddenClean
<1>2. QED
  BY <1>1, SpecGood, PTL

THEOREM WorkstationHiddenClean ==
  ASSUME Careful, GsxCareful
  PROVE  WorkstationSpec => []HiddenClean
<1>1. Good(ctx) => HiddenClean
  BY DEF Good, Clean, HiddenClean
<1>2. QED
  BY <1>1, WorkstationGood, PTL

(* Below the text area nothing is written but by a resize: the cursor that *)
(* is drawn on the row past the bottom, before the scroll, is always       *)
(* lifted again.                                                           *)
LEMMA BorderStays ==
  ASSUME Good(ctx), StepWorks \/ Ghostless(ctx, ctx') \/ Drawn
  PROVE  (\A r \in ctx.HEIGHT .. MaxHeight : ctx'.fb[r] = ctx.fb[r]) \/ Keys
<1>1. CASE Border(ctx, ctx')
  <2>1. \A r \in ctx.HEIGHT .. MaxHeight : r \in Rows /\ r >= ctx.HEIGHT
    BY GoodFacts, Sizes DEF Rows
  <2>2. QED
    BY <1>1, <2>1 DEF Border
<1>2. QED
  BY <1>1 DEF StepWorks, Works, Ghostless, Recoloured, Drawn

THEOREM BorderIsKept ==
  ASSUME Careful
  PROVE  Spec => BorderKept
<1>1. Good(ctx) /\ banner \in Seq({Text, "cr", "lf"}) /\ [Next]_vars
        => [(\A r \in ctx.HEIGHT .. MaxHeight : ctx'.fb[r] = ctx.fb[r]) \/ Keys]_vars
  BY TextWorks, BorderStays
<1>2. QED
  BY <1>1, SpecGood, PTL DEF Spec, BorderKept

THEOREM WorkstationKeepsBorder ==
  ASSUME Careful, GsxCareful
  PROVE  WorkstationSpec => BorderKept
<1>1. Good(ctx) /\ banner \in Seq({Text, "cr", "lf"}) /\ [WorkstationNext]_vars
        => [(\A r \in ctx.HEIGHT .. MaxHeight : ctx'.fb[r] = ctx.fb[r]) \/ Keys]_vars
  BY TextWorks, GraphicsWorks, BorderStays DEF WorkstationNext
<1>2. QED
  BY <1>1, WorkstationGood, PTL DEF WorkstationSpec, BorderKept

-----------------------------------------------------------------------------
(* The block is always seen, when no foreground the host selects is also a *)
(* background it selects.  The invariant says where the colours come from. *)
Inks   == SgrFg \cup {DEFAULT_FG}
Papers == SgrBg \cup {DEFAULT_BG}

Palette(c) ==
  c.fg \in Inks /\ c.default_fg \in Inks /\ c.bg \in Papers /\ c.default_bg \in Papers

LEMMA StepKeepsPalette ==
  ASSUME ctx \in Ctx, Palette(ctx), StepWorks
  PROVE  Palette(ctx')
<1>1. CASE Works(ctx, ctx')
  <2>1. OneStep(ctx, ctx')
    BY <1>1 DEF Works, Ghostless
  <2>2. Colours(ctx, ctx') \/ Resets(ctx, ctx')
    BY <2>1 DEF OneStep, Moves, Flags, Saves, Erases, Prints, Feeds, Clears, Edits, Opens,
                AsBefore, Kept, Colours
  <2>3. QED
    BY <2>2, ResetColours DEF Colours, Palette
<1>2. CASE Recoloured(ctx, ctx', SgrFg, SgrBg)
  BY <1>2 DEF Recoloured, Tints, Palette, Inks, Papers
<1>3. CASE Resized
  BY <1>3 DEF Resized, Resizes, Kept, Palette
<1>4. QED
  BY <1>1, <1>2, <1>3 DEF StepWorks

THEOREM CursorIsSeen ==
  ASSUME Careful, Inks \cap Papers = {}
  PROVE  Spec => []ShownDistinct
<1> DEFINE IInv == Palette(ctx) /\ Distinct(ctx)
<1>1. Init => IInv
  <2> SUFFICES ASSUME Init PROVE IInv
    OBVIOUS
  <2>1. DEFAULT_FG # DEFAULT_BG
    BY DEF Inks, Papers
  <2>2. QED
    BY <2>1, PowerUpWorks DEF Init, Palette, Inks, Papers
<1>2. Good(ctx) /\ banner \in Seq({Text, "cr", "lf"}) /\ IInv /\ [Next]_vars => IInv'
  <2> SUFFICES ASSUME Good(ctx), banner \in Seq({Text, "cr", "lf"}), IInv, [Next]_vars
               PROVE  IInv'
    OBVIOUS
  <2>1. CASE Next
    <3>1. StepWorks
      BY <2>1, TextWorks
    <3>2. Palette(ctx')
      BY <3>1, GoodFacts, StepKeepsPalette
    <3>3. Vivid(ctx) /\ Contrast(ctx)
      BY DEF Palette, Vivid, Contrast
    <3>4. Distinct(ctx')
      BY <3>1, <3>3 DEF StepWorks, Works, Recoloured, Resized
    <3>5. QED
      BY <3>2, <3>4 DEF Palette, Distinct, CursorCell
  <2>2. CASE UNCHANGED vars
    BY <2>2 DEF vars, Palette, Distinct, CursorCell
  <2>3. QED
    BY <2>1, <2>2
<1>3. IInv => ShownDistinct
  BY DEF Distinct, ShownDistinct
<1>4. QED
  BY <1>1, <1>2, <1>3, SpecGood, PTL DEF Spec

-----------------------------------------------------------------------------
(* Where the motions go.  First the arithmetic of tab stops: multiples of  *)
(* their distance.                                                         *)
LEMMA Products ==
  ASSUME NEW t \in Nat, t > 0, NEW a \in Int, NEW b \in Int
  PROVE  /\ a * t \in Int /\ (a + 1) * t = a * t + t /\ (a - 1) * t = a * t - t
         /\ a < b => a * t + t <= b * t
         /\ a = 0 => a * t = 0
         /\ a >= 0 => a * t >= 0
<1>1. a * t \in Int /\ (a + 1) * t = a * t + t /\ (a - 1) * t = a * t - t
  OBVIOUS
<1>2. a < b => a * t + t <= b * t
  <2>1. ASSUME a < b PROVE a * t + t <= b * t
    <3>1. b - a - 1 \in Nat /\ (b - a - 1) * t >= 0
      BY <2>1
    <3>2. (b - a - 1) * t = b * t - a * t - t
      OBVIOUS
    <3>3. a * t \in Int /\ b * t \in Int
      OBVIOUS
    <3>4. QED
      BY <3>1, <3>2, <3>3
  <2>2. QED
    BY <2>1
<1>3. a >= 0 => a * t >= 0
  OBVIOUS
<1>4. a = 0 => a * t = 0
  OBVIOUS
<1>5. QED
  BY <1>1, <1>2, <1>3, <1>4

LEMMA Division ==
  ASSUME NEW t \in Nat, t > 0, NEW k \in Nat
  PROVE  /\ k \div t \in Nat /\ (k % t) \in 0 .. t - 1 /\ k = (k \div t) * t + (k % t)
OBVIOUS

LEMMA MultipleIsStop ==
  ASSUME NEW t \in Nat, t > 0, NEW a \in Nat
  PROVE  a * t \in Nat /\ (a * t) % t = 0
<1> DEFINE n == a * t
           d == n \div t
           r == n % t
<1>1. n \in Nat
  BY Products
<1>2. d \in Nat /\ r \in 0 .. t - 1 /\ n = d * t + r
  BY <1>1, Division
<1> HIDE DEF d, r
<1>3. ~(a < d)
  <2>1. a < d => a * t + t <= d * t
    BY <1>2, Products
  <2>2. d * t \in Int
    BY <1>2, Products
  <2> QED
    BY <1>1, <1>2, <2>1, <2>2
<1>4. ~(d < a)
  <2>1. d < a => d * t + t <= a * t
    BY <1>2, Products
  <2>2. d * t \in Int
    BY <1>2, Products
  <2> QED
    BY <1>1, <1>2, <2>1, <2>2
<1>5. d = a
  BY <1>2, <1>3, <1>4
<1>6. r = 0
  BY <1>1, <1>2, <1>5
<1>7. QED
  BY <1>1, <1>6 DEF r

(* The stop at or before column k, and what lies between it and the next. *)
LEMMA StopBelow ==
  ASSUME NEW t \in Nat, t > 0, NEW k \in Nat, NEW s, s = (k \div t) * t
  PROVE  /\ s \in Nat /\ s <= k /\ k < s + t /\ s % t = 0 /\ (s + t) % t = 0
         /\ k % t = 0 <=> k = s
         /\ s > 0 => s - t \in Nat /\ (s - t) % t = 0
         /\ \A j \in Nat : j % t = 0 => /\ j > s => j >= s + t
                                        /\ j < s => j <= s - t
<1> DEFINE a == k \div t
<1>1. a \in Nat /\ k % t \in 0 .. t - 1 /\ k = s + (k % t) /\ s = a * t
  BY Division
<1> HIDE DEF a
<1>2. s \in Nat /\ s % t = 0
  BY <1>1, MultipleIsStop
<1>3. (s + t) % t = 0
  <2>1. (a + 1) * t = s + t
    BY <1>1, Products
  <2>2. a + 1 \in Nat
    BY <1>1
  <2>3. ((a + 1) * t) % t = 0
    BY <2>2, MultipleIsStop
  <2>4. QED
    BY <2>1, <2>3
<1>4. ASSUME s > 0 PROVE s - t \in Nat /\ (s - t) % t = 0
  <2>1. a # 0
    BY <1>1, <1>4, Products
  <2>2. a - 1 \in Nat
    BY <1>1, <2>1
  <2>3. (a - 1) * t = s - t
    BY <1>1, Products
  <2>4. (a - 1) * t \in Nat /\ ((a - 1) * t) % t = 0
    BY <2>2, MultipleIsStop
  <2>5. QED
    BY <2>3, <2>4
<1>5. ASSUME NEW j \in Nat, j % t = 0
      PROVE  (j > s => j >= s + t) /\ (j < s => j <= s - t)
  <2> DEFINE b == j \div t
  <2>1. b \in Nat /\ j = b * t + (j % t)
    BY Division
  <2> HIDE DEF b
  <2>2. j = b * t
    <3>1. b * t \in Int
      BY <2>1, Products
    <3>2. QED
      BY <1>5, <2>1, <3>1
  <2>3. /\ a < b => s + t <= b * t
        /\ b < a => b * t + t <= s
    BY <1>1, <2>1, Products
  <2>4. a = b => j = s
    BY <1>1, <2>2
  <2>5. a < b \/ b < a \/ a = b
    BY <1>1, <2>1
  <2>6. QED
    BY <1>2, <2>2, <2>3, <2>4, <2>5
<1>6. s <= k /\ k < s + t /\ ((k % t) = 0 <=> k = s)
  BY <1>1, <1>2
<1>7. QED
  BY <1>2, <1>3, <1>4, <1>5, <1>6

-----------------------------------------------------------------------------
(* The tab stops of LogicalScreen are those the code computes. *)
LEMMA TabIsStop ==
  ASSUME NEW col \in 0 .. Width - 1, col # Width - 1
  PROVE  Least((col \div TabStop) * TabStop + TabStop, Width - 1) \in Logical!StopsAfter(col)
<1> DEFINE s == (col \div TabStop) * TabStop
           m == Least(s + TabStop, Width - 1)
<1>1. /\ s \in Nat /\ s <= col /\ col < s + TabStop
      /\ s % TabStop = 0 /\ (s + TabStop) % TabStop = 0
      /\ \A j \in Nat : j % TabStop = 0 => (j > s => j >= s + TabStop)
  <2>1. TabStop \in Nat /\ TabStop > 0 /\ col \in Nat
    BY Sizes
  <2> HIDE DEF s
  <2>2. s = (col \div TabStop) * TabStop
    BY DEF s
  <2>3. QED
    BY <2>1, <2>2, StopBelow
<1> HIDE DEF s
<1>2. m \in 0 .. Width - 1 /\ m > col /\ (m = s + TabStop \/ m = Width - 1) /\ m <= s + TabStop
  BY <1>1, Sizes DEF Least
<1>3. \A j \in col + 1 .. m - 1 : j % TabStop # 0
  <2> SUFFICES ASSUME NEW j \in col + 1 .. m - 1, j % TabStop = 0 PROVE FALSE
    OBVIOUS
  <2>1. j \in Nat /\ j > s /\ j < s + TabStop
    BY <1>1, <1>2, Sizes
  <2>2. QED
    BY <1>1, <2>1, Sizes
<1>4. IF m % TabStop = 0 THEN m > col ELSE m = Width - 1
  BY <1>1, <1>2
<1> HIDE DEF m
<1>5. m \in Logical!PageCols
  BY <1>2 DEF Logical!PageCols
<1>6. m \in Logical!StopsAfter(col)
  BY <1>3, <1>4, <1>5 DEF Logical!StopsAfter
<1>7. QED
  BY <1>6 DEF m, s

LEMMA BackTabIsStop ==
  ASSUME NEW col \in 0 .. Width - 1
  PROVE  (IF col % TabStop # 0 THEN (col \div TabStop) * TabStop ELSE Greatest(col - TabStop, 0))
            \in Logical!StopsBefore(col)
<1> DEFINE s == (col \div TabStop) * TabStop
           m == IF col % TabStop # 0 THEN s ELSE Greatest(col - TabStop, 0)
<1>1. /\ s \in Nat /\ s <= col /\ s % TabStop = 0 /\ ((col % TabStop) = 0 <=> col = s)
      /\ s > 0 => s - TabStop \in Nat /\ (s - TabStop) % TabStop = 0
      /\ \A j \in Nat : j % TabStop = 0 => /\ j > s => j >= s + TabStop
                                           /\ j < s => j <= s - TabStop
      /\ col < s + TabStop
  <2>1. TabStop \in Nat /\ TabStop > 0 /\ col \in Nat
    BY Sizes
  <2> HIDE DEF s
  <2>2. s = (col \div TabStop) * TabStop
    BY DEF s
  <2>3. QED
    BY <2>1, <2>2, StopBelow
<1> HIDE DEF s
<1>2. m = IF col # s THEN s ELSE IF s > 0 THEN s - TabStop ELSE 0
  BY <1>1, Sizes DEF Greatest
<1>3. s = 0 => 0 % TabStop = 0
  BY <1>1
<1>4. m \in 0 .. Width - 1 /\ m % TabStop = 0 /\ (m < col \/ col = 0)
  BY <1>1, <1>2, <1>3, Sizes
<1>5. \A j \in m + 1 .. col - 1 : j % TabStop # 0
  <2> SUFFICES ASSUME NEW j \in m + 1 .. col - 1, j % TabStop = 0 PROVE FALSE
    OBVIOUS
  <2>1. j \in Nat /\ j > m /\ j < col
    BY <1>4
  <2>2. /\ j > s => j >= s + TabStop
        /\ j < s => j <= s - TabStop
    BY <1>1, <2>1
  <2>3. QED
    BY <1>1, <1>2, <2>1, <2>2, Sizes
<1> HIDE DEF m
<1>6. m \in Logical!PageCols
  BY <1>4 DEF Logical!PageCols
<1>7. m \in Logical!StopsBefore(col)
  BY <1>4, <1>5, <1>6 DEF Logical!StopsBefore
<1>8. QED
  BY <1>7 DEF m, s

(* Where the cursor is after a motion, when the character has been dealt with. *)
Place(c) == <<c.cursor_row, c.cursor_col>>

LEMMA MotionGoes ==
  ASSUME NEW c, Good(c), NEW row \in Nat, NEW col \in Nat, row < c.HEIGHT, col < Width
  PROVE  Place(EndOfChar(MovedTo(c, row, col))) = <<row, col>>
BY MotionWorks DEF Place

LEMMA MoveCursorGoes ==
  ASSUME NEW c, Good(c), NEW row \in Int, NEW col \in Int
  PROVE  Place(EndOfChar(gfx_term_move_cursor(c, row, col))) =
           <<Logical!Within(row, c.HEIGHT), Logical!Within(col, Width)>>
<1> DEFINE r == Least(c.HEIGHT - 1, Greatest(row, 0))
           k == Least(Width - 1, Greatest(col, 0))
<1>1. r \in Nat /\ r < c.HEIGHT /\ k \in Nat /\ k < Width
  BY GoodFacts, Sizes DEF Least, Greatest
<1>2. r = Logical!Within(row, c.HEIGHT) /\ k = Logical!Within(col, Width)
  BY GoodFacts, Sizes DEF Least, Greatest, Logical!Within
<1> HIDE DEF r, k
<1>3. Place(EndOfChar(MovedTo(c, r, k))) = <<r, k>>
  BY <1>1, MotionGoes
<1>4. QED
  BY <1>2, <1>3 DEF gfx_term_move_cursor, r, k

LEMMA ColumnMotionsGo ==
  ASSUME NEW c, Good(c)
  PROVE  LET row == c.cursor_row
             col == c.cursor_col
         IN  /\ Place(EndOfChar(CarriageReturn(c))) = <<row, 0>>
             /\ Place(EndOfChar(Backspace(c))) = <<row, Logical!Within(col - 1, Width)>>
             /\ col = Width - 1 \/ Place(EndOfChar(Tab(c))) \in {row} \X Logical!StopsAfter(col)
             /\ Place(EndOfChar(BackTab(c))) \in {row} \X Logical!StopsBefore(col)
<1> DEFINE row == c.cursor_row
           col == c.cursor_col
<1>1. row \in Nat /\ row < c.HEIGHT /\ col \in Nat /\ col < Width /\ col \in 0 .. Width - 1
  BY GoodFacts, Sizes
<1>2. Place(EndOfChar(CarriageReturn(c))) = <<row, 0>>
  BY <1>1, MotionGoes, Sizes DEF CarriageReturn
<1>3. Place(EndOfChar(Backspace(c))) = <<row, Logical!Within(col - 1, Width)>>
  <2>1. CASE col = 0
    BY <1>1, <2>1, EndOfCharStays, GoodFacts, Sizes DEF Backspace, Place, Logical!Within
  <2>2. CASE col # 0
    <3>1. col - 1 \in Nat /\ col - 1 < Width /\ Logical!Within(col - 1, Width) = col - 1
      BY <1>1, <2>2, Sizes DEF Logical!Within
    <3>2. Backspace(c) = MovedTo(c, row, col - 1)
      BY <2>2 DEF Backspace
    <3>3. Place(EndOfChar(MovedTo(c, row, col - 1))) = <<row, col - 1>>
      BY <1>1, <3>1, MotionGoes
    <3>4. QED
      BY <3>1, <3>2, <3>3
  <2>3. QED
    BY <2>1, <2>2
<1>4. ASSUME col # Width - 1
      PROVE  Place(EndOfChar(Tab(c))) \in {row} \X Logical!StopsAfter(col)
  <2> DEFINE m == Least((col \div TabStop) * TabStop + TabStop, Width - 1)
  <2>1. m \in Logical!StopsAfter(col)
    BY <1>1, <1>4, TabIsStop
  <2> HIDE DEF m
  <2>2. m \in Nat /\ m < Width
    BY <2>1, Sizes DEF Logical!StopsAfter, Logical!PageCols
  <2>3. Place(EndOfChar(MovedTo(c, row, m))) = <<row, m>>
    BY <1>1, <2>2, MotionGoes
  <2>4. Tab(c) = MovedTo(c, row, m)
    BY DEF Tab, m
  <2>5. QED
    BY <2>1, <2>3, <2>4
<1>5. Place(EndOfChar(BackTab(c))) \in {row} \X Logical!StopsBefore(col)
  <2> DEFINE m == IF col % TabStop # 0 THEN (col \div TabStop) * TabStop
                  ELSE Greatest(col - TabStop, 0)
  <2>1. m \in Logical!StopsBefore(col)
    BY <1>1, BackTabIsStop
  <2> HIDE DEF m
  <2>2. m \in Nat /\ m < Width
    BY <2>1, Sizes DEF Logical!StopsBefore, Logical!PageCols
  <2>3. Place(EndOfChar(MovedTo(c, row, m))) = <<row, m>>
    BY <1>1, <2>2, MotionGoes
  <2>4. BackTab(c) = MovedTo(c, row, m)
    BY DEF BackTab, m
  <2>5. QED
    BY <2>1, <2>3, <2>4
<1>6. QED
  BY <1>2, <1>3, <1>4, <1>5

LEMMA RecallGoes ==
  ASSUME NEW c, Good(c), c.saved_cursor[1] < c.HEIGHT
  PROVE  Place(EndOfChar(gfx_term_restore_cursor(c))) = c.saved_cursor
<1>1. /\ c.saved_cursor[1] \in Nat /\ c.saved_cursor[2] \in Nat
      /\ c.saved_cursor[2] < Width
      /\ c.saved_cursor = <<c.saved_cursor[1], c.saved_cursor[2]>>
  BY GoodFacts, Sizes DEF Ctx, Rows, Cols, SavedOK
<1>2. QED
  BY <1>1, MotionGoes DEF gfx_term_restore_cursor

LEMMA AddressingGoes ==
  ASSUME NEW c, Good(c), NEW n \in 0 .. Word - 1
  PROVE  LET row == c.cursor_row
             col == c.cursor_col
         IN  /\ Place(EndOfChar(CursorUp(c, n)))    = <<Logical!Within(row - n, c.HEIGHT), col>>
             /\ Place(EndOfChar(CursorDown(c, n)))  = <<Logical!Within(row + n, c.HEIGHT), col>>
             /\ Place(EndOfChar(CursorRight(c, n))) = <<row, Logical!Within(col + n, Width)>>
             /\ Place(EndOfChar(CursorLeft(c, n)))  = <<row, Logical!Within(col - n, Width)>>
<1> DEFINE row == c.cursor_row
           col == c.cursor_col
           high == c.HEIGHT
<1>1. /\ row \in Nat /\ row < high /\ col \in Nat /\ col < Width /\ high \in Nat
      /\ n \in Nat /\ Width \in Nat
  BY GoodFacts, Sizes, SizeAssumption
<1>2. \A r, k \in Int : Place(EndOfChar(gfx_term_move_cursor(c, r, k))) =
        <<Logical!Within(r, high), Logical!Within(k, Width)>>
  BY MoveCursorGoes
<1>3. /\ CursorUp(c, n) = gfx_term_move_cursor(c, Greatest(0, row - n), col)
      /\ CursorDown(c, n) = gfx_term_move_cursor(c, Least(high - 1, row + n), col)
      /\ CursorRight(c, n) = gfx_term_move_cursor(c, row, Least(Width - 1, col + n))
      /\ CursorLeft(c, n) = gfx_term_move_cursor(c, row, Greatest(0, col - n))
  BY DEF CursorUp, CursorDown, CursorRight, CursorLeft
<1> HIDE DEF row, col, high
<1>4. /\ Greatest(0, row - n) \in Int /\ Least(high - 1, row + n) \in Int
      /\ Least(Width - 1, col + n) \in Int /\ Greatest(0, col - n) \in Int
      /\ row \in Int /\ col \in Int
  BY <1>1 DEF Least, Greatest
<1>5. /\ Logical!Within(Greatest(0, row - n), high) = Logical!Within(row - n, high)
      /\ Logical!Within(Least(high - 1, row + n), high) = Logical!Within(row + n, high)
      /\ Logical!Within(Least(Width - 1, col + n), Width) = Logical!Within(col + n, Width)
      /\ Logical!Within(Greatest(0, col - n), Width) = Logical!Within(col - n, Width)
      /\ Logical!Within(row, high) = row /\ Logical!Within(col, Width) = col
  BY <1>1 DEF Least, Greatest, Logical!Within
<1>6. QED
  BY <1>2, <1>3, <1>4, <1>5 DEF row, col, high

(* A parameter of at least 1 never wraps. *)
LEMMA OneLess ==
  ASSUME NEW n \in 0 .. Word - 1
  PROVE  (n + Word - 1) % Word = IF n = 0 THEN Word - 1 ELSE n - 1
<1> DEFINE x == n + Word - 1
           q == x \div Word
           r == x % Word
<1>1. Word \in Nat /\ Word > 0
  BY SizeAssumption
<1>2. q \in Nat /\ r \in 0 .. Word - 1 /\ x = q * Word + r
  BY <1>1, Division
<1> HIDE DEF q, r
<1>3. q = IF n = 0 THEN 0 ELSE 1
  <2>1. /\ q < 1 => q * Word + Word <= 1 * Word
        /\ 0 < q => 0 * Word + Word <= q * Word
        /\ 1 < q => 1 * Word + Word <= q * Word
        /\ q * Word \in Int /\ 1 * Word = Word /\ 0 * Word = 0
    BY <1>1, <1>2, Products
  <2>2. QED
    BY <1>1, <1>2, <2>1
<1>4. r = IF n = 0 THEN Word - 1 ELSE n - 1
  BY <1>1, <1>2, <1>3
<1>5. QED
  BY <1>4 DEF r, x

LEMMA PositionGoes ==
  ASSUME NEW c, Good(c), NEW n \in 0 .. Word - 1, NEW k \in 0 .. Word - 1
  PROVE  Place(EndOfChar(CursorPosition(c, n, k))) =
           <<Addressed(n, c.HEIGHT), Addressed(k, Width)>>
<1>1. /\ c.HEIGHT \in Nat /\ c.HEIGHT > 0 /\ Width \in Nat /\ Width > 0 /\ Word \in Nat
      /\ c.HEIGHT < Word /\ Width < Word
  BY GoodFacts, SizeAssumption
<1>2. ASSUME NEW i \in 0 .. Word - 1, NEW size \in Nat, size > 0, size < Word
      PROVE  LET last == Least((i + Word - 1) % Word, size - 1)
             IN  last \in Int /\ Logical!Within(last, size) = Addressed(i, size)
  <2>1. (i + Word - 1) % Word = IF i = 0 THEN Word - 1 ELSE i - 1
    BY OneLess
  <2>2. QED
    BY <1>1, <1>2, <2>1 DEF Least, Addressed, Logical!Within
<1>3. /\ Least((n + Word - 1) % Word, c.HEIGHT - 1) \in Int
      /\ Least((k + Word - 1) % Word, Width - 1) \in Int
      /\ Logical!Within(Least((n + Word - 1) % Word, c.HEIGHT - 1), c.HEIGHT)
           = Addressed(n, c.HEIGHT)
      /\ Logical!Within(Least((k + Word - 1) % Word, Width - 1), Width) = Addressed(k, Width)
  BY <1>1, <1>2
<1>4. QED
  BY <1>3, MoveCursorGoes DEF CursorPosition

-----------------------------------------------------------------------------
(* The columns of a tab on the wider screen. *)
LEMMA WideMoved ==
  ASSUME NEW c, {"cursor_row", "cursor_col", "cursor_buffer", "fb"} \subseteq DOMAIN c,
         NEW row, NEW col
  PROVE  Wide!MovedTo(c, row, col).cursor_col = col
             /\ DOMAIN Wide!MovedTo(c, row, col) = DOMAIN c
<1> DEFINE l == Wide!gfx_restore_cursor_content(c)
           m == [l EXCEPT !.cursor_row = row, !.cursor_col = col]
<1>1. DOMAIN l = DOMAIN c
  BY DEF Wide!gfx_restore_cursor_content
<1> HIDE DEF l
<1>2. DOMAIN m = DOMAIN c /\ m.cursor_col = col
  BY <1>1
<1> HIDE DEF m
<1>3. /\ DOMAIN Wide!gfx_term_render_cursor(m) = DOMAIN m
      /\ Wide!gfx_term_render_cursor(m).cursor_col = m.cursor_col
  BY <1>2 DEF Wide!gfx_term_render_cursor
<1>4. QED
  BY <1>2, <1>3 DEF Wide!MovedTo, m, l

LEMMA WidePowerUp ==
  {"cursor_row", "cursor_col", "cursor_buffer", "fb"} \subseteq DOMAIN Wide!PowerUp
BY DEF Wide!PowerUp, Wide!gfx_term_render_cursor

LEMMA WideStops == WideTabs
<1> SUFFICES ASSUME NEW col \in 0 .. LastWide
    PROVE  LET at == Wide!MovedTo(Wide!PowerUp, 0, col)
               stops == {k \in 0 .. LastWide : k % TabStop = 0}
               next == Wide!Tab(at).cursor_col
               last == Wide!BackTab(at).cursor_col
           IN  /\ next \in stops \cup {LastWide} /\ (col < LastWide => next > col)
               /\ \A k \in stops : k > col => next <= k
               /\ last \in stops /\ (last < col \/ col = 0)
               /\ \A k \in stops : k < col => k <= last
  BY DEF WideTabs
<1> DEFINE at == Wide!MovedTo(Wide!PowerUp, 0, col)
           stops == {k \in 0 .. LastWide : k % TabStop = 0}
           next == Wide!Tab(at).cursor_col
           last == Wide!BackTab(at).cursor_col
           s == (col \div TabStop) * TabStop
<1>1. TabStop \in Nat /\ TabStop > 0 /\ LastWide \in Nat /\ LastWide > 0 
      /\ LastWide + 1 - 1 = LastWide /\ col \in Nat /\ col <= LastWide
  BY Sizes DEF LastWide
<1> HIDE DEF s
<1>2. /\ s \in Nat /\ s <= col /\ col < s + TabStop
      /\ s % TabStop = 0 /\ (s + TabStop) % TabStop = 0
      /\ col % TabStop = 0 <=> col = s
      /\ s > 0 => s - TabStop \in Nat /\ (s - TabStop) % TabStop = 0
      /\ \A j \in Nat : j % TabStop = 0 => /\ j > s => j >= s + TabStop
                                           /\ j < s => j <= s - TabStop
  <2>1. s = (col \div TabStop) * TabStop
    BY DEF s
  <2>2. QED
    BY <1>1, <2>1, StopBelow, ZenonT(60)
<1>3. /\ at.cursor_col = col
      /\ {"cursor_row", "cursor_col", "cursor_buffer", "fb"} \subseteq DOMAIN at
  BY WideMoved, WidePowerUp
<1> HIDE DEF at
<1>4. next = Wide!Least(s + TabStop, LastWide)
  <2>1. Wide!Tab(at) = Wide!MovedTo(at, at.cursor_row, Wide!Least(s + TabStop, LastWide))
    BY <1>1, <1>3 DEF Wide!Tab, s
  <2>2. QED
    BY <1>3, <2>1, WideMoved
<1>5. last = IF col % TabStop # 0 THEN s ELSE Wide!Greatest(col - TabStop, 0)
  <2> DEFINE m == IF col % TabStop # 0 THEN s ELSE Wide!Greatest(col - TabStop, 0)
  <2>1. Wide!BackTab(at) = Wide!MovedTo(at, at.cursor_row, m)
    BY <1>3 DEF Wide!BackTab, s
  <2> HIDE DEF m
  <2>2. last = m
    BY <1>3, <2>1, WideMoved
  <2>3. QED
    BY <2>2 DEF m
<1> HIDE DEF next, last
<1>6. /\ next \in 0 .. LastWide /\ next <= s + TabStop
      /\ next = s + TabStop \/ next = LastWide
      /\ col < LastWide => next > col
  BY <1>1, <1>2, <1>4 DEF Wide!Least
<1>7. \A k \in stops : k > col => next <= k
  <2> SUFFICES ASSUME NEW k \in stops, k > col PROVE next <= k
    OBVIOUS
  <2>1. k \in Nat /\ k > s /\ k % TabStop = 0
    BY <1>1, <1>2
  <2>2. k >= s + TabStop
    BY <1>2, <2>1
  <2>3. QED
    BY <1>1, <1>2, <1>6, <2>1, <2>2
<1>8. /\ last = IF col # s THEN s ELSE IF s > 0 THEN s - TabStop ELSE 0
      /\ last \in 0 .. LastWide /\ last % TabStop = 0 /\ (last < col \/ col = 0)
  <2>1. last = IF col # s THEN s ELSE IF s > 0 THEN s - TabStop ELSE 0
    BY <1>1, <1>2, <1>5 DEF Wide!Greatest
  <2>2. last % TabStop = 0
    BY <1>2, <2>1
  <2>3. QED
    BY <1>1, <1>2, <2>1, <2>2
<1>9. \A k \in stops : k < col => k <= last
  <2> SUFFICES ASSUME NEW k \in stops, k < col PROVE k <= last
    OBVIOUS
  <2>1. k \in Nat /\ k % TabStop = 0
    BY <1>1
  <2>2. /\ k > s => k >= s + TabStop
        /\ k < s => k <= s - TabStop
    BY <1>2, <2>1
  <2>3. QED
    BY <1>1, <1>2, <1>8, <2>1, <2>2
<1>10. next \in stops \cup {LastWide} /\ last \in stops
  BY <1>2, <1>6, <1>8
<1>11. QED
  BY <1>6, <1>7, <1>8, <1>9, <1>10 DEF next, last, at

(* Every motion takes the cursor where the host asked, on every screen. *)
LEMMA AllMotionsGo == Good(ctx) => MotionsAgree
<1> SUFFICES ASSUME Good(ctx) PROVE MotionsAgree
  OBVIOUS
<1> DEFINE row == ctx.cursor_row
           col == ctx.cursor_col
<1>1. /\ Place(EndOfChar(CarriageReturn(ctx))) = <<row, 0>>
      /\ Place(EndOfChar(Backspace(ctx))) = <<row, Logical!Within(col - 1, Width)>>
      /\ col = Width - 1 \/ Place(EndOfChar(Tab(ctx))) \in {row} \X Logical!StopsAfter(col)
      /\ Place(EndOfChar(BackTab(ctx))) \in {row} \X Logical!StopsBefore(col)
  BY ColumnMotionsGo
<1>2. ctx.saved_cursor[1] < ctx.HEIGHT =>
        Place(EndOfChar(gfx_term_restore_cursor(ctx))) = ctx.saved_cursor
  BY RecallGoes
<1>3. ASSUME NEW n \in Counts
      PROVE  /\ Place(EndOfChar(CursorUp(ctx, n)))    = <<Logical!Within(row - n, ctx.HEIGHT), col>>
             /\ Place(EndOfChar(CursorDown(ctx, n)))  = <<Logical!Within(row + n, ctx.HEIGHT), col>>
             /\ Place(EndOfChar(CursorRight(ctx, n))) = <<row, Logical!Within(col + n, Width)>>
             /\ Place(EndOfChar(CursorLeft(ctx, n)))  = <<row, Logical!Within(col - n, Width)>>
  <2>1. n \in 0 .. Word - 1
    BY HostAssumption
  <2>2. QED
    BY <2>1, AddressingGoes
<1>4. ASSUME NEW n \in Counts, NEW k \in Counts
      PROVE  Place(EndOfChar(CursorPosition(ctx, n, k))) =
               <<Addressed(n, ctx.HEIGHT), Addressed(k, Width)>>
  <2>1. n \in 0 .. Word - 1 /\ k \in 0 .. Word - 1
    BY HostAssumption
  <2>2. QED
    BY <2>1, PositionGoes
<1>5. QED
  BY <1>1, <1>2, <1>3, <1>4, WideStops DEF MotionsAgree, Place

(* Wherever text and graphics have left the cursor, each motion of         *)
(* gfx_term_putstring takes it where its count says: no clamp and no tab   *)
(* mask shows, whatever the size of the screen, and the unsigned           *)
(* subtraction shows for parameter 0 of a position only.                   *)
THEOREM MotionsAreExact ==
  ASSUME Careful, GsxCareful
  PROVE  WorkstationSpec => []MotionsAgree
BY AllMotionsGo, WorkstationGood, PTL
=============================================================================
