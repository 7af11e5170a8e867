----------------------------- MODULE AnsiProofs -----------------------------
(***************************************************************************)
(* The scanner, for every alphabet, parameter range and screen: its state  *)
(* and its parameters agree, and it does to the page what LogicalScreen    *)
(* allows, whatever bytes come in whatever order.                          *)
(***************************************************************************)
EXTENDS AnsiRefinement, GfxProofs, FiniteSetTheorems, WellFoundedInduction

(* A set of numbers has a least one: induction by a least counterexample.  *)
LEMMA LeastNatural ==
  ASSUME NEW T, T \subseteq Nat, T # {}
  PROVE  \E x \in T : \A y \in T : x <= y
<1> DEFINE Below(n) == 0 .. n - 1
           Initials == {Below(n) : n \in T}
           R == StrictSubsetOrdering(Nat)
           S == FiniteSubsetsOf(Nat)
<1>1. IsWellFoundedOn(R, S)
  BY FS_StrictSubsetOrderingWellFounded
<1>2. Initials \subseteq S
  <2>1. ASSUME NEW n \in T PROVE IsFiniteSet(Below(n)) /\ Below(n) \subseteq Nat
    BY FS_Interval
  <2>2. QED
    BY <2>1 DEF FiniteSubsetsOf
<1>3. Initials # {}
  OBVIOUS
<1> HIDE DEF Initials, R, S
<1>4. PICK I \in Initials : \A J \in Initials : ~(<<J, I>> \in R)
  BY <1>1, <1>2, <1>3, WFMin
<1>5. PICK x \in T : I = Below(x)
  BY <1>4 DEF Initials
<1>6. ASSUME NEW y \in T, y < x PROVE FALSE
  <2>1. Below(y) \in Initials
    BY DEF Initials
  <2>2. /\ Below(y) \subseteq Below(x) /\ Below(y) # Below(x)
        /\ Below(x) \in SUBSET Nat /\ Below(y) \in SUBSET Nat
    BY <1>6
  <2>3. QED
    BY <1>2, <1>4, <1>5, <2>1, <2>2 DEF R, S, StrictSubsetOrdering
<1>7. QED
  BY <1>6

-----------------------------------------------------------------------------
(* ESC[...m takes its parameters one after the other: the function that    *)
(* says so exists.                                                         *)
LEMMA TakenOneByOne ==
  ASSUME NEW c, NEW ps \in Seq(Nat)
  PROVE  Taken(c, ps) =
           [i \in 0 .. Len(ps) |-> IF i = 0 THEN [c |-> c, skip |-> 0]
                                   ELSE TakeParam(Taken(c, ps)[i - 1], ps, i)]
<1> DEFINE start == [c |-> c, skip |-> 0]
           Step(f, n) == [i \in 0 .. n |-> IF i = 0 THEN start ELSE TakeParam(f[i - 1], ps, i)]
           Bad == {n \in Nat : \A f : f # Step(f, n)}
<1> HIDE DEF start
<1>1. 0 \notin Bad
  <2> DEFINE f == [i \in 0 .. 0 |-> start]
  <2>1. f = Step(f, 0)
    OBVIOUS
  <2>2. QED
    BY <2>1
<1>2. ASSUME NEW n \in Nat, n \notin Bad PROVE n + 1 \notin Bad
  <2>1. PICK f : f = Step(f, n)
    BY <1>2
  <2> DEFINE g == [i \in 0 .. n + 1 |-> IF i = n + 1 THEN TakeParam(f[n], ps, n + 1) ELSE f[i]]
  <2>2. ASSUME NEW i \in 0 .. n + 1
        PROVE  g[i] = IF i = 0 THEN start ELSE TakeParam(g[i - 1], ps, i)
    <3>1. CASE i = n + 1
      BY <3>1
    <3>2. CASE i # n + 1
      <4>1. g[i] = f[i] /\ i \in 0 .. n
        BY <3>2
      <4>2. i # 0 => g[i - 1] = f[i - 1]
        BY <4>1
      <4>3. f[i] = IF i = 0 THEN start ELSE TakeParam(f[i - 1], ps, i)
        BY <2>1, <4>1
      <4>4. QED
        BY <4>1, <4>2, <4>3
    <3>3. QED
      BY <3>1, <3>2
  <2>3. g = Step(g, n + 1)
    BY <2>2
  <2>4. QED
    BY <2>3
<1>3. Bad = {}
  <2>1. SUFFICES ASSUME Bad # {} PROVE FALSE
    OBVIOUS
  <2> HIDE DEF Bad
  <2>2. PICK n \in Bad : \A m \in Bad : n <= m
    <3>1. Bad \subseteq Nat
      BY DEF Bad
    <3>2. QED
      BY <2>1, <3>1, LeastNatural
  <2>3. n \in Nat
    BY DEF Bad
  <2>4. n # 0 /\ n - 1 \in Nat /\ n - 1 \notin Bad
    BY <1>1, <2>2, <2>3
  <2>5. (n - 1) + 1 \notin Bad
    BY <1>2, <2>4
  <2>6. QED
    BY <2>2, <2>3, <2>5
<1>4. PICK f : f = Step(f, Len(ps))
  BY <1>3
<1>5. Taken(c, ps) = Step(Taken(c, ps), Len(ps))
  BY <1>4 DEF Taken, start
<1>6. QED
  BY <1>5 DEF start

-----------------------------------------------------------------------------
(* Attributes.  ESC[...m leaves everything else as it was, and its colours *)
(* are colours.                                                            *)
Repainted(c, d) ==
  /\ SameCells(c, d) /\ d.saved_cursor = c.saved_cursor
  /\ d.cursor_visible = c.cursor_visible

LEMMA PaletteType ==
  ASSUME NEW n \in Nat
  PROVE  Palette(n) \in Colour
BY Sizes DEF Palette, Colour

LEMMA RepaintedTwice ==
  ASSUME NEW c, NEW d, NEW e, Repainted(c, d), Repainted(d, e)
  PROVE  Repainted(c, e)
BY DEF Repainted, SameCells, Stays

LEMMA SetColours ==
  ASSUME NEW c \in Ctx, NEW p \in Colour, NEW i \in BOOLEAN
  PROVE  /\ Repainted(c, [c EXCEPT !.fg = p]) /\ Repainted(c, [c EXCEPT !.bg = p])
         /\ Repainted(c, [c EXCEPT !.inverse = i])
         /\ Repainted(c, [c EXCEPT !.default_fg = p])
         /\ Repainted(c, [c EXCEPT !.default_bg = p])
BY DEF Repainted, SameCells, Stays, Ctx

LEMMA ResetColoursOnly ==
  ASSUME NEW c \in Ctx
  PROVE  Repainted(c, c) /\ Repainted(c, gfx_term_reset_attrib(c))
BY DEF Repainted, SameCells, Stays, Ctx, gfx_term_reset_attrib

LEMMA RenditionRepaints ==
  ASSUME NEW c \in Ctx, NEW p \in Nat
  PROVE  Repainted(c, Rendition(c, p))
<1>1. c.fg \in Nat /\ c.fg <= MaxColour /\ c.default_fg \in Colour /\ c.default_bg \in Colour
  BY Sizes DEF Ctx, Colour
<1>2. c.fg \div 8 \in Nat /\ (c.fg \div 8) % 2 \in 0 .. 1 /\ c.fg % 8 \in Nat /\ c.fg % 8 <= c.fg
  BY <1>1
<1>3. Bold(c.fg) \in Colour
  <2>1. c.fg \in Colour /\ c.fg + 8 \in Nat
    BY <1>1 DEF Ctx
  <2>2. QED
    BY <2>1, PaletteType DEF Bold
<1>4. c.fg % 8 \in Colour
  BY <1>1, <1>2, Sizes DEF Colour
<1>5. ASSUME p \in 30 .. 37 PROVE Palette(((c.fg \div 8) % 2) * 8 + p - 30) \in Colour
  <2>1. ((c.fg \div 8) % 2) * 8 + p - 30 \in Nat
    BY <1>2, <1>5
  <2>2. QED
    BY <2>1, PaletteType
<1>6. ASSUME p \in 40 .. 47 PROVE Palette(p - 40) \in Colour
  BY <1>6, PaletteType
<1>7. \/ Rendition(c, p) \in {c, gfx_term_reset_attrib(c)}
      \/ \E f \in Colour : Rendition(c, p) = [c EXCEPT !.fg = f]
      \/ \E b \in Colour : Rendition(c, p) = [c EXCEPT !.bg = b]
      \/ \E i \in BOOLEAN : Rendition(c, p) = [c EXCEPT !.inverse = i]
  <2>1. CASE p = 0
    BY <2>1 DEF Rendition
  <2>1c. CASE p = 7
    <3>1. Rendition(c, p) = [c EXCEPT !.inverse = TRUE]
      BY <2>1c DEF Rendition
    <3>2. QED
      BY <3>1
  <2>1d. CASE p = 27
    <3>1. Rendition(c, p) = [c EXCEPT !.inverse = FALSE]
      BY <2>1d DEF Rendition
    <3>2. QED
      BY <3>1
  <2>1a. CASE p = 1
    <3>1. Rendition(c, p) = [c EXCEPT !.fg = Bold(c.fg)]
      BY <2>1a DEF Rendition
    <3>2. QED
      BY <3>1, <1>3
  <2>1b. CASE p = 2
    <3>1. Rendition(c, p) = [c EXCEPT !.fg = c.fg % 8]
      BY <2>1b DEF Rendition
    <3>2. QED
      BY <3>1, <1>4
  <2>1e. CASE p = 39
    <3>1. Rendition(c, p) = [c EXCEPT !.fg = c.default_fg]
      BY <2>1e DEF Rendition
    <3>2. QED
      BY <3>1, <1>1
  <2>1f. CASE p = 49
    <3>1. Rendition(c, p) = [c EXCEPT !.bg = c.default_bg]
      BY <2>1f DEF Rendition
    <3>2. QED
      BY <3>1, <1>1
  <2>2. CASE p \in 30 .. 37
    <3>1. Rendition(c, p) = [c EXCEPT !.fg = Palette(((c.fg \div 8) % 2) * 8 + p - 30)]
      BY <2>2 DEF Rendition
    <3>2. QED
      BY <3>1, <1>5, <2>2
  <2>3. CASE p \in 40 .. 47
    <3>1. Rendition(c, p) = [c EXCEPT !.bg = Palette(p - 40)]
      BY <2>3 DEF Rendition
    <3>2. QED
      BY <3>1, <1>6, <2>3
  <2>4. CASE p \notin {0, 1, 2, 7, 27, 39, 49} \cup (30 .. 37) \cup (40 .. 47)
    BY <2>4 DEF Rendition
  <2>5. QED
    BY <2>1, <2>1a, <2>1b, <2>1c, <2>1d, <2>1e, <2>1f, <2>2, <2>3, <2>4
<1>8. 0 \in Colour
  BY Sizes DEF Colour
<1>9. TRUE \in BOOLEAN
  OBVIOUS
<1>10. QED
  BY <1>7, <1>8, <1>9, SetColours, ResetColoursOnly

LEMMA ParamRepaints ==
  ASSUME NEW c, NEW acc, Repainted(c, acc.c), NEW ps \in Seq(Nat), NEW i \in 1 .. Len(ps)
  PROVE  Repainted(c, TakeParam(acc, ps, i).c)
<1>1. acc.c \in Ctx
  BY DEF Repainted, SameCells
<1>2. ps[i] \in Nat
  OBVIOUS
<1>3. i + 2 <= Len(ps) => ps[i + 2] \in Nat
  OBVIOUS
<1>4. ASSUME i + 2 <= Len(ps)
      PROVE  /\ Repainted(acc.c, [acc.c EXCEPT !.fg = Palette(ps[i + 2])])
             /\ Repainted(acc.c, [acc.c EXCEPT !.bg = Palette(ps[i + 2])])
  BY <1>1, <1>3, <1>4, PaletteType, SetColours
<1>5. Repainted(acc.c, Rendition(acc.c, ps[i]))
  BY <1>1, <1>2, RenditionRepaints
<1>6. TakeParam(acc, ps, i).c = acc.c \/ Repainted(acc.c, TakeParam(acc, ps, i).c)
  BY <1>4, <1>5 DEF TakeParam, Extended
<1>7. QED
  BY <1>6, RepaintedTwice

LEMMA RenditionsRepaint ==
  ASSUME NEW c \in Ctx, NEW ps \in Seq(Nat)
  PROVE  Repainted(c, SelectGraphicRendition(c, ps))
<1> DEFINE f == Taken(c, ps)
           Bad == {i \in 0 .. Len(ps) : ~Repainted(c, f[i].c)}
<1>1. /\ f[0] = [c |-> c, skip |-> 0]
      /\ \A i \in 1 .. Len(ps) : f[i] = TakeParam(f[i - 1], ps, i)
  BY TakenOneByOne
<1> HIDE DEF f
<1>3. 0 \notin Bad
  <2>1. Repainted(c, c) /\ f[0].c = c
    BY <1>1, ResetColoursOnly
  <2>2. QED
    BY <2>1
<1>4. ASSUME NEW i \in 1 .. Len(ps), i - 1 \notin Bad PROVE i \notin Bad
  <2>1. Repainted(c, f[i - 1].c)
    BY <1>4
  <2>2. Repainted(c, TakeParam(f[i - 1], ps, i).c)
    BY <2>1, ParamRepaints
  <2>3. QED
    BY <1>1, <2>2
<1>5. Bad = {}
  <2>1. SUFFICES ASSUME Bad # {} PROVE FALSE
    OBVIOUS
  <2>2. Bad \subseteq Nat /\ Bad \subseteq 0 .. Len(ps)
    OBVIOUS
  <2> HIDE DEF Bad
  <2>3. PICK i \in Bad : \A j \in Bad : i <= j
    BY <2>1, <2>2, LeastNatural
  <2>4. i \in 1 .. Len(ps) /\ i - 1 \notin Bad
    BY <1>3, <2>2, <2>3
  <2>5. QED
    BY <1>4, <2>3, <2>4
<1>6. Repainted(c, gfx_term_reset_attrib(c))
  BY ResetColoursOnly
<1>7. ps # <<>> => Repainted(c, f[Len(ps)].c)
  BY <1>5
<1>8. QED
  BY <1>6, <1>7 DEF SelectGraphicRendition, f

-----------------------------------------------------------------------------
(* Which operation a final letter is. *)
LEMMA ParamType ==
  ASSUME NEW ps \in Seq(Nat), NEW i \in {1, 2}, NEW default \in Nat
  PROVE  Param(ps, i, default) \in Nat
BY DEF Param

CountedLetter(c, d, n, k) ==
  d \in {CursorUp(c, n), CursorDown(c, n), CursorRight(c, n), CursorLeft(c, n),
         CursorPosition(c, n, k), DeleteLines(c, n)}

LEMMA LetterCases ==
  ASSUME NEW c, NEW ch, NEW ps \in Seq(Nat), NEW d, d = Letter(c, ch, ps)
  PROVE  \/ d \in {c, HideCursor(c), BackTab(c), gfx_term_save_cursor(c)}
         \/ ch = "h" /\ CursorMode(ps) /\ d = ShowCursor(c)
         \/ \E mode \in Nat : d \in {EraseInLine(c, mode), EraseInDisplay(c, mode)}
         \/ \E n \in Nat, k \in Nat : CountedLetter(c, d, n, k)
         \/ ch = "L" /\ d = InsertLines(c, Param(ps, 1, 1))
         \/ d = SelectGraphicRendition(c, ps)
         \/ ch = "u" /\ d = gfx_term_restore_cursor(c)
<1> DEFINE n == Param(ps, 1, 1)
           k == Param(ps, 2, 1)
           m == Param(ps, 1, 0)
<1>1. n \in Nat /\ k \in Nat /\ m \in Nat
  BY ParamType
<1>2. CASE ch = "l" \/ ch = "h"
  BY <1>2 DEF Letter
<1>3. CASE ch = "K" \/ ch = "J"
  <2> HIDE DEF m
  <2>1. d \in {c, EraseInLine(c, m), EraseInDisplay(c, m)}
    BY <1>3 DEF Letter, m
  <2>2. QED
    BY <1>1, <2>1
<1>4. CASE ch \in {"A", "B", "C", "D", "M"}
  <2>1. CountedLetter(c, d, n, k)
    BY <1>4 DEF Letter, CountedLetter
  <2> HIDE DEF n, k
  <2>2. QED
    BY <1>1, <2>1
<1>5. CASE ch \in {"f", "H"}
  <2>1. CountedLetter(c, d, n, k)
    BY <1>5 DEF Letter, CountedLetter
  <2> HIDE DEF n, k
  <2>2. QED
    BY <1>1, <2>1
<1>6. CASE ch = "L"
  BY <1>6 DEF Letter
<1>7. CASE ch \in {"Z", "m", "s", "u"}
  BY <1>7 DEF Letter
<1>8. CASE ch \notin {"l", "h", "K", "J", "A", "B", "C", "D", "M", "f", "H", "L", "Z", "m",
                      "s", "u"}
  BY <1>8 DEF Letter
<1>9. QED
  BY <1>2, <1>3, <1>4, <1>5, <1>6, <1>7, <1>8

LEMMA PrivateCases ==
  ASSUME NEW c, NEW ch \in {"m", "c", "G"}, NEW ps \in Seq(Nat),
         NEW d, d = PrivateLetter(c, ch, ps)
  PROVE  \/ d = c
         \/ \E p \in Colour : d \in {[c EXCEPT !.default_fg = p], [c EXCEPT !.default_bg = p]}
         \/ d = PrintGlyph(c, ShapeOf("code", FALSE))
         \/ d \in {gfx_open_workstation(c), gfx_close_workstation(c), FormFeed(c)}
         \/ ch = "G" /\ ps[1] = 5 /\ d = gfx_escape(c, ps[2])
<1>1. CASE ch = "m"
  <2>1. CASE Len(ps) # 2 \/ ps[2] > Least(15, MaxColour)
    BY <1>1, <2>1 DEF PrivateLetter
  <2>2. CASE ~(Len(ps) # 2 \/ ps[2] > Least(15, MaxColour))
    <3>1. ps[2] \in Nat
      BY <2>2
    <3>2. ps[2] \in Colour
      BY <2>2, <3>1, Sizes DEF Least, Colour
    <3>3. d \in {c, [c EXCEPT !.default_fg = ps[2]], [c EXCEPT !.default_bg = ps[2]]}
      BY <1>1, <2>2 DEF PrivateLetter
    <3>4. QED
      BY <3>2, <3>3
  <2>3. QED
    BY <2>1, <2>2
<1>2. CASE ch = "c"
  BY <1>2 DEF PrivateLetter
<1>3. CASE ch = "G"
  <2>1. d = GsxCall(c, ps)
    BY <1>3 DEF PrivateLetter
  <2>2. CASE ps[1] \in {1, 2, 3}
    <3>1. d \in {gfx_open_workstation(c), gfx_close_workstation(c), FormFeed(c)}
      BY <2>1, <2>2 DEF GsxCall, gfx_clear_workstation
    <3>2. QED
      BY <3>1
  <2>3. CASE ps[1] = 5
    <3>1. d = gfx_escape(c, ps[2])
      BY <2>1, <2>3 DEF GsxCall
    <3>2. QED
      BY <1>3, <2>3, <3>1
  <2>4. CASE ps[1] \notin {1, 2, 3, 5}
    <3>1. d = c
      BY <2>1, <2>4 DEF GsxCall
    <3>2. QED
      BY <3>1
  <2>5. QED
    BY <2>2, <2>3, <2>4
<1>4. QED
  BY <1>1, <1>2, <1>3

-----------------------------------------------------------------------------
(* Types, whatever the host and the keys do.                               *)
LEMMA RepaintedSettles ==
  ASSUME NEW c, Settled(c), NEW d, Repainted(c, d)
  PROVE  Lands(c, d)
<1>1. At(c, d, c.cursor_row, c.cursor_col)
  BY DEF Repainted, SameCells, Stays, At
<1>2. QED
  BY <1>1, StayLands

LEMMA AnyEscapeLands ==
  ASSUME NEW c, Settled(c), NEW id
  PROVE  Lands(c, gfx_escape(c, id))
<1>1. CASE id \in 2 .. 10
  BY <1>1, EscapeLands
<1>2. c \in Ctx /\ 0 \in Colour
  BY Sizes DEF Settled, Colour
<1>3. CASE id = 13
  <2>1. Lands(c, [c EXCEPT !.inverse = TRUE])
    BY <1>2, AttributesLand
  <2>2. QED
    BY <1>3, <2>1 DEF gfx_escape
<1>4. CASE id = 14
  <2>1. Lands(c, [c EXCEPT !.inverse = FALSE])
    BY <1>2, AttributesLand
  <2>2. QED
    BY <1>4, <2>1 DEF gfx_escape
<1>5. CASE id \notin (2 .. 10) \cup {13, 14}
  <2>1. gfx_escape(c, id) = c
    BY <1>5 DEF gfx_escape
  <2>2. Lands(c, c)
    BY <1>2, ResetColoursOnly, RepaintedSettles
  <2>3. QED
    BY <2>1, <2>2
<1>6. QED
  BY <1>1, <1>3, <1>4, <1>5

LEMMA LetterLands ==
  ASSUME NEW c, Settled(c), NEW ch, NEW ps \in Seq(Nat), NEW d, d = Letter(c, ch, ps)
  PROVE  Landed(d) /\ ((ch = "u" => c.saved_cursor[1] < c.HEIGHT) => Lands(c, d))
<1>1. c \in Ctx
  BY DEF Settled
<1>2. \/ d \in {c, HideCursor(c), BackTab(c), gfx_term_save_cursor(c)}
      \/ ch = "h" /\ CursorMode(ps) /\ d = ShowCursor(c)
      \/ \E mode \in Nat : d \in {EraseInLine(c, mode), EraseInDisplay(c, mode)}
      \/ \E n \in Nat, k \in Nat : CountedLetter(c, d, n, k)
      \/ ch = "L" /\ d = InsertLines(c, Param(ps, 1, 1))
      \/ d = SelectGraphicRendition(c, ps)
      \/ ch = "u" /\ d = gfx_term_restore_cursor(c)
  BY LetterCases
<1>3. CASE d \in {c, HideCursor(c), BackTab(c), gfx_term_save_cursor(c), ShowCursor(c)}
  <2>1. /\ Lands(c, c) /\ Lands(c, HideCursor(c)) /\ Lands(c, BackTab(c))
        /\ Lands(c, gfx_term_save_cursor(c)) /\ Lands(c, ShowCursor(c))
    BY <1>1, ResetColoursOnly, RepaintedSettles, VisibilityLands, ColumnMotionsLand, SaveLands
  <2>2. Lands(c, d)
    BY <1>3, <2>1
  <2>3. QED
    BY <2>2 DEF Lands
<1>4. ASSUME NEW mode \in Nat, d \in {EraseInLine(c, mode), EraseInDisplay(c, mode)}
      PROVE  Lands(c, d)
  <2>1. Lands(c, EraseInLine(c, mode)) /\ Lands(c, EraseInDisplay(c, mode))
    BY <1>1, EraseInLineAt, StayLands, EraseInDisplayLands
  <2>2. QED
    BY <1>4, <2>1
<1>5. ASSUME NEW n \in Nat, NEW k \in Nat, CountedLetter(c, d, n, k) PROVE Lands(c, d)
  <2>1. /\ Lands(c, CursorUp(c, n)) /\ Lands(c, CursorDown(c, n))
        /\ Lands(c, CursorRight(c, n)) /\ Lands(c, CursorLeft(c, n))
        /\ Lands(c, CursorPosition(c, n, k)) /\ Lands(c, DeleteLines(c, n))
    BY AddressingLands, LinesLand
  <2>2. QED
    BY <1>5, <2>1 DEF CountedLetter
<1>6. CASE d = InsertLines(c, Param(ps, 1, 1))
  <2>1. Param(ps, 1, 1) \in Nat
    BY ParamType
  <2>2. Lands(c, d)
    BY <1>6, <2>1, LinesLand
  <2>3. QED
    BY <2>2 DEF Lands
<1>7. CASE d = SelectGraphicRendition(c, ps)
  BY <1>1, <1>7, RenditionsRepaint, RepaintedSettles DEF Lands
<1>8. CASE ch = "u" /\ d = gfx_term_restore_cursor(c)
  BY <1>8, RecallLands DEF Lands
<1>9. QED
  BY <1>2, <1>3, <1>4, <1>5, <1>6, <1>7, <1>8 DEF Lands

LEMMA PrivateLands ==
  ASSUME NEW c, Settled(c), NEW ch \in {"m", "c", "G"}, NEW ps \in Seq(Nat),
         NEW d, d = PrivateLetter(c, ch, ps)
  PROVE  Lands(c, d)
<1>1. c \in Ctx
  BY DEF Settled
<1>2. \/ d = c
      \/ \E p \in Colour : d \in {[c EXCEPT !.default_fg = p], [c EXCEPT !.default_bg = p]}
      \/ d = PrintGlyph(c, ShapeOf("code", FALSE))
      \/ d \in {gfx_open_workstation(c), gfx_close_workstation(c), FormFeed(c)}
      \/ ch = "G" /\ ps[1] = 5 /\ d = gfx_escape(c, ps[2])
  BY PrivateCases
<1>3. CASE d = c
  BY <1>1, <1>3, ResetColoursOnly, RepaintedSettles
<1>4. ASSUME NEW p \in Colour, d \in {[c EXCEPT !.default_fg = p], [c EXCEPT !.default_bg = p]}
      PROVE  Lands(c, d)
  <2>1. TRUE \in BOOLEAN
    OBVIOUS
  <2>2. Repainted(c, d)
    BY <1>1, <1>4, <2>1, SetColours
  <2>3. QED
    BY <2>2, RepaintedSettles
<1>5. CASE d = PrintGlyph(c, ShapeOf("code", FALSE))
  <2>1. ShapeOf("code", FALSE) \in Shape
    BY ScannerAssumption DEF OtherBytes
  <2>2. QED
    BY <1>5, <2>1, PrintLands
<1>6. CASE d \in {gfx_open_workstation(c), gfx_close_workstation(c), FormFeed(c)}
  BY <1>6, OpenAndCloseLand, FormFeedLands
<1>7. CASE d = gfx_escape(c, ps[2])
  BY <1>7, AnyEscapeLands
<1>8. QED
  BY <1>2, <1>3, <1>4, <1>5, <1>6, <1>7

-----------------------------------------------------------------------------
(* The scanner alone: its state, its parameters and what is to be printed.  *)
Scanning ==
  /\ scn \in [next : States, private_mode_char : {"", "?", "#"},
              cmd_params : Seq(Values), alt_charset : BOOLEAN]
  /\ typed \in Seq(OtherBytes)
  /\ ParamsOpen

LEMMA DigitAppended ==
  ASSUME NEW ps \in Seq(Values), ps # <<>>, NEW ch \in DOMAIN Digit,
         Last(ps) * 10 + Digit[ch] \in Values
  PROVE  Appended(ps, ch) \in Seq(Values) /\ Appended(ps, ch) # <<>>
<1>1. Len(ps) \in 1 .. Len(ps) /\ ps[Len(ps)] = Last(ps)
  BY DEF Last
<1>2. Appended(ps, ch) = [i \in 1 .. Len(ps) |-> IF i = Len(ps) THEN Last(ps) * 10 + Digit[ch]
                                                 ELSE ps[i]]
  BY <1>1 DEF Appended
<1> DEFINE new == [i \in 1 .. Len(ps) |-> IF i = Len(ps) THEN Last(ps) * 10 + Digit[ch]
                                          ELSE ps[i]]
<1>3. \A i \in 1 .. Len(ps) : new[i] \in Values
  BY <1>1
<1>4. new \in Seq(Values) /\ Len(new) = Len(ps)
  BY <1>3
<1>5. QED
  BY <1>1, <1>2, <1>4

LEMMA ShortSequences ==
  ASSUME NEW S, NEW a \in S
  PROVE  /\ <<>> \in Seq(S) /\ <<a>> \in Seq(S) /\ <<a, a>> \in Seq(S)
         /\ <<a>> # <<>> /\ <<a, a>> # <<>>
OBVIOUS

LEMMA WiderSequences ==
  ASSUME NEW S, NEW T, S \subseteq T, NEW s \in Seq(S)
  PROVE  s \in Seq(T) /\ (s # <<>> => Head(s) \in S)
<1>1. \A i \in 1 .. Len(s) : s[i] \in S /\ s[i] \in T
  OBVIOUS
<1>2. s = [i \in 1 .. Len(s) |-> s[i]] /\ Len(s) \in Nat
  OBVIOUS
<1>3. s \in Seq(T)
  BY <1>1, <1>2
<1>4. s # <<>> => Head(s) = s[1] /\ 1 \in 1 .. Len(s)
  OBVIOUS
<1>5. QED
  BY <1>1, <1>3, <1>4

LEMMA Semicolon == DOMAIN Digit \cap {";", "?", "#"} = {}
BY DEF Digit

LEMMA ScannerStep ==
  ASSUME Scanning, NEW ch, Consume(ch), typed' \in Seq(OtherBytes)
  PROVE  Scanning'
<1> DEFINE Back(state) == scn' = [scn EXCEPT !.next = state, !.cmd_params = <<>>]
           Idle == UNCHANGED scn
           To(state) == scn' = [scn EXCEPT !.next = state]
<1>0. 0 \in Values /\ Values \subseteq Nat
  BY ScannerAssumption
<1>1. CASE ch \in Control
  BY <1>1 DEF Consume, ControlChar, Scanning, ParamsOpen
<1>2. CASE state_fun_final_letter(ch)
  <2>1. scn' = [scn EXCEPT !.next = "normaltext", !.cmd_params = <<>>]
    BY <1>2 DEF state_fun_final_letter, BackToNormal
  <2>2. <<>> \in Seq(Values)
    OBVIOUS
  <2>3. QED
    BY <2>1, <2>2 DEF Scanning, ParamsOpen, States
<1>3. CASE scn.next = "normaltext" /\ state_fun_normaltext(ch)
  BY <1>3 DEF state_fun_normaltext, Go, Scanning, ParamsOpen, States
<1>4. CASE scn.next = "waitsquarebracket" /\ state_fun_waitsquarebracket(ch)
  <2>1. CASE ch = "["
    BY <1>4, <2>1 DEF state_fun_waitsquarebracket, Scanning, ParamsOpen, States
  <2>2. CASE ch = "("
    BY <1>4, <2>2 DEF state_fun_waitsquarebracket, Go, Scanning, ParamsOpen, States
  <2>3. CASE ch \notin {"[", "("}
    <3>1. scn' = [scn EXCEPT !.next = "normaltext"]
      BY <1>4, <2>3 DEF state_fun_waitsquarebracket
    <3>2. QED
      BY <1>4, <3>1 DEF Scanning, ParamsOpen, States
  <2>4. QED
    BY <2>1, <2>2, <2>3
<1>5. CASE scn.next = "alt_charset" /\ state_fun_alt_charset(ch)
  BY <1>5 DEF state_fun_alt_charset, Scanning, ParamsOpen, States
<1>6. CASE scn.next = "selectescape" /\ state_fun_selectescape(ch)
  <2>1. ASSUME NEW ps \in Seq(Values), ps # <<>>, NEW private \in {"", "?", "#"},
               scn' = [scn EXCEPT !.next = "read_digit", !.cmd_params = ps,
                                  !.private_mode_char = private]
        PROVE  Scanning'
    BY <1>6, <2>1 DEF Scanning, ParamsOpen, States
  <2>2. CASE ch \in DOMAIN Digit
    <3>0. /\ Digit[ch] \in Values
          /\ scn' = [scn EXCEPT !.next = "read_digit", !.cmd_params = <<Digit[ch]>>,
                                !.private_mode_char = scn.private_mode_char]
      BY <1>6, <2>2, Semicolon DEF state_fun_selectescape
    <3>1. <<Digit[ch]>> \in Seq(Values) /\ <<Digit[ch]>> # <<>>
      BY <3>0, ShortSequences
    <3>2. scn' = [scn EXCEPT !.next = "read_digit", !.cmd_params = <<Digit[ch]>>,
                             !.private_mode_char = scn.private_mode_char]
      BY <3>0
    <3>3. scn.private_mode_char \in {"", "?", "#"}
      BY DEF Scanning
    <3>4. QED
      BY <2>1, <3>1, <3>2, <3>3
  <2>3. CASE ch = ";"
    <3>1. scn' = [scn EXCEPT !.next = "read_digit", !.cmd_params = <<0, 0>>,
                             !.private_mode_char = scn.private_mode_char]
      BY <1>6, <2>3 DEF state_fun_selectescape, Digit
    <3>2. scn.private_mode_char \in {"", "?", "#"}
      BY DEF Scanning
    <3>3. <<0, 0>> \in Seq(Values) /\ <<0, 0>> # <<>>
      BY <1>0, ShortSequences
    <3>4. QED
      BY <2>1, <3>1, <3>2, <3>3
  <2>4. CASE ch \in {"?", "#"}
    <3>1. scn' = [scn EXCEPT !.next = "read_digit", !.cmd_params = <<0>>,
                             !.private_mode_char = ch]
      BY <1>6, <2>4 DEF state_fun_selectescape, Digit
    <3>2. <<0>> \in Seq(Values)
      BY <1>0
    <3>3. QED
      BY <2>1, <2>4, <3>1, <3>2
  <2>5. CASE ch \notin DOMAIN Digit \cup {";", "?", "#"}
    BY <1>2, <1>6, <2>5 DEF state_fun_selectescape
  <2>6. QED
    BY <2>2, <2>3, <2>4, <2>5
<1>7. CASE scn.next = "read_digit" /\ state_fun_read_digit(ch)
  <2>0. scn.cmd_params \in Seq(Values) /\ scn.cmd_params # <<>>
    BY <1>7 DEF Scanning, ParamsOpen
  <2>1. ASSUME NEW ps \in Seq(Values), ps # <<>>, scn' = [scn EXCEPT !.cmd_params = ps]
        PROVE  Scanning'
    BY <1>7, <2>1 DEF Scanning, ParamsOpen, States
  <2>2. CASE ch \in DOMAIN Digit
    <3>1. /\ Last(scn.cmd_params) * 10 + Digit[ch] \in Values
          /\ scn' = [scn EXCEPT !.cmd_params = Appended(scn.cmd_params, ch)]
      BY <1>7, <2>2, Semicolon DEF state_fun_read_digit
    <3>2. Appended(scn.cmd_params, ch) \in Seq(Values) /\ Appended(scn.cmd_params, ch) # <<>>
      BY <2>0, <2>2, <3>1, DigitAppended
    <3>3. QED
      BY <2>1, <3>1, <3>2
  <2>3. CASE ch = ";"
    <3>1. scn' = [scn EXCEPT !.cmd_params = Append(scn.cmd_params, 0)]
      BY <1>7, <2>3 DEF state_fun_read_digit, Digit
    <3>2. Append(scn.cmd_params, 0) \in Seq(Values) /\ Append(scn.cmd_params, 0) # <<>>
      <4>1. 0 \in Values
        BY <1>0
      <4>2. QED
        BY <2>0, <4>1
    <3>3. QED
      BY <2>1, <3>1, <3>2
  <2>4. CASE ch \notin DOMAIN Digit \cup {";"}
    BY <1>2, <1>7, <2>4 DEF state_fun_read_digit
  <2>5. QED
    BY <2>2, <2>3, <2>4
<1>8. QED
  BY <1>1, <1>3, <1>4, <1>5, <1>6, <1>7 DEF Consume, Scanning, States

LEMMA KeyStrings == PrintScreen \in Seq(OtherBytes) /\ Lines \in Seq(OtherBytes)
BY DEF PrintScreen, Lines, OtherBytes

LEMMA ScanningStep == Scanning /\ [Next]_vars => Scanning'
<1> SUFFICES ASSUME Scanning, [Next]_vars PROVE Scanning'
  OBVIOUS
<1>0. typed \in Seq(OtherBytes)
  BY DEF Scanning
<1>1. ASSUME NEW ch \in HostBytes, HostByte(ch) PROVE Scanning'
  BY <1>0, <1>1, ScannerStep DEF HostByte
<1>2. CASE KeyPressed
  BY <1>2, KeyStrings DEF KeyPressed, Scanning, ParamsOpen
<1>3. CASE KeyPrints
  <2>1. typed' \in Seq(OtherBytes)
    BY <1>0, <1>3 DEF KeyPrints
  <2>2. QED
    BY <1>3, <2>1, ScannerStep DEF KeyPrints
<1>4. CASE UNCHANGED vars
  BY <1>4 DEF vars, Scanning, ParamsOpen
<1>5. QED
  BY <1>1, <1>2, <1>3, <1>4 DEF Next

LEMMA ScanningInit == Init => Scanning
<1>1. <<>> \in Seq(Values) /\ <<>> \in Seq(OtherBytes)
  OBVIOUS
<1>2. ASSUME NEW ps \in Seq(Values),
             scn = [next |-> "normaltext", private_mode_char |-> "", cmd_params |-> ps,
                    alt_charset |-> FALSE]
      PROVE  /\ scn \in [next : States, private_mode_char : {"", "?", "#"},
                         cmd_params : Seq(Values), alt_charset : BOOLEAN]
             /\ scn.cmd_params = ps /\ scn.next = "normaltext"
  BY <1>2 DEF States
<1>3. QED
  BY <1>1, <1>2 DEF Init, Scanning, ParamsOpen

LEMMA ScannerKeeps == Spec => []Scanning
BY ScanningInit, ScanningStep, PTL DEF Spec

(* The digit states, and no others, have a parameter to write to, for every *)
(* alphabet and whatever the host and the keys do: cmd_params never         *)
(* overflows backwards and nothing is inherited from an aborted sequence.   *)
THEOREM ParametersAreOpen == Spec => []ParamsOpen
<1>1. Scanning => ParamsOpen
  BY DEF Scanning
<1>2. QED
  BY <1>1, ScannerKeeps, PTL

-----------------------------------------------------------------------------
(* What one byte does to the page. *)
Controls(d) == d \in {CarriageReturn(ctx), LineFeed(ctx), Tab(ctx), Backspace(ctx),
                      FormFeed(ctx), ResetTerminal(ctx), ctx}

LEMMA ByteCases ==
  ASSUME Scanning, NEW ch \in HostBytes \cup OtherBytes, Consume(ch)
  PROVE  \/ UNCHANGED ctx
         \/ \E g \in Shape : Draw(PrintGlyph(ctx, g))
         \/ \E d : Controls(d) /\ Draw(d)
         \/ state_fun_final_letter(ch) /\ scn.next \in {"selectescape", "read_digit"}
<1>1. CASE ch \in Control
  <2> DEFINE d == CASE ch = "CR"  -> CarriageReturn(ctx)
                    [] ch = "LF"  -> LineFeed(ctx)
                    [] ch = "TAB" -> Tab(ctx)
                    [] ch \in {"BS", "DEL"} -> Backspace(ctx)
                    [] ch = "FF"  -> FormFeed(ctx)
                    [] OTHER      -> ctx
  <2>1. Draw(d)
    BY <1>1 DEF Consume, ControlChar
  <2>2. Controls(d)
    BY DEF Controls
  <2> HIDE DEF d
  <2>3. QED
    BY <2>1, <2>2
<1>2. CASE scn.next = "normaltext" /\ state_fun_normaltext(ch)
  <2>1. CASE ch = "ESC"
    BY <1>2, <2>1 DEF state_fun_normaltext, Go
  <2>2. CASE ch # "ESC"
    <3>1. Draw(PrintGlyph(ctx, ShapeOf(ch, scn.alt_charset)))
      BY <1>2, <2>2 DEF state_fun_normaltext
    <3>2. ShapeOf(ch, scn.alt_charset) \in Shape
      BY ScannerAssumption DEF Scanning
    <3>3. QED
      BY <3>1, <3>2
  <2>3. QED
    BY <2>1, <2>2
<1>3. CASE scn.next = "waitsquarebracket" /\ state_fun_waitsquarebracket(ch)
  <2>1. CASE ch \in {"[", "("}
    BY <1>3, <2>1 DEF state_fun_waitsquarebracket, Go
  <2>2. CASE ch = "ESC"
    <3>1. Draw(PrintGlyph(ctx, ShapeOf(ch, FALSE)))
      BY <1>3, <2>2 DEF state_fun_waitsquarebracket
    <3>2. ShapeOf(ch, FALSE) \in Shape
      BY ScannerAssumption
    <3>3. QED
      BY <3>1, <3>2
  <2>3. CASE ch \notin {"[", "(", "ESC"}
    <3> DEFINE d == IF ch = "c" THEN ResetTerminal(ctx) ELSE ctx
    <3>1. Draw(d)
      BY <1>3, <2>3 DEF state_fun_waitsquarebracket
    <3>2. Controls(d)
      BY DEF Controls
    <3> HIDE DEF d
    <3>3. QED
      BY <3>1, <3>2
  <2>4. QED
    BY <2>1, <2>2, <2>3
<1>4. CASE scn.next = "alt_charset" /\ state_fun_alt_charset(ch)
  BY <1>4 DEF state_fun_alt_charset
<1>5. CASE scn.next = "selectescape" /\ state_fun_selectescape(ch)
  <2>1. CASE ch \in DOMAIN Digit \cup {";", "?", "#"}
    BY <1>5, <2>1, Semicolon DEF state_fun_selectescape
  <2>2. CASE ch \notin DOMAIN Digit \cup {";", "?", "#"}
    BY <1>5, <2>2 DEF state_fun_selectescape
  <2>3. QED
    BY <2>1, <2>2
<1>6. CASE scn.next = "read_digit" /\ state_fun_read_digit(ch)
  <2>1. CASE ch \in DOMAIN Digit \cup {";"}
    BY <1>6, <2>1, Semicolon DEF state_fun_read_digit
  <2>2. CASE ch \notin DOMAIN Digit \cup {";"}
    BY <1>6, <2>2 DEF state_fun_read_digit
  <2>3. QED
    BY <2>1, <2>2
<1>7. QED
  BY <1>1, <1>2, <1>3, <1>4, <1>5, <1>6 DEF Consume, Scanning, States

LEMMA FinalLetterCases ==
  ASSUME Scanning, NEW ch, state_fun_final_letter(ch)
  PROVE  /\ scn.cmd_params \in Seq(Nat)
         /\ \E d : /\ Draw(d)
                   /\ \/ d = Letter(ctx, ch, scn.cmd_params)
                         /\ Commits(ch, scn.cmd_params) \subseteq Lax
                      \/ /\ ch \in {"m", "c", "G"} /\ scn.private_mode_char = "#"
                         /\ d = PrivateLetter(ctx, ch, scn.cmd_params)
                         /\ PrivateCommits(ch, scn.cmd_params) \subseteq Lax
<1> DEFINE ps == scn.cmd_params
           private == scn.private_mode_char = "#" /\ ch \in {"m", "c", "G"}
           plain == Letter(ctx, ch, ps)
           special == PrivateLetter(ctx, ch, ps)
<1>1. scn.cmd_params \in Seq(Nat)
  <2>1. Values \subseteq Nat /\ scn.cmd_params \in Seq(Values)
    BY ScannerAssumption DEF Scanning
  <2>2. QED
    BY <2>1, WiderSequences
<1>2. CASE private
  <2>1. Draw(special) /\ PrivateCommits(ch, ps) \subseteq Lax
    BY <1>2 DEF state_fun_final_letter
  <2>2. QED
    BY <1>1, <1>2, <2>1
<1>3. CASE ~private
  <2>1. Draw(plain) /\ Commits(ch, ps) \subseteq Lax
    BY <1>3 DEF state_fun_final_letter
  <2>2. QED
    BY <1>1, <2>1
<1>4. QED
  BY <1>2, <1>3

LEMMA ByteSettles ==
  ASSUME Scanning, Settled(ctx), NEW ch \in HostBytes \cup OtherBytes, Consume(ch)
  PROVE  Settled(ctx') /\ ("recall_off_screen" \notin Lax /\ OnScreen(ctx) => OnScreen(ctx'))
<1>1. ASSUME NEW d, Lands(ctx, d), Draw(d)
      PROVE  Settled(ctx') /\ (OnScreen(ctx) => OnScreen(ctx'))
  BY <1>1, EndOfCharSettles DEF Draw, Lands
<1>2. CASE UNCHANGED ctx
  BY <1>2
<1>3. ASSUME NEW g \in Shape, Draw(PrintGlyph(ctx, g))
      PROVE  Settled(ctx') /\ (OnScreen(ctx) => OnScreen(ctx'))
  BY <1>1, <1>3, PrintLands
<1>4. ASSUME NEW d, Controls(d), Draw(d)
      PROVE  Settled(ctx') /\ (OnScreen(ctx) => OnScreen(ctx'))
  <2>1. Lands(ctx, ctx)
    BY ResetColoursOnly, RepaintedSettles DEF Settled
  <2>2. Lands(ctx, d)
    BY <1>4, <2>1, ColumnMotionsLand, LineFeedLands, FormFeedLands, ResetLands
       DEF Controls
  <2>3. QED
    BY <1>1, <1>4, <2>2
<1>5. CASE state_fun_final_letter(ch)
  <2> DEFINE ps == scn.cmd_params
  <2>1. ps \in Seq(Nat)
    BY <1>5, FinalLetterCases
  <2>2. PICK d : /\ Draw(d)
                 /\ \/ d = Letter(ctx, ch, ps) /\ Commits(ch, ps) \subseteq Lax
                    \/ ch \in {"m", "c", "G"} /\ d = PrivateLetter(ctx, ch, ps)
    BY <1>5, FinalLetterCases
  <2> HIDE DEF ps
  <2>3. CASE ch \in {"m", "c", "G"} /\ d = PrivateLetter(ctx, ch, ps)
    BY <1>1, <2>1, <2>2, <2>3, PrivateLands
  <2>4. CASE d = Letter(ctx, ch, ps) /\ Commits(ch, ps) \subseteq Lax
    <3>1. Landed(d) /\ ((ch = "u" => ctx.saved_cursor[1] < ctx.HEIGHT) => Lands(ctx, d))
      BY <2>1, <2>4, LetterLands
    <3>2. ctx.saved_cursor[1] \in Nat /\ ctx.HEIGHT \in Nat
      BY Sizes DEF Settled, Ctx, Rows
    <3>3. "recall_off_screen" \notin Lax => Lands(ctx, d)
      BY <2>4, <3>1, <3>2 DEF Commits
    <3>4. Settled(ctx')
      BY <2>2, <3>1, EndOfCharSettles DEF Draw
    <3>5. QED
      BY <1>1, <2>2, <3>3, <3>4
  <2>5. QED
    BY <2>2, <2>3, <2>4
<1>6. QED
  BY <1>2, <1>3, <1>4, <1>5, ByteCases

LEMMA StepSettles ==
  ASSUME Scanning, Settled(ctx), [Next]_vars
  PROVE  Settled(ctx') /\ ("recall_off_screen" \notin Lax /\ OnScreen(ctx) => OnScreen(ctx'))
<1> DEFINE Goal == Settled(ctx')
                   /\ ("recall_off_screen" \notin Lax /\ OnScreen(ctx) => OnScreen(ctx'))
<1>1. ASSUME NEW ch \in HostBytes, HostByte(ch) PROVE Goal
  BY <1>1, ByteSettles DEF HostByte
<1>2. CASE KeyPressed
  BY <1>2, ToggleFontSettles, ToggleLinesSettles DEF KeyPressed
<1>3. CASE KeyPrints
  <2>1. typed # <<>> /\ typed \in Seq(OtherBytes)
    BY <1>3 DEF KeyPrints, Scanning
  <2>2. Head(typed) \in OtherBytes
    BY <2>1, WiderSequences
  <2>3. QED
    BY <1>3, <2>2, ByteSettles DEF KeyPrints
<1>4. CASE UNCHANGED vars
  BY <1>4 DEF vars
<1>5. QED
  BY <1>1, <1>2, <1>3, <1>4 DEF Next

(* The context is a legal one between any two bytes, for every alphabet,    *)
(* parameter range and screen, and whatever the host and the keys do: the   *)
(* cursor never leaves the rows and columns there are, with any sequence.   *)
THEOREM ScannerTypeCorrect == Spec => []TypeOK
<1> DEFINE IInv == Scanning /\ Settled(ctx)
<1>1. Init => IInv
  BY ScanningInit, PowerUpSettles DEF Init
<1>2. IInv /\ [Next]_vars => IInv'
  <2>1. IInv /\ [Next]_vars => Settled(ctx')
    BY StepSettles
  <2>2. QED
    BY <2>1, ScanningStep DEF Settled, SavedOK
<1>3. IInv => TypeOK
  BY DEF TypeOK, Scanning, Settled
<1>4. QED
  BY <1>1, <1>2, <1>3, PTL DEF Spec

(* Nor does it leave the screen, when no position is recalled that a resize *)
(* has put below it: what the other hazards of the host do stays on it.     *)
LEMMA ScannerOnScreen ==
  ASSUME "recall_off_screen" \notin Lax
  PROVE  Spec => [](Scanning /\ Settled(ctx) /\ OnScreen(ctx))
<1> DEFINE IInv == Scanning /\ Settled(ctx) /\ OnScreen(ctx)
<1>1. Init => IInv
  BY ScanningInit, PowerUpSettles DEF Init
<1>2. IInv /\ [Next]_vars => IInv'
  <2>1. IInv /\ [Next]_vars => Settled(ctx') /\ OnScreen(ctx')
    BY StepSettles
  <2>2. QED
    BY <2>1, ScanningStep DEF Settled, SavedOK, OnScreen
<1>3. QED
  BY <1>1, <1>2, PTL DEF Spec

-----------------------------------------------------------------------------
(* What a byte does to the page of a host that keeps to its conditions.     *)
Proper(c, d) == Good(d) /\ (OneStep(c, d) \/ Recolours(c, d))

LEMMA WorksIsProper ==
  ASSUME NEW c, NEW d, Works(c, d) \/ Ghostless(c, d)
  PROVE  Proper(c, d)
BY DEF Proper, Works, Ghostless

LEMMA RepaintedIsProper ==
  ASSUME NEW c, Good(c), NEW d, Repainted(c, d)
  PROVE  Proper(c, EndOfChar(d))
<1>1. EndOfChar(d) = d /\ Good(d) /\ Recolours(c, d)
  BY RecolouredWorks DEF Repainted
<1>2. QED
  BY <1>1 DEF Proper

LEMMA NothingIsProper ==
  ASSUME NEW c, Good(c)
  PROVE  Proper(c, EndOfChar(c))
BY RepaintedIsProper, ResetColoursOnly, GoodFacts

LEMMA ErasureIsProper ==
  ASSUME NEW c, Good(c), NEW mode
  PROVE  Proper(c, EndOfChar(EraseInLine(c, mode))) /\ Proper(c, EndOfChar(EraseInDisplay(c, mode)))
<1>1. Proper(c, EndOfChar(EraseInLine(c, mode)))
  BY EraseInLineWorks, WorksIsProper
<1>2. CASE mode = 2
  <2>1. EraseInDisplay(c, mode) = FormFeed(c)
    BY <1>2 DEF EraseInDisplay
  <2>2. Works(c, EndOfChar(FormFeed(c)))
    BY FormFeedWorks
  <2>3. QED
    BY <1>1, <2>1, <2>2, WorksIsProper
<1>3. CASE mode # 2
  BY <1>1, <1>3, EraseInDisplayWorks, WorksIsProper
<1>4. QED
  BY <1>2, <1>3

LEMMA LetterIsProper ==
  ASSUME NEW c, Good(c), NEW ch, NEW ps \in Seq(Nat), NEW d, d = Letter(c, ch, ps),
         ch = "h" /\ CursorMode(ps) => ~c.cursor_visible,
         ch = "L" => c.cursor_row + Param(ps, 1, 1) <= c.HEIGHT,
         ch = "u" => c.saved_cursor[1] < c.HEIGHT
  PROVE  Proper(c, EndOfChar(d))
<1>1. c \in Ctx /\ Settled(c)
  BY GoodFacts
<1>2. \/ d \in {c, HideCursor(c), BackTab(c), gfx_term_save_cursor(c)}
      \/ ch = "h" /\ CursorMode(ps) /\ d = ShowCursor(c)
      \/ \E mode \in Nat : d \in {EraseInLine(c, mode), EraseInDisplay(c, mode)}
      \/ \E n \in Nat, k \in Nat : CountedLetter(c, d, n, k)
      \/ ch = "L" /\ d = InsertLines(c, Param(ps, 1, 1))
      \/ d = SelectGraphicRendition(c, ps)
      \/ ch = "u" /\ d = gfx_term_restore_cursor(c)
  BY LetterCases
<1>3. CASE d \in {c, HideCursor(c), BackTab(c), gfx_term_save_cursor(c)}
  <2>1. /\ Works(c, EndOfChar(HideCursor(c))) /\ Works(c, EndOfChar(BackTab(c)))
        /\ Works(c, EndOfChar(gfx_term_save_cursor(c)))
    BY HideWorks, ColumnMotionsWork, SaveWorks
  <2>2. QED
    BY <1>3, <2>1, WorksIsProper, NothingIsProper
<1>4. CASE ch = "h" /\ CursorMode(ps) /\ d = ShowCursor(c)
  BY <1>4, ShowWorks, WorksIsProper
<1>5. ASSUME NEW mode \in Nat, d \in {EraseInLine(c, mode), EraseInDisplay(c, mode)}
      PROVE  Proper(c, EndOfChar(d))
  BY <1>5, ErasureIsProper
<1>6. ASSUME NEW n \in Nat, NEW k \in Nat, CountedLetter(c, d, n, k)
      PROVE  Proper(c, EndOfChar(d))
  <2>1. /\ Works(c, EndOfChar(CursorUp(c, n))) /\ Works(c, EndOfChar(CursorDown(c, n)))
        /\ Works(c, EndOfChar(CursorRight(c, n))) /\ Works(c, EndOfChar(CursorLeft(c, n)))
        /\ Works(c, EndOfChar(CursorPosition(c, n, k))) /\ Works(c, EndOfChar(DeleteLines(c, n)))
    BY AddressingWorks, EditsWork
  <2>2. Works(c, EndOfChar(d))
    BY <1>6, <2>1 DEF CountedLetter
  <2>3. QED
    BY <2>2, WorksIsProper
<1>7. CASE ch = "L" /\ d = InsertLines(c, Param(ps, 1, 1))
  <2>1. Param(ps, 1, 1) \in Nat
    BY ParamType
  <2>2. QED
    BY <1>7, <2>1, EditsWork, WorksIsProper
<1>8. CASE d = SelectGraphicRendition(c, ps)
  BY <1>1, <1>8, RenditionsRepaint, RepaintedIsProper
<1>9. CASE ch = "u" /\ d = gfx_term_restore_cursor(c)
  BY <1>9, RecallWorks, WorksIsProper
<1>10. QED
  BY <1>2, <1>3, <1>4, <1>5, <1>6, <1>7, <1>8, <1>9

LEMMA EscapeIsProper ==
  ASSUME NEW c, Good(c), NEW id \in Nat, id \in {2, 3} => ~c.cursor_visible
  PROVE  Proper(c, EndOfChar(gfx_escape(c, id)))
<1>1. CASE id \in 2 .. 10
  BY <1>1, EscapeWorks, WorksIsProper
<1>2. c \in Ctx
  BY GoodFacts
<1>3. /\ Repainted(c, [c EXCEPT !.inverse = TRUE]) /\ Repainted(c, [c EXCEPT !.inverse = FALSE])
  <2>1. 0 \in Colour /\ TRUE \in BOOLEAN /\ FALSE \in BOOLEAN
    BY Sizes DEF Colour
  <2>2. QED
    BY <1>2, <2>1, SetColours
<1>5. CASE id = 13
  BY <1>3, <1>5, RepaintedIsProper DEF gfx_escape
<1>6. CASE id = 14
  BY <1>3, <1>6, RepaintedIsProper DEF gfx_escape
<1>4. CASE id \notin (2 .. 10) \cup {13, 14}
  <2>1. gfx_escape(c, id) = c
    BY <1>4 DEF gfx_escape
  <2>2. QED
    BY <2>1, NothingIsProper
<1>7. QED
  BY <1>1, <1>4, <1>5, <1>6

LEMMA PrivateIsProper ==
  ASSUME NEW c, Good(c), NEW ch \in {"m", "c", "G"}, NEW ps \in Seq(Nat),
         NEW d, d = PrivateLetter(c, ch, ps),
         ch = "G" /\ ps[1] = 5 => ps[2] \in Nat /\ (ps[2] \in {2, 3} => ~c.cursor_visible)
  PROVE  Proper(c, EndOfChar(d))
<1>1. c \in Ctx
  BY GoodFacts
<1>2. \/ d = c
      \/ \E p \in Colour : d \in {[c EXCEPT !.default_fg = p], [c EXCEPT !.default_bg = p]}
      \/ d = PrintGlyph(c, ShapeOf("code", FALSE))
      \/ d \in {gfx_open_workstation(c), gfx_close_workstation(c), FormFeed(c)}
      \/ ch = "G" /\ ps[1] = 5 /\ d = gfx_escape(c, ps[2])
  BY PrivateCases
<1>3. CASE d = c
  BY <1>3, NothingIsProper
<1>4. ASSUME NEW p \in Colour, d \in {[c EXCEPT !.default_fg = p], [c EXCEPT !.default_bg = p]}
      PROVE  Proper(c, EndOfChar(d))
  <2>1. TRUE \in BOOLEAN
    OBVIOUS
  <2>2. Repainted(c, d)
    BY <1>1, <1>4, <2>1, SetColours
  <2>3. QED
    BY <2>2, RepaintedIsProper
<1>5. CASE d = PrintGlyph(c, ShapeOf("code", FALSE))
  <2>1. ShapeOf("code", FALSE) \in Shape
    BY ScannerAssumption DEF OtherBytes
  <2>2. QED
    BY <1>5, <2>1, PrintWorks, WorksIsProper
<1>6. CASE d \in {gfx_open_workstation(c), gfx_close_workstation(c), FormFeed(c)}
  <2>1. /\ Works(c, EndOfChar(gfx_open_workstation(c))) /\ Works(c, EndOfChar(FormFeed(c)))
        /\ Ghostless(c, EndOfChar(gfx_close_workstation(c)))
    BY OpenWorks, HideWorks, FormFeedWorks
  <2>2. QED
    BY <1>6, <2>1, WorksIsProper
<1>7. CASE ch = "G" /\ ps[1] = 5 /\ d = gfx_escape(c, ps[2])
  BY <1>7, EscapeIsProper
<1>8. QED
  BY <1>2, <1>3, <1>4, <1>5, <1>6, <1>7

-----------------------------------------------------------------------------
(* What the host must not do for the page to be a terminal's: show a cursor *)
(* that is shown, insert lines past the bottom, recall a position that has  *)
(* fallen off the screen, or send a graphics call that lacks parameters.    *)
(* The calls that draw are proved with the workstation.                     *)
HostCareful ==
  {"show_shown", "insert_past_bottom", "recall_off_screen", "short_call", "figure"}
    \cap Lax = {}

LEMMA FinalLetterIsProper ==
  ASSUME HostCareful, Scanning, Good(ctx), NEW ch, state_fun_final_letter(ch)
  PROVE  Proper(ctx, ctx')
<1> DEFINE ps == scn.cmd_params
<1>1. ps \in Seq(Nat)
  BY FinalLetterCases
<1>2. PICK d : /\ Draw(d)
               /\ \/ d = Letter(ctx, ch, ps) /\ Commits(ch, ps) \subseteq Lax
                  \/ /\ ch \in {"m", "c", "G"} /\ d = PrivateLetter(ctx, ch, ps)
                     /\ PrivateCommits(ch, ps) \subseteq Lax
  BY FinalLetterCases
<1> HIDE DEF ps
<1>3. CASE d = Letter(ctx, ch, ps) /\ Commits(ch, ps) \subseteq Lax
  <2>1. ch = "h" /\ CursorMode(ps) => ~ctx.cursor_visible
    BY <1>3 DEF HostCareful, Commits
  <2>2. ch = "L" => ctx.cursor_row + Param(ps, 1, 1) <= ctx.HEIGHT
    <3>1. Param(ps, 1, 1) \in Nat /\ ctx.cursor_row \in Nat /\ ctx.HEIGHT \in Nat
      BY <1>1, ParamType, GoodFacts
    <3>2. QED
      BY <1>3, <3>1 DEF HostCareful, Commits
  <2>3. ch = "u" => ctx.saved_cursor[1] < ctx.HEIGHT
    <3>1. ctx.saved_cursor[1] \in Nat /\ ctx.HEIGHT \in Nat
      BY GoodFacts, Sizes DEF Ctx, Rows
    <3>2. QED
      BY <1>3, <3>1 DEF HostCareful, Commits
  <2>4. Proper(ctx, EndOfChar(d))
    BY <1>1, <1>3, <2>1, <2>2, <2>3, LetterIsProper
  <2>5. QED
    BY <1>2, <2>4 DEF Draw
<1>4. CASE /\ ch \in {"m", "c", "G"} /\ d = PrivateLetter(ctx, ch, ps)
           /\ PrivateCommits(ch, ps) \subseteq Lax
  <2>1. ASSUME ch = "G", ps[1] = 5
        PROVE  ps[2] \in Nat /\ (ps[2] \in {2, 3} => ~ctx.cursor_visible)
    <3>1. Len(ps) >= 2
      BY <1>1, <1>4, <2>1 DEF HostCareful, PrivateCommits
    <3>2. ps[2] \in {2, 3} => ~ctx.cursor_visible
      BY <1>4, <2>1, <3>1 DEF HostCareful, PrivateCommits
    <3>3. QED
      BY <1>1, <3>1, <3>2
  <2>2. Proper(ctx, EndOfChar(d))
    BY <1>1, <1>4, <2>1, PrivateIsProper
  <2>3. QED
    BY <1>2, <2>2 DEF Draw
<1>5. QED
  BY <1>2, <1>3, <1>4

LEMMA ByteIsProper ==
  ASSUME HostCareful, Scanning, Good(ctx), NEW ch \in HostBytes \cup OtherBytes, Consume(ch)
  PROVE  Proper(ctx, ctx') \/ UNCHANGED ctx
<1>1. ASSUME NEW g \in Shape, Draw(PrintGlyph(ctx, g)) PROVE Proper(ctx, ctx')
  BY <1>1, PrintWorks, WorksIsProper DEF Draw
<1>2. ASSUME NEW d, Controls(d), Draw(d) PROVE Proper(ctx, ctx')
  <2>1. /\ Works(ctx, EndOfChar(CarriageReturn(ctx))) /\ Works(ctx, EndOfChar(Tab(ctx)))
        /\ Works(ctx, EndOfChar(Backspace(ctx))) /\ Works(ctx, EndOfChar(LineFeed(ctx)))
        /\ Works(ctx, EndOfChar(FormFeed(ctx))) /\ Works(ctx, EndOfChar(ResetTerminal(ctx)))
    BY ColumnMotionsWork, FeedWorks, FormFeedWorks, ResetWorks
  <2>2. Proper(ctx, EndOfChar(d))
    BY <1>2, <2>1, WorksIsProper, NothingIsProper DEF Controls
  <2>3. QED
    BY <1>2, <2>2 DEF Draw
<1>3. QED
  BY <1>1, <1>2, ByteCases, FinalLetterIsProper

LEMMA ProperIsLogical ==
  ASSUME Good(ctx), Proper(ctx, ctx')
  PROVE  Good(ctx') /\ Logical!Next
<1>1. Good(ctx') /\ ctx' \in Ctx
  BY GoodFacts DEF Proper
<1>2. CASE OneStep(ctx, ctx')
  BY <1>1, <1>2, OneStepIsLogical
<1>3. CASE Recolours(ctx, ctx')
  BY <1>1, <1>3, FlagsAreLogical DEF Logical!Next
<1>4. QED
  BY <1>1, <1>2, <1>3 DEF Proper

LEMMA NoChangeIsLogical ==
  ASSUME UNCHANGED ctx
  PROVE  UNCHANGED Logical!vars
BY DEF Logical!vars, Page

LEMMA CarefulStep ==
  ASSUME HostCareful, Scanning, Good(ctx), [Next]_vars
  PROVE  Good(ctx') /\ [Logical!Next]_(Logical!vars)
<1>1. ASSUME NEW ch \in HostBytes \cup OtherBytes, Consume(ch)
      PROVE  Good(ctx') /\ [Logical!Next]_(Logical!vars)
  BY <1>1, ByteIsProper, ProperIsLogical, NoChangeIsLogical
<1>2. CASE UNCHANGED ctx
  BY <1>2, NoChangeIsLogical
<1>3. ASSUME NEW edge \in Colour,
             ctx' \in {gfx_toggle_font_height(ctx, edge), gfx_toggle_lines(ctx, edge)}
      PROVE  Good(ctx') /\ [Logical!Next]_(Logical!vars)
  BY <1>3, TogglesWork, ResizeIsLogical DEF Logical!Next
<1>4. CASE \E ch \in HostBytes : HostByte(ch)
  BY <1>1, <1>4 DEF HostByte
<1>5. CASE KeyPressed
  BY <1>2, <1>3, <1>5 DEF KeyPressed
<1>6. CASE KeyPrints
  <2>1. typed # <<>> /\ typed \in Seq(OtherBytes)
    BY <1>6 DEF KeyPrints, Scanning
  <2>2. Head(typed) \in OtherBytes
    BY <2>1, WiderSequences
  <2>3. QED
    BY <1>1, <1>6, <2>2 DEF KeyPrints
<1>7. QED
  BY <1>2, <1>4, <1>5, <1>6 DEF Next, vars

(* Whatever bytes come in, in whatever state the scanner is and wherever    *)
(* the keys print between them, the page changes only as that of a terminal *)
(* without a cursor block: for every alphabet, parameter range, screen,     *)
(* font and palette.                                                        *)
THEOREM BytesAreLogical ==
  ASSUME HostCareful
  PROVE  Spec => BytesImplementScreen
<1> DEFINE IInv == Scanning /\ Good(ctx)
<1>1. Init => IInv /\ Logical!Init
  BY ScanningInit, PowerUpIsLogical DEF Init
<1>2. IInv /\ [Next]_vars => IInv'
  <2>1. IInv /\ [Next]_vars => Good(ctx')
    BY CarefulStep
  <2>2. QED
    BY <2>1, ScanningStep DEF Good, Settled, OnScreen, Clean, SavedOK, CursorCell
<1>3. IInv /\ [Next]_vars => [Logical!Next]_(Logical!vars)
  BY CarefulStep
<1>4. QED
  BY <1>1, <1>2, <1>3, PTL DEF Spec, BytesImplementScreen, Logical!Spec

-----------------------------------------------------------------------------
(* The position a query reports, sent back, is the position. *)
LEMMA Unwrapped ==
  ASSUME NEW n \in Nat, NEW w \in Nat, n < w
  PROVE  ((n + 1) + w - 1) % w = n
<1> DEFINE x == (n + 1) + w - 1
           q == x \div w
           r == x % w
<1>1. x = n + w /\ x \in Nat /\ w > 0
  OBVIOUS
<1> HIDE DEF x
<1>2. q \in Int /\ r \in Nat /\ r < w /\ x = w * q + r
  BY <1>1
<1> HIDE DEF q, r
<1>3. ASSUME q <= 0 PROVE FALSE
  <2>1. w * q <= 0
    BY <1>1, <1>2, <1>3
  <2>2. QED
    BY <1>1, <1>2, <2>1
<1>4. ASSUME q >= 2 PROVE FALSE
  <2>1. w * q >= w * 2
    BY <1>1, <1>2, <1>4
  <2>2. QED
    BY <1>1, <1>2, <2>1
<1>5. q = 1
  BY <1>2, <1>3, <1>4
<1>6. w * q = w
  BY <1>5
<1>7. r = n
  BY <1>1, <1>2, <1>6
<1>8. QED
  BY <1>7 DEF r, x

LEMMA HomeAndBack ==
  ASSUME NEW c, Settled(c), OnScreen(c), NEW n, NEW k,
         n = c.cursor_row + 1, k = c.cursor_col + 1
  PROVE  LET back == CursorPosition(FormFeed(c), n, k)
         IN  back.cursor_row = c.cursor_row /\ back.cursor_col = c.cursor_col
<1> DEFINE home == FormFeed(c)
           row  == c.cursor_row
           col  == c.cursor_col
<1>1. /\ c \in Ctx /\ row \in Nat /\ col \in Nat /\ row < c.HEIGHT /\ col < Width
      /\ c.HEIGHT \in Nat /\ row < Word /\ col < Word /\ Word \in Nat
      /\ row \in Rows /\ col \in Cols
  BY Sizes, SizeAssumption DEF Settled, OnScreen, Ctx, Rows, Cols
<1>2. home \in Ctx /\ home.HEIGHT = c.HEIGHT
  BY <1>1, FormFeedPaints DEF Paints, At
<1> HIDE DEF home
<1>3. ((row + 1) + Word - 1) % Word = row /\ ((col + 1) + Word - 1) % Word = col
  BY <1>1, Unwrapped
<1>4. /\ Least((n + Word - 1) % Word, home.HEIGHT - 1) = row
      /\ Least((k + Word - 1) % Word, Width - 1) = col
  BY <1>1, <1>2, <1>3, Sizes DEF Least
<1>5. Least(home.HEIGHT - 1, Greatest(row, 0)) = row /\ Least(Width - 1, Greatest(col, 0)) = col
  BY <1>1, <1>2, Sizes DEF Least, Greatest
<1>6. CursorPosition(home, n, k) = MovedTo(home, row, col)
  BY <1>4, <1>5 DEF CursorPosition, gfx_term_move_cursor
<1>7. At(home, MovedTo(home, row, col), row, col)
  BY <1>1, <1>2, MovedToAt
<1>8. QED
  BY <1>6, <1>7 DEF At, home

LEMMA ReportIsPosition ==
  ASSUME Scanning, Settled(ctx), OnScreen(ctx), NEW ch, Consume(ch),
         sent' # <<>>, sent'[1] = "R"
  PROVE  ctx' = ctx /\ sent'[2] = ctx.cursor_row + 1 /\ sent'[3] = ctx.cursor_col + 1
<1> DEFINE ps == scn.cmd_params
           private == scn.private_mode_char = "#" /\ ch \in {"m", "c", "G"}
<1>1. state_fun_final_letter(ch)
  <2>1. CASE ch \in Control
    BY <2>1 DEF Consume, ControlChar
  <2>2. CASE scn.next = "normaltext" /\ state_fun_normaltext(ch)
    BY <2>2 DEF state_fun_normaltext, Go
  <2>3. CASE scn.next = "waitsquarebracket" /\ state_fun_waitsquarebracket(ch)
    <3>1. CASE ch = "["
      BY <2>3, <3>1 DEF state_fun_waitsquarebracket
    <3>2. CASE ch = "("
      BY <2>3, <3>2 DEF state_fun_waitsquarebracket, Go
    <3>3. CASE ch \notin {"[", "("}
      BY <2>3, <3>3 DEF state_fun_waitsquarebracket
    <3>4. QED
      BY <3>1, <3>2, <3>3
  <2>4. CASE scn.next = "alt_charset" /\ state_fun_alt_charset(ch)
    BY <2>4 DEF state_fun_alt_charset
  <2>5. CASE scn.next = "selectescape" /\ state_fun_selectescape(ch)
    <3>1. CASE ch \in DOMAIN Digit \cup {";", "?", "#"}
      BY <2>5, <3>1, Semicolon DEF state_fun_selectescape
    <3>2. CASE ch \notin DOMAIN Digit \cup {";", "?", "#"}
      BY <2>5, <3>2 DEF state_fun_selectescape
    <3>3. QED
      BY <3>1, <3>2
  <2>6. CASE scn.next = "read_digit" /\ state_fun_read_digit(ch)
    <3>1. CASE ch \in DOMAIN Digit \cup {";"}
      BY <2>6, <3>1, Semicolon DEF state_fun_read_digit
    <3>2. CASE ch \notin DOMAIN Digit \cup {";"}
      BY <2>6, <3>2 DEF state_fun_read_digit
    <3>3. QED
      BY <3>1, <3>2
  <2>7. QED
    BY <2>1, <2>2, <2>3, <2>4, <2>5, <2>6 DEF Consume, Scanning, States
<1>2. ASSUME private PROVE FALSE
  BY <1>1, <1>2 DEF state_fun_final_letter, PrivateAnswer
<1>3. sent' = Answer(ch, ps) /\ Draw(Letter(ctx, ch, ps))
  BY <1>1, <1>2 DEF state_fun_final_letter
<1> HIDE DEF ps
<1>4. ch = "n" /\ sent' = CursorReport(ctx)
  BY <1>3 DEF Answer
<1>5. Letter(ctx, ch, ps) = ctx
  BY <1>4 DEF Letter
<1>6. ctx' = ctx
  BY <1>3, <1>5, EndOfCharStays DEF Draw
<1>7. QED
  BY <1>4, <1>6 DEF CursorReport

(* The position a query reports is one the host can send back to have the   *)
(* cursor where it was, whatever was printed, drawn and typed before it,    *)
(* unless a recall has left the screen.                                     *)
THEOREM ReportsReturn ==
  ASSUME "recall_off_screen" \notin Lax
  PROVE  Spec => ReportReturns
<1> DEFINE Returns == sent' # <<>> /\ sent'[1] = "R" =>
             LET back == CursorPosition(FormFeed(ctx'), sent'[2], sent'[3])
             IN  <<back.cursor_row, back.cursor_col>> = <<ctx'.cursor_row, ctx'.cursor_col>>
<1>1. ASSUME Scanning, Settled(ctx), OnScreen(ctx), Next PROVE Returns
  <2>1. SUFFICES ASSUME sent' # <<>>, sent'[1] = "R"
                 PROVE  LET back == CursorPosition(FormFeed(ctx'), sent'[2], sent'[3])
                        IN  <<back.cursor_row, back.cursor_col>>
                              = <<ctx'.cursor_row, ctx'.cursor_col>>
    OBVIOUS
  <2>2. PICK ch : Consume(ch)
    BY <1>1, <2>1 DEF Next, HostByte, KeyPressed, KeyPrints
  <2>3. ctx' = ctx /\ sent'[2] = ctx.cursor_row + 1 /\ sent'[3] = ctx.cursor_col + 1
    BY <1>1, <2>1, <2>2, ReportIsPosition
  <2>4. QED
    BY <1>1, <2>3, HomeAndBack
<1>2. Scanning /\ Settled(ctx) /\ OnScreen(ctx) /\ [Next]_vars => [Returns]_vars
  BY <1>1
<1>3. QED
  BY <1>2, ScannerOnScreen, PTL DEF Spec, ReportReturns

-----------------------------------------------------------------------------
(* Print Screen.  What is still to be printed says where the scanner is, as *)
(* long as no key prints in the middle of a sequence of the host.           *)
ToPrint(n, first) == Len(typed) = n /\ typed[1] = first

Printing ==
  \/ Len(typed) < 6
  \/ ToPrint(7, "[") /\ typed[2] = "1"
  \/ ToPrint(6, "1")
  \/ /\ ToPrint(9, "ESC") /\ typed[2] = "[" /\ typed[3] = "2" /\ typed[4] = "J"
     /\ scn.next = "normaltext"
  \/ /\ ToPrint(8, "[") /\ typed[2] = "2" /\ typed[3] = "J"
     /\ scn.next = "waitsquarebracket"
  \/ /\ ToPrint(7, "2") /\ typed[2] = "J"
     /\ scn.next = "selectescape" /\ scn.private_mode_char = ""
  \/ /\ ToPrint(6, "J")
     /\ scn.next = "read_digit" /\ scn.private_mode_char = "" /\ scn.cmd_params = <<2>>

LEMMA TailOf ==
  ASSUME NEW s \in Seq(OtherBytes), s # <<>>
  PROVE  /\ Head(s) = s[1] /\ Len(s) \in Nat /\ Len(Tail(s)) = Len(s) - 1
         /\ \A i \in 1 .. Len(s) - 1 : Tail(s)[i] = s[i + 1]
OBVIOUS

LEMMA KeyStringsStart ==
  /\ Len(PrintScreen) = 9 /\ PrintScreen[1] = "ESC" /\ PrintScreen[2] = "["
  /\ PrintScreen[3] = "2" /\ PrintScreen[4] = "J"
  /\ Len(Lines) = 7 /\ Lines[1] = "[" /\ Lines[2] = "1"
BY DEF PrintScreen, Lines

LEMMA RestStarts ==
  LET rest == SubSeq(PrintScreen, 4, 9)
  IN  Len(rest) = 6 /\ rest[1] = "J"
BY DEF PrintScreen

LEMMA PrintingStep ==
  ASSUME "key_in_sequence" \notin Lax, Scanning, Printing, [Next]_vars
  PROVE  Printing'
<1>0. typed \in Seq(OtherBytes) /\ scn.next \in States
  BY DEF Scanning
<1>1. ASSUME NEW ch \in HostBytes, HostByte(ch) PROVE Printing'
  BY <1>1 DEF HostByte, Printing
<1>2. CASE KeyPressed
  <2>1. CASE typed' = PrintScreen
    <3>1. /\ Len(typed') = 9 /\ typed'[1] = "ESC" /\ typed'[2] = "[" /\ typed'[3] = "2"
          /\ typed'[4] = "J" /\ scn'.next = "normaltext"
      BY <1>2, <2>1, KeyStringsStart DEF KeyPressed
    <3>2. QED
      BY <3>1 DEF Printing, ToPrint
  <2>2. CASE typed' = Lines
    <3>1. Len(typed') = 7 /\ typed'[1] = "[" /\ typed'[2] = "1"
      BY <2>2, KeyStringsStart
    <3>2. QED
      BY <3>1 DEF Printing, ToPrint
  <2>3. CASE typed' = typed
    BY <1>2, <2>3 DEF KeyPressed, Printing
  <2>4. QED
    BY <1>2, <2>1, <2>2, <2>3 DEF KeyPressed
<1>3. CASE KeyPrints
  <2>1. typed # <<>> /\ Consume(typed[1]) /\ typed' = Tail(typed)
    BY <1>0, <1>3, TailOf DEF KeyPrints
  <2>2. /\ Len(typed) \in Nat /\ Len(typed') = Len(typed) - 1
        /\ \A i \in 1 .. Len(typed) - 1 : typed'[i] = typed[i + 1]
    BY <1>0, <2>1, TailOf
  <2>3. CASE Len(typed) < 7
    <3>1. Len(typed') < 6
      BY <2>2, <2>3
    <3>2. QED
      BY <3>1 DEF Printing
  <2>4. CASE Len(typed) = 7 /\ typed[1] = "[" /\ typed[2] = "1"
    <3>1. Len(typed') = 6 /\ typed'[1] = "1"
      BY <2>2, <2>4 DEF ToPrint
    <3>2. QED
      BY <3>1 DEF Printing, ToPrint
  <2>5. CASE /\ Len(typed) = 9 /\ typed[1] = "ESC" /\ typed[2] = "[" /\ typed[3] = "2" /\ typed[4] = "J"
             /\ scn.next = "normaltext"
    <3>1. scn' = [scn EXCEPT !.next = "waitsquarebracket"]
      BY <2>1, <2>5 DEF ToPrint, Consume, Control, state_fun_normaltext, Go
    <3>2. scn'.next = "waitsquarebracket"
      BY <3>1 DEF Scanning
    <3>3. Len(typed') = 8 /\ typed'[1] = "[" /\ typed'[2] = "2" /\ typed'[3] = "J"
      BY <2>2, <2>5 DEF ToPrint
    <3>4. QED
      BY <3>2, <3>3 DEF Printing, ToPrint
  <2>6. CASE /\ Len(typed) = 8 /\ typed[1] = "[" /\ typed[2] = "2" /\ typed[3] = "J"
             /\ scn.next = "waitsquarebracket"
    <3>1. scn' = [scn EXCEPT !.next = "selectescape", !.private_mode_char = ""]
      BY <2>1, <2>6 DEF ToPrint, Consume, Control, state_fun_waitsquarebracket
    <3>2. scn'.next = "selectescape" /\ scn'.private_mode_char = ""
      BY <3>1 DEF Scanning
    <3>3. Len(typed') = 7 /\ typed'[1] = "2" /\ typed'[2] = "J"
      BY <2>2, <2>6 DEF ToPrint
    <3>4. QED
      BY <3>2, <3>3 DEF Printing, ToPrint
  <2>7. CASE /\ Len(typed) = 7 /\ typed[1] = "2" /\ typed[2] = "J"
             /\ scn.next = "selectescape" /\ scn.private_mode_char = ""
    <3>1. "2" \in DOMAIN Digit /\ Digit["2"] = 2
      BY DEF Digit
    <3>2. state_fun_selectescape("2")
      BY <2>1, <2>7 DEF ToPrint, Consume, Control
    <3>3. scn' = [scn EXCEPT !.next = "read_digit", !.cmd_params = <<2>>,
                             !.private_mode_char = scn.private_mode_char]
      BY <3>1, <3>2, Semicolon DEF state_fun_selectescape
    <3>4. scn'.next = "read_digit" /\ scn'.private_mode_char = "" /\ scn'.cmd_params = <<2>>
      BY <2>7, <3>3 DEF Scanning
    <3>5. Len(typed') = 6 /\ typed'[1] = "J"
      <4>1. Len(typed) = 7 /\ typed[2] = "J"
        BY <2>7
      <4>2. QED
        BY <2>2, <4>1
    <3>6. QED
      BY <3>4, <3>5 DEF Printing, ToPrint
  <2>8. QED
    <3>1. Len(typed) < 6 => Len(typed) < 7
      BY <2>2
    <3>2. Len(typed) = 6 => Len(typed) < 7
      OBVIOUS
    <3>3. QED
      BY <2>3, <2>4, <2>5, <2>6, <2>7, <3>1, <3>2, Zenon DEF Printing, ToPrint
<1>4. CASE UNCHANGED vars
  BY <1>4 DEF vars, Printing, ToPrint
<1>5. QED
  BY <1>1, <1>2, <1>3, <1>4 DEF Next

LEMMA FormFeedClears ==
  ASSUME NEW c \in Ctx, OnScreen(c), NEW d, d = EndOfChar(FormFeed(c))
  PROVE  /\ \A r \in DOMAIN Page(d), k \in 0 .. Width - 1 : Page(d)[r][k][1] = Blank
         /\ d.cursor_row = 0 /\ d.cursor_col = 0
<1> DEFINE s == Emptied(Lift(c), c.HEIGHT, GET_BG(c))
           e == FormFeed(c)
<1>1. Paints(c, e, s, 0, 0)
  BY FormFeedPaints
<1>2. c.HEIGHT \in 1 .. MaxHeight /\ 0 < Width
  BY Sizes DEF Ctx
<1>3. /\ Cut(s, c.HEIGHT) = [r \in 0 .. c.HEIGHT - 1 |-> BlankLine(GET_BG(c))]
      /\ \A r \in Rows : r >= c.HEIGHT => s[r] = Lift(c)[r]
  BY <1>2, CutEmptied
<1> HIDE DEF s, e
<1>4. e \in Ctx /\ e.HEIGHT = c.HEIGHT /\ e.cursor_row = 0 /\ e.cursor_col = 0 /\ Lift(e) = s
  BY <1>1 DEF Paints, At
<1>5. OnScreen(e)
  BY <1>2, <1>4 DEF OnScreen
<1>6. Page(e) = [r \in 0 .. c.HEIGHT - 1 |-> BlankLine(GET_BG(c))]
  BY <1>3, <1>4, PageIsCut
<1>7. d = e
  BY <1>5, EndOfCharStays DEF e
<1>8. \A r \in DOMAIN Page(e), k \in 0 .. Width - 1 : Page(e)[r][k] = Solid(GET_BG(c))
  BY <1>6 DEF BlankLine
<1>9. QED
  BY <1>4, <1>7, <1>8 DEF Solid

(* When the key handler has printed the first sequence of Print Screen the  *)
(* page is blank and the cursor home, whatever the host has sent before it, *)
(* if no key prints in the middle of a sequence and no recall has left the  *)
(* screen.                                                                  *)
THEOREM PrintScreenIsClear ==
  ASSUME {"key_in_sequence", "recall_off_screen"} \cap Lax = {}
  PROVE  Spec => PrintScreenClears
<1> DEFINE Cleared ==
             /\ \A r \in DOMAIN Page(ctx'), k \in 0 .. Width - 1 : Page(ctx')[r][k][1] = Blank
             /\ ctx'.cursor_row = 0 /\ ctx'.cursor_col = 0
           IInv == Scanning /\ Settled(ctx) /\ OnScreen(ctx)
<1>1. Init => Printing
  <2>1. Init => typed = <<>>
    BY DEF Init
  <2>2. typed = <<>> => Len(typed) < 6
    OBVIOUS
  <2>3. QED
    BY <2>1, <2>2, Zenon DEF Printing
<1>2. IInv /\ Printing /\ [Next]_vars => Printing'
  BY PrintingStep
<1>3. ASSUME IInv, Printing, KeyPrints, typed = SubSeq(PrintScreen, 4, 9) PROVE Cleared
  <2>0. typed \in Seq(OtherBytes) /\ Printing /\ KeyPrints
    BY <1>3 DEF Scanning
  <2>1. ToPrint(6, "J")
    BY <1>3, RestStarts DEF ToPrint
  <2>2. scn.next = "read_digit" /\ scn.private_mode_char = "" /\ scn.cmd_params = <<2>>
    <3>1. Len(typed) = 6 /\ typed[1] = "J"
      BY <2>1 DEF ToPrint
    <3>2. ~(Len(typed) < 6) /\ Len(typed) # 7 /\ Len(typed) # 8 /\ Len(typed) # 9
      BY <3>1
    <3>3. typed[1] # "1"
      BY <3>1
    <3>4. QED
      BY <2>0, <3>2, <3>3, Zenon DEF Printing, ToPrint
  <2>3. Consume("J")
    <3>1. typed \in Seq(OtherBytes) /\ typed # <<>>
      BY <2>0 DEF KeyPrints
    <3>2. Head(typed) = "J"
      BY <2>1, <3>1, TailOf DEF ToPrint
    <3>3. QED
      BY <2>0, <3>2 DEF KeyPrints
  <2>4. state_fun_read_digit("J")
    BY <2>2, <2>3 DEF Consume, Control
  <2>5. state_fun_final_letter("J")
    BY <2>4 DEF state_fun_read_digit, Digit
  <2>6. Draw(Letter(ctx, "J", <<2>>))
    BY <2>2, <2>5 DEF state_fun_final_letter
  <2>7. Letter(ctx, "J", <<2>>) = FormFeed(ctx)
    <3>1. Param(<<2>>, 1, 0) = 2
      BY DEF Param
    <3>2. Letter(ctx, "J", <<2>>) = EraseInDisplay(ctx, 2)
      BY <3>1 DEF Letter
    <3>3. QED
      BY <3>2 DEF EraseInDisplay
  <2>8. ctx' = EndOfChar(FormFeed(ctx))
    BY <2>6, <2>7 DEF Draw
  <2>9. ctx \in Ctx
    BY <1>3 DEF Settled
  <2>10. QED
    BY <1>3, <2>8, <2>9, FormFeedClears
<1>4. IInv /\ Printing /\ [Next]_vars
        => [KeyPrints /\ typed = SubSeq(PrintScreen, 4, 9) => Cleared]_vars
  BY <1>3
<1>5. Spec => []IInv
  BY ScannerOnScreen
<1>6. QED
  BY <1>1, <1>2, <1>4, <1>5, PTL DEF Spec, PrintScreenClears
=============================================================================
