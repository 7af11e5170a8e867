----------------------------- MODULE MCTerminal -----------------------------
(***************************************************************************)
(* Small screens for the model checker.                                    *)
(***************************************************************************)
EXTENDS TerminalRefinement

OneFont == <<4>>
TwoFonts == <<2, 4>>
NoColours == {}
Lamp == {1, 2}
Plain == {0}
AllInverses == BOOLEAN
Inked == {<<CHOOSE g \in Glyphs : TRUE, DEFAULT_FG, DEFAULT_BG>>}
NoMarks == {}
=============================================================================
