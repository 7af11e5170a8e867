------------------------------- MODULE MCAnsi -------------------------------
(***************************************************************************)
(* Small alphabets for the model checker.                                  *)
(***************************************************************************)
EXTENDS AnsiRefinement

\* One digit, and those of ESC[?25h and ESC[32m.
EditingValues == {0, 1, 2, 3, 5, 6, 25, 32}
AttributeValues == {0, 3, 5, 7, 37, 38}

OneFont == <<4>>
TwoFonts == <<2, 4>>

\* The alternate set has no picture of an x.
LetterShapes(ch, alt) == IF ch = " " \/ (alt /\ ch = "x") THEN Blank ELSE "a"

Introducers == {"ESC", "[", ";", "?"}
\* Motions, erasures, line editing, queries, the cursor's visibility, GSX.
EditingBytes ==
  Introducers \cup {"2", "5", "6", " ", "CR", "LF", "K", "J", "A", "H", "L", "M", "h", "l",
                  "B", "C", "D", "Z", "s", "u", "n", "TAB", "BS",
                  "#", "1", "G"}
\* Attributes, private sequences, reset, the alternate set.
AttributeBytes == Introducers \cup {"#", "(", "0", "3", "5", "7", "8", "x", "m", "c"}
\* What a host sends while keys are pressed.
TypingBytes == {"ESC", "[", "2", "C", "K", "x", "LF"}
=============================================================================
