---------------------------- MODULE LogicalScreen ----------------------------
(***************************************************************************)
(* What the terminal promises its host: a page of text, a position, colour *)
(* attributes.  There is no cursor block, no save-under buffer, and no     *)
(* position outside the page: a character printed in the last column and a *)
(* line feed on the last row wrap and scroll in one step.                  *)
(***************************************************************************)
EXTENDS Integers

CONSTANTS Width, TabStop, Heights, Colour, Glyphs, Blank,
          Marks   \* what drawing may make of a cell

VARIABLES
  height,  \* lines of the page
  text,    \* [rows -> [columns -> <<glyph, foreground, background>>]]
  row, col, saved,
  shown,   \* whether the cursor is visible
  attr     \* [fg, bg, inverse, default_fg, default_bg]

vars == <<height, text, row, col, saved, shown, attr>>

PageRows == 0 .. height - 1
PageCols == 0 .. Width - 1

Ink   == IF attr.inverse THEN attr.bg ELSE attr.fg
Paper == IF attr.inverse THEN attr.fg ELSE attr.bg

Cleared(colour)    == <<Blank, colour, colour>>
ClearedRow(colour) == [k \in PageCols |-> Cleared(colour)]
Char(g) == IF g = Blank THEN Cleared(Paper) ELSE <<g, Ink, Paper>>

Within(n, size) == IF n < 0 THEN 0 ELSE IF n >= size THEN size - 1 ELSE n

Rolled(page, paper) ==
  [r \in DOMAIN page |-> IF r + 1 \in DOMAIN page THEN page[r + 1] ELSE ClearedRow(paper)]

(* The page and row after advancing one line from the current row. *)
NextLine(page) ==
  IF row + 1 < height THEN row' = row + 1 /\ text' = page
                      ELSE row' = row /\ text' = Rolled(page, Paper)

Put(g) ==
  LET page == [text EXCEPT ![row][col] = Char(g)]
  IN  /\ UNCHANGED <<height, saved, shown, attr>>
      /\ IF col + 1 < Width THEN col' = col + 1 /\ row' = row /\ text' = page
                            ELSE col' = 0 /\ NextLine(page)

LineFeed == UNCHANGED <<height, col, saved, shown, attr>> /\ NextLine(text)

MoveTo(r, k) == row' = r /\ col' = k

(* Tab stops are the multiples of TabStop, and forwards the last column.   *)
StopsAfter(k) ==
  {stop \in PageCols :
     /\ IF stop % TabStop = 0 THEN stop > k ELSE stop = Width - 1
     /\ \A j \in k + 1 .. stop - 1 : j % TabStop # 0}
StopsBefore(k) ==
  {stop \in PageCols :
     /\ stop % TabStop = 0
     /\ stop < k \/ k = 0
     /\ \A j \in stop + 1 .. k - 1 : j % TabStop # 0}

(* Motions never leave the page. *)
Return       == MoveTo(row, 0)
Up(n)        == MoveTo(Within(row - n, height), col)
Down(n)      == MoveTo(Within(row + n, height), col)
Right(n)     == MoveTo(row, Within(col + n, Width))
Left(n)      == MoveTo(row, Within(col - n, Width))
Address(r, k) == MoveTo(Within(r - 1, height), Within(k - 1, Width))
TabForward == \E stop \in StopsAfter(col) : MoveTo(row, stop)
TabBack    == \E stop \in StopsBefore(col) : MoveTo(row, stop)
Recall == saved[1] \in PageRows /\ MoveTo(saved[1], saved[2])

Motion ==
  /\ UNCHANGED <<height, saved, shown, attr>>
  /\ UNCHANGED text
  /\ \/ \E r \in 1 .. height, k \in 1 .. Width : Address(r, k)
     \/ \E n \in 0 .. height : Up(n) \/ Down(n)
     \/ \E n \in 0 .. Width : Left(n) \/ Right(n)
     \/ Return \/ TabForward \/ TabBack \/ Recall

Save == UNCHANGED <<height, text, row, col, shown, attr>> /\ saved' = <<row, col>>

(* Erasure: the cells the mode names, and no other. *)
Erased(mode, r, k) ==
  CASE mode = "line end"    -> r = row /\ k >= col
    [] mode = "line start"  -> r = row /\ k <= col
    [] mode = "line"        -> r = row
    [] mode = "page end"    -> r > row \/ (r = row /\ k >= col)
    [] mode = "page start"  -> r < row \/ (r = row /\ k <= col)

Erase ==
  /\ UNCHANGED <<row, col, height, saved, shown, attr>>
  /\ \E page \in {text}, after \in {text'} :
         \E mode \in {"line end", "line start", "line", "page end", "page start"} :
           after = [r \in DOMAIN page |-> [k \in PageCols |->
                      IF Erased(mode, r, k) THEN Cleared(attr.bg) ELSE page[r][k]]]

(* Form feed and ESC[2J; ESC c also resets the attributes first. *)
HomeAndClear(paper) ==
  /\ row' = 0 /\ col' = 0
  /\ UNCHANGED <<height, saved>>
  /\ text' = [r \in PageRows |-> ClearedRow(paper)]

PlainAttr == [attr EXCEPT !.fg = attr.default_fg, !.bg = attr.default_bg,
                          !.inverse = FALSE]

Clear == UNCHANGED <<shown, attr>> /\ HomeAndClear(Paper)
Reset == UNCHANGED shown /\ attr' = PlainAttr /\ HomeAndClear(attr.default_bg)

(* A graphics workstation opens on a blank page without a cursor.          *)
Open == UNCHANGED attr /\ shown' = FALSE /\ HomeAndClear(Paper)

(* Drawing changes one cell, away from the cursor.                         *)
Draw ==
  /\ UNCHANGED <<row, col, height, saved, shown, attr>>
  /\ \E page \in {text}, after \in {text'} :
         \E r \in PageRows, k \in PageCols, mark \in Marks :
           /\ <<r, k>> # <<row, col>>
           /\ after = [page EXCEPT ![r][k] = mark]

(* Lines are deleted at and inserted above the cursor's row; the rows above *)
(* it keep their text.                                                     *)
DeleteLines(page, n) ==
  [r \in DOMAIN page |->
    IF r < row THEN page[r]
    ELSE IF r + n \in DOMAIN page THEN page[r + n] ELSE ClearedRow(Paper)]

InsertLines(page, n) ==
  [r \in DOMAIN page |->
    IF r < row THEN page[r]
    ELSE IF r - n >= row THEN page[r - n] ELSE ClearedRow(Paper)]

EditLines ==
  /\ UNCHANGED <<row, col, height, saved, shown, attr>>
  /\ \E page \in {text}, after \in {text'} :
         \E n \in 0 .. height : after \in {DeleteLines(page, n), InsertLines(page, n)}

SetShown == shown' \in BOOLEAN /\ UNCHANGED <<row, col, height, saved, attr, text>>

SetAttr ==
  /\ UNCHANGED <<height, row, col, saved, shown, text>>
  /\ attr' \in [fg : Colour, bg : Colour, inverse : BOOLEAN,
                default_fg : Colour, default_bg : Colour]

(* A resize starts over with blank rows and the cursor in the corner. *)
Resize ==
  /\ row' = 0 /\ col' = 0
  /\ UNCHANGED <<saved, shown, attr>>
  /\ height' \in Heights
  /\ \E edge \in Colour :
       /\ DOMAIN text' = 0 .. height' - 1
       /\ \A r \in 0 .. height' - 1 : text'[r] \in {ClearedRow(Paper), ClearedRow(edge)}

Init ==
  /\ height \in Heights
  /\ \E b \in Colour : text = [r \in PageRows |-> ClearedRow(b)]
  /\ row = 0 /\ col = 0 /\ saved = <<0, 0>> /\ shown = TRUE
  /\ attr \in [fg : Colour, bg : Colour, inverse : {FALSE},
               default_fg : Colour, default_bg : Colour]

Next ==
  \/ Motion \/ SetShown \/ Save \/ Draw \/ Erase \/ Resize
  \/ \E g \in Glyphs \cup {Blank} : Put(g)
  \/ LineFeed \/ Clear \/ Reset \/ EditLines \/ SetAttr \/ Open

Spec == Init /\ [][Next]_vars
=============================================================================
