------------------------- MODULE TerminalRefinement -------------------------
(***************************************************************************)
(* Terminal, with GSX on it, implements LogicalScreen, by the mapping of   *)
(* GfxPage.                                                                *)
(***************************************************************************)
EXTENDS Workstation

(* Every character and control sequence does to the page what a terminal   *)
(* without a cursor block would do: no ghost of the cursor stays behind,   *)
(* no text under it is lost, whatever the colours were when it was drawn.  *)
ImplementsScreen == Logical!Spec

(* A screen with three whole tab stops and two columns more. *)
LastWide == 3 * TabStop + 1
Wide == INSTANCE Gfx WITH Width <- LastWide + 1

(* From every column of it a tab goes to the next stop, or the last        *)
(* column, and a back tab to the stop before.                              *)
WideTabs ==
  \A col \in 0 .. LastWide :
    LET at == Wide!MovedTo(Wide!PowerUp, 0, col)
        stops == {k \in 0 .. LastWide : k % TabStop = 0}
        next == Wide!Tab(at).cursor_col
        last == Wide!BackTab(at).cursor_col
    IN  /\ next \in stops \cup {LastWide} /\ (col < LastWide => next > col)
        /\ \A k \in stops : k > col => next <= k
        /\ last \in stops /\ (last < col \/ col = 0)
        /\ \A k \in stops : k < col => k <= last

(* A row or column of ESC[r;kH counts from 1.  The code subtracts 1        *)
(* without a sign, so 0 is not clamped to the first one but to the last.   *)
Addressed(n, size) == IF n = 0 THEN size - 1 ELSE Logical!Within(n - 1, size)

(* Wherever the cursor is, each motion takes it where its count says, and  *)
(* neither the tab masks nor the clamps nor unsigned arithmetic ever show, *)
(* but for one case: parameter 0 of a position is the last row or column.  *)
MotionsAgree ==
  LET row == ctx.cursor_row
      col == ctx.cursor_col
      to(after) == LET c == EndOfChar(after) IN <<c.cursor_row, c.cursor_col>>
  IN  /\ WideTabs
      /\ to(CarriageReturn(ctx)) = <<row, 0>>
      /\ to(Backspace(ctx)) = <<row, Logical!Within(col - 1, Width)>>
      /\ col = Width - 1 \/ to(Tab(ctx)) \in {row} \X Logical!StopsAfter(col)
      /\ to(BackTab(ctx)) \in {row} \X Logical!StopsBefore(col)
      /\ ctx.saved_cursor[1] < ctx.HEIGHT =>
           to(gfx_term_restore_cursor(ctx)) = ctx.saved_cursor
      /\ \A n \in Counts :
           /\ to(CursorUp(ctx, n))    = <<Logical!Within(row - n, ctx.HEIGHT), col>>
           /\ to(CursorDown(ctx, n))  = <<Logical!Within(row + n, ctx.HEIGHT), col>>
           /\ to(CursorRight(ctx, n)) = <<row, Logical!Within(col + n, Width)>>
           /\ to(CursorLeft(ctx, n))  = <<row, Logical!Within(col - n, Width)>>
           /\ \A k \in Counts : to(CursorPosition(ctx, n, k)) =
                                  <<Addressed(n, ctx.HEIGHT), Addressed(k, Width)>>
=============================================================================
