---------------------------- MODULE Workstation ----------------------------
(***************************************************************************)
(* GSX on the terminal: ESC[#...G opens and closes a graphics workstation, *)
(* moves the text cursor and draws figures, on the same context and        *)
(* through the same operators as the text sequences.  A figure is told     *)
(* only by what it makes of a cell (GsxShapes has the figures themselves). *)
(*                                                                         *)
(* Some calls are operations of Terminal over again: clearing the          *)
(* workstation is FF, escape 11 is CUP, 13 and 14 are SetInverse; a        *)
(* character of escape 12, or of ESC[#c, is Put, and a text that fits in   *)
(* its row is as many.                                                     *)
(*                                                                         *)
(* Two more conditions are the host's: it enters graphics mode only with a *)
(* hidden cursor, since the code hides it without lifting the block, and   *)
(* draws nothing on the cursor's cell, since the saved copy is written     *)
(* back over it at the next motion.                                        *)
(***************************************************************************)
EXTENDS Terminal

Open  == Host(gfx_open_workstation(ctx))
Close == Host(gfx_close_workstation(ctx))

Escape(id) ==
  /\ id = 2 => "graphics_shown" \in Lax \/ ~ctx.cursor_visible
  /\ id = 3 => "show_shown" \in Lax \/ ~ctx.cursor_visible
  /\ Host(gfx_escape(ctx, id))

Draw(r, k) ==
  /\ "draw_under_cursor" \in Lax \/ <<r, k>> # <<ctx.cursor_row, ctx.cursor_col>>
  /\ \E mark \in Marks : Host([ctx EXCEPT !.fb[r][k] = mark])

Gsx ==
  \/ Open \/ Close
  \/ \E id \in 2 .. 10 : Escape(id)
  \/ \E r \in 0 .. ctx.HEIGHT - 1, k \in 0 .. Width - 1 : Draw(r, k)

WorkstationNext == Next \/ Gsx
WorkstationSpec == Init /\ [][WorkstationNext]_vars
=============================================================================
