--------------------------- MODULE AnsiRefinement ---------------------------
(***************************************************************************)
(* The scanner fed with bytes implements LogicalScreen, by the mapping of  *)
(* GfxPage: a byte does one operation of the logical screen or none.       *)
(***************************************************************************)
EXTENDS AnsiScanner

(* Whatever bytes the host sends, in whatever state the scanner is, and    *)
(* wherever between them the keys print, the page changes only as a        *)
(* terminal without a cursor block would change it.                        *)
BytesImplementScreen == Logical!Spec
=============================================================================
