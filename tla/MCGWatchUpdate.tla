--------------------------- MODULE MCGWatchUpdate ---------------------------
(***************************************************************************)
(* The image files for the runs of GWatchUpdate.  With packets of 4 and 2  *)
(* bytes and 3 blocks of flash: nothing, packets of both kinds with the    *)
(* last one padded, more packets than the flash has blocks, a full flash,  *)
(* and a file that is too long for it.                                     *)
(***************************************************************************)
EXTENDS GWatchUpdate

AllSizes == <<0, 9, 11, 12, 13>>
TwoSizes == <<1, 2>>
=============================================================================
