--------------------------- MODULE MCClipboardSync ---------------------------
(***************************************************************************)
(* Instances of ClipboardSync for TLC.                                     *)
(***************************************************************************)
EXTENDS ClipboardSync, TLC

CONSTANTS text, files, large

AllText == [m \in Machines |-> text]
=============================================================================
