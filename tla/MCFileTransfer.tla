--------------------------- MODULE MCFileTransfer ---------------------------
(***************************************************************************)
(* An instance of FileTransfer for TLC.                                    *)
(***************************************************************************)
EXTENDS FileTransfer

CONSTANTS f1, b1

\* A small transfer of two files, and a large one of one file.
SomeChunks == (f1 :> <<1, 1>>) @@ (b1 :> <<2>>)
=============================================================================
