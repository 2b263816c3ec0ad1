--------------------------- MODULE MCCommandPath ---------------------------
(* Small instances of the way commands take to the stream.                 *)
EXTENDS CommandPath
=============================================================================
