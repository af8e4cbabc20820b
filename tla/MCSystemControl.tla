--------------------------- MODULE MCSystemControl ---------------------------
(***************************************************************************)
(* Instances of SystemControl for TLC.                                     *)
(***************************************************************************)
EXTENDS SystemControl
=============================================================================
