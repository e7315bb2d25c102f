---------------------------- MODULE MCSessionSetup ----------------------------
(***************************************************************************)
(* Model-checking instances of SessionSetup.                               *)
(***************************************************************************)
EXTENDS SessionContexts
=============================================================================
