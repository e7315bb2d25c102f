--------------------------- MODULE MCEchoBroadcast ---------------------------
(***************************************************************************)
(* Model-checking instance of EchoBroadcast: two honest parties and a      *)
(* corrupt one.                                                            *)
(***************************************************************************)
EXTENDS EchoBroadcast

CONSTANTS p1, p2, p3, m1, m2
=============================================================================
