---------------------------- MODULE MCConcurrentBiMap ----------------------------
(* Instances of ConcurrentBiMap for TLC. *)
EXTENDS ConcurrentBiMap

CONSTANTS t1, t2

(* Everybody uses the wrapper that NewConcurrentBiMap returned. *)
OneWrapper == [t \in Threads |-> "forward"]

(* t2 uses the wrapper that Reverse returned. *)
WithReverse == [t \in Threads |-> IF t = t2 THEN "reverse" ELSE "forward"]

==================================================================================
