------------------------- MODULE ConsistentBroadcast -------------------------
(***************************************************************************)
(* What pkg/network/echo promises to the protocols above it.  Every party  *)
(* of the quorum contributes one message; each honest party delivers at    *)
(* most once, and then the messages of all the others together.  The       *)
(* message of an honest party is its own; a corrupt party's is whatever    *)
(* the first delivery fixed, for everybody.                                *)
(*                                                                         *)
(* Nothing is promised to every party: some may deliver while others fail. *)
(***************************************************************************)
CONSTANTS Quorum, Corrupt, Messages, NoOutput

VARIABLES
    input,   \* the message each honest party broadcasts, NoOutput before
    agreed,  \* the value fixed for each sender, NoOutput before
    done     \* the honest parties that delivered

vars == <<input, agreed, done>>

Honest == Quorum \ Corrupt

Init ==
    /\ input = [p \in Honest |-> NoOutput]
    /\ agreed = [id \in Quorum |-> NoOutput]
    /\ done = {}

Submit(p) ==
    /\ input[p] = NoOutput
    /\ \E m \in Messages : input' = [input EXCEPT ![p] = m]
    /\ UNCHANGED <<agreed, done>>

Deliver(p) ==
    /\ p \notin done
    /\ done' = done \cup {p}
    /\ agreed' \in [Quorum -> Messages \cup {NoOutput}]
    /\ agreed'[p] = agreed[p]
    /\ \A id \in Quorum \ {p} :
          /\ agreed'[id] \in Messages
          /\ agreed[id] \in {NoOutput, agreed'[id]}
          /\ id \in Honest => agreed'[id] = input[id]
    /\ UNCHANGED input

Next == \E p \in Honest : Submit(p) \/ Deliver(p)

Spec == Init /\ [][Next]_vars
=============================================================================
