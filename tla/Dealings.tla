------------------------------ MODULE Dealings ------------------------------
(***************************************************************************)
(* What the key generation protocols have in common: the parties, the      *)
(* order in which a round looks at them, and formal sums of what they      *)
(* deal.  A formal sum says how often each dealer's contribution went in.  *)
(* A share that Verify accepts is the one its dealer's verification vector *)
(* determines, so a sum of shares fits a sum of vectors exactly when both  *)
(* count every dealer equally often (two different sums of random group    *)
(* elements are equal with negligible probability only).                   *)
(***************************************************************************)
EXTENDS Naturals, FiniteSets

CONSTANTS
    Quorum,      \* sharing IDs
    Corrupt,
    Qualified,   \* the qualified sets of the access structure
    None,        \* nothing sent, no shard yet
    MaxCalls     \* bound on the calls a participant makes of one round

ASSUME DealingsAssumption ==
    /\ Quorum \subseteq Nat
    /\ IsFiniteSet(Quorum)
    /\ Corrupt \subseteq Quorum
    /\ Qualified \subseteq SUBSET Quorum
    /\ \A s \in Qualified, more \in SUBSET Quorum : s \cup more \in Qualified
    /\ MaxCalls \in Nat
    /\ None \notin [Quorum -> Nat]

Honest == Quorum \ Corrupt
Others(p) == Quorum \ {p}

\* The smallest ID: OtherPartiesOrdered iterates in this order.
First(S) == CHOOSE q \in S : \A other \in S : q <= other
UpTo(p, q) == {id \in Others(p) : id <= q}
Before(p, q) == {id \in Others(p) : id < q}

Nothing == [q \in Quorum |-> 0]
Once == [q \in Quorum |-> 1]
Add(sum, ids) == [q \in Quorum |-> IF q \in ids THEN sum[q] + 1 ELSE sum[q]]

\* The parties to which f assigns value.
With(f, value) == {q \in DOMAIN f : f[q] = value}
=============================================================================
