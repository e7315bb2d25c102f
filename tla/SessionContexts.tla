--------------------------- MODULE SessionContexts ----------------------------
(***************************************************************************)
(* What protocols make of the contexts that session setup returned:        *)
(* Context.SubContext, and the zero shares of pkg/mpc/zero/przs.  Neither  *)
(* changes the context (SubContext and Seeds read from copies of the       *)
(* streams), so both are functions of it.  Hashes and streams are named by *)
(* what went into them.                                                    *)
(***************************************************************************)
EXTENDS SessionSetup, Sequences

\* Mutated form: the sub-quorum goes into the transcript only.
SubContext_SeedsAsBefore(p, ctx, sub) ==
    [common |-> ctx.common,
     tape   |-> Append(ctx.tape, sub),
     seeds  |-> [q \in sub \ {p} |-> ctx.seeds[q]]]

SubContext(p, ctx, sub) ==
    [common |-> ctx.common,
     tape   |-> Append(ctx.tape, sub),
     seeds  |-> [q \in sub \ {p} |-> [from |-> ctx.seeds[q], quorum |-> sub]]]

\* Mutated form: nothing is negated.
SampleZeroShare_AllPositive(p, ctx) ==
    {[stream |-> ctx.seeds[q], sign |-> 1] : q \in DOMAIN ctx.seeds}

\* SampleZeroShare: the group elements drawn from the streams, with their signs.
SampleZeroShare(p, ctx) ==
    {[stream |-> ctx.seeds[q], sign |-> IF q < p THEN 0 - 1 ELSE 1] : q \in DOMAIN ctx.seeds}

\* The contexts two parties may derive in the same way: none, one or two
\* sub-contexts, one inside the other.
SubQuorums == {sub \in SUBSET Quorum : Cardinality(sub) >= 2}
Paths ==
    {<<>>} \cup {<<sub>> : sub \in SubQuorums}
    \cup {<<sub, subsub>> : sub \in SubQuorums, subsub \in SubQuorums}

\* The paths on which SubContext returns no error to p.
Open(p) ==
    {path \in Paths :
        /\ \A i \in 1 .. Len(path) : p \in path[i]
        /\ \A i \in 2 .. Len(path) : path[i] \subseteq path[i - 1]}

Derived(p, path) ==
    CASE Len(path) = 0 -> context[p]
      [] Len(path) = 1 -> SubContext(p, context[p], path[1])
      [] Len(path) = 2 -> SubContext(p, SubContext(p, context[p], path[1]), path[2])

Negated(share) == {[e EXCEPT !.sign = 0 - @] : e \in share}

-----------------------------------------------------------------------------
\* Doc of SampleZeroShare: "an additive share that sums to the group identity
\* across the quorum".  In every context two honest parties have in common, they
\* read the same stream ("both sides derive identical material"), what one adds
\* for the other the other subtracts, and nothing else cancels.
\* With two parties left, the shares are each other's negations.
PairwiseSharesCancel ==
    \A p, q \in Honest : p # q /\ Finished(p) /\ Finished(q) =>
        \A path \in Open(p) \cap Open(q) :
            LET mine   == SampleZeroShare(p, Derived(p, path))
                theirs == SampleZeroShare(q, Derived(q, path))
                common == mine \cap Negated(theirs)
            IN  /\ Cardinality(common) = 1
                /\ common = {e \in mine : e.stream = Derived(p, path).seeds[q]}
                /\ mine \cap theirs = {}

\* README of session: setup avoids "transcript/domain collisions across protocol
\* instances" and gives "the same session identity and transcript
\* initialization".  Parties that derive their contexts along the same path have
\* the same common seed and transcript, also when some of their calls failed
\* half-way and were repeated; contexts on different paths share neither a transcript nor
\* a stream, though all are read from the same pairwise seeds.
ContextsSeparate ==
    \A p, q \in Honest : Finished(p) /\ Finished(q) =>
        \A a \in Open(p), b \in Open(q) :
            /\ Derived(p, a).common = Derived(q, b).common
            /\ (a = b) <=> (Derived(p, a).tape = Derived(q, b).tape)
            /\ a # b => \A i \in DOMAIN Derived(p, a).seeds, j \in DOMAIN Derived(q, b).seeds :
                  Derived(p, a).seeds[i] # Derived(q, b).seeds[j]
=============================================================================
