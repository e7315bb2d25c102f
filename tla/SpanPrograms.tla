---------------------------- MODULE SpanPrograms ----------------------------
(***************************************************************************)
(* Monotone span programmes over the integers modulo q                     *)
(* (pkg/mpc/sharing/scheme/kw/msp) and the matrices that the access        *)
(* structures induce.  An MSP is a sequence of rows, each with the holder  *)
(* it is labelled with; the target is the unit vector (1, 0, ..., 0).      *)
(***************************************************************************)
EXTENDS AccessPolicies

CONSTANT q    \* order of the prime field

ASSUME FieldAssumption == q \in Nat /\ q > 1

\* The result of a constructor that returns an error.
Failed == << >>

Row(holder, values) == [holder |-> holder, values |-> [c \in DOMAIN values |-> values[c] % q]]
Unit(i, n) == [c \in 1 .. n |-> IF c = i THEN 1 ELSE 0]
Holders(msp) == {msp[r].holder : r \in DOMAIN msp}

\* One turn of solveAugmented: a row that has something in column c clears it in
\* all others; without one, the target must have nothing there.
Eliminate(s, c) ==
    IF \A v \in s.rows : v[c] = 0 THEN [s EXCEPT !.solvable = @ /\ s.target[c] = 0]
    ELSE LET pivot == CHOOSE v \in s.rows : v[c] # 0
             Clear(v) == [k \in DOMAIN v |-> (v[k] * pivot[c] - v[c] * pivot[k]) % q]
         IN  [s EXCEPT !.rows = {Clear(v) : v \in @ \ {pivot}}, !.target = Clear(@)]

\* mat.SolveLeft: whether target is a combination of the rows, by elimination
\* of one column after the other.
InSpan(rows, target) ==
    LET eliminated[c \in 0 .. Len(target)] ==
            IF c = 0 THEN [rows |-> rows, target |-> target, solvable |-> TRUE]
            ELSE Eliminate(eliminated[c - 1], c)
    IN  eliminated[Len(target)].solvable

\* MSP.Accepts: ReconstructionVector finds the rows of every ID and a solution.
Accepts(msp, ids) ==
    LET selected == {r \in DOMAIN msp : msp[r].holder \in ids}
    IN  /\ ids \subseteq Holders(msp)
        /\ selected # {}
        /\ InSpan({msp[r].values : r \in selected}, Unit(1, Len(msp[1].values)))

\* The elements of S in the order that a set of pairs gives: at place i the one
\* that i - 1 others come before.
InOrder(S, before) ==
    [i \in 1 .. Cardinality(S) |->
        CHOOSE x \in S : Cardinality({y \in S : <<y, x>> \in before}) = i - 1]

Sorted(ids) == InOrder(ids, {p \in ids \X ids : p[1] < p[2]})

-----------------------------------------------------------------------------
\* unanimity.InducedMSP: ones above the diagonal, last row (1, -1, ..., -1).
UnanimityMSP(ps) ==
    LET n == Cardinality(ps)
    IN  [r \in 1 .. n |->
           Row(Sorted(ps)[r],
               [c \in 1 .. n |-> IF r = n THEN (IF c = 1 THEN 1 ELSE -1)
                                 ELSE IF c = r + 1 THEN 1 ELSE 0])]

\* threshold.InducedMSP: the powers of the shareholder's ID.
ThresholdMSP(t, ps) ==
    [r \in 1 .. Cardinality(ps) |->
        Row(Sorted(ps)[r], [c \in 1 .. t |-> Sorted(ps)[r] ^ (c - 1)])]

\* IDs grow from level to level.
Ascending(levels) ==
    \A i \in 2 .. Len(levels) : \A id \in levels[i].parties :
        id > Max(Cumulative(levels, i - 1))

\* alpha(k) * n^((k-1)(k-2)/2) < q, here squared to stay with integers; n and k
\* are one more than the largest ID and threshold.  What has reached the bound
\* is not multiplied further.
FieldSuffices(n, k) ==
    LET bound == q ^ 2 * 4 ^ (k - 2)
        grown[i \in 0 .. (k - 1) * (k - 2)] ==
            IF i = 0 THEN (k - 1) ^ (k - 1) * ProductSet(1 .. k - 1) ^ 2
            ELSE Min({bound, grown[i - 1] * n})
    IN  grown[(k - 1) * (k - 2)] < bound

\* Mutated form: the size of the field is not looked at.
CheckConstraints_AnyField(levels) == Ascending(levels)

\* hierarchical.CheckConstraints
CheckConstraints(levels) ==
    LET n == Max(Cumulative(levels, Len(levels))) + 1
        k == levels[Len(levels)].threshold + 1
    IN  Ascending(levels) /\ k <= 20 /\ FieldSuffices(n, k)

\* birkhoff Phi: the j-th derivative of x^t.
Phi(t, x, j) == IF j > t THEN 0 ELSE ProductSet(t - j + 1 .. t) * x ^ (t - j)

\* hierarchical.InducedMSP: one Birkhoff row for every shareholder.
HierarchicalMSP(levels) ==
    LET ids == Cumulative(levels, Len(levels))
    IN  IF ~CheckConstraints(levels) THEN Failed
        ELSE [r \in 1 .. Cardinality(ids) |->
                LET id == Sorted(ids)[r]
                IN  Row(id, [c \in 1 .. levels[Len(levels)].threshold |->
                               Phi(c - 1, id, Rank(levels, id))])]

\* The bit set of a is the smaller number: the largest ID that only one of the two
\* has is in b.  IDs above 64 make NewImmutableBitSet panic.
BitSetLess(a, b) == \E id \in b \ a : \A other \in (a \ b) \cup (b \ a) : other <= id

\* Clauses in the order of the bit sets of their unqualified sets.
ClauseOrder(sets) == InOrder(sets, {p \in sets \X sets : BitSetLess(p[1], p[2])})

\* Mutated form: the unit vectors are not subtracted from the last one.
ClauseVector_NoSubtraction(i, m) == IF i < m THEN Unit(i + 1, m) ELSE Unit(1, m)

\* A unit vector for all but the last clause, whose vector makes the sum of one
\* vector per clause the target.
ClauseVector(i, m) ==
    IF i < m THEN Unit(i + 1, m) ELSE [c \in 1 .. m |-> IF c = 1 THEN 1 ELSE -1]

\* cnf.InducedMSP: the vector of every clause once for each of its members.
CnfMSP(sets) ==
    LET m == Len(sets)
        all == UNION ToSet(sets)
        sorted == ClauseOrder(ToSet(sets))
        members == [i \in 1 .. m |-> Sorted(all \ sorted[i])]
    IN  FlattenSeq([i \in 1 .. m |->
           [r \in DOMAIN members[i] |-> Row(members[i][r], ClauseVector(i, m))]])
=============================================================================
