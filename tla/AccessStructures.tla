-------------------------- MODULE AccessStructures --------------------------
(***************************************************************************)
(* An access structure from its construction to the span programmes a      *)
(* sharing scheme uses: InducedMSP, for threshold-gate trees the loop of   *)
(* convert (boolexpr/msp.go), and the way over the maximal unqualified     *)
(* sets (internal/mus.go) to CNF that InducedMSP takes for structures of   *)
(* an unknown type.                                                        *)
(***************************************************************************)
EXTENDS SpanPrograms

CONSTANT Structures    \* what callers hand to the constructors

\* Of the types that the constructors' parameters have.
WellTyped(ac) ==
    \/ ac.kind = "unanimity" /\ IsFiniteSet(ac.ps) /\ ac.ps \subseteq Nat
    \/ ac.kind = "threshold" /\ ac.t \in Int /\ IsFiniteSet(ac.ps) /\ ac.ps \subseteq Nat
    \/ ac.kind = "cnf" /\ IsFiniteSet(ac.sets)
          /\ \A s \in ac.sets : IsFiniteSet(s) /\ s \subseteq Nat
    \/ ac.kind = "hierarchical" /\ ac.levels \in Seq([threshold : Int, parties : SUBSET Nat])
          /\ \A i \in DOMAIN ac.levels : IsFiniteSet(ac.levels[i].parties)
    \/ ac.kind = "gates" /\ IsTree(ac.nodes)

ASSUME StructuresAssumption == \A ac \in Structures : WellTyped(ac)

VARIABLES
    ac,      \* the access structure
    stage,   \* how far it has come
    l,       \* convert: the nodes that label the first m rows
    bigM,    \* convert: the first m rows, each of d entries
    msp,     \* the span programme InducedMSP returns
    t,       \* BruteForceMaximalUnqualifiedSets: size of the sets looked at
    muss,    \* the maximal unqualified sets found so far
    cnf,     \* CNF.maximalUnqualifiedSets after ConvertToCNF
    cnfMsp   \* what cnf.InducedMSP makes of it

vars == <<ac, stage, l, bigM, msp, t, muss, cnf, cnfMsp>>

\* The orders in which the elements of S may come out of a Go map.
Orders(S) == SetToSeqs(S)

Init ==
    /\ ac \in Structures
    /\ stage = "new"
    /\ l = << >>
    /\ bigM = << >>
    /\ msp = Failed
    /\ t = 0
    /\ muss = {}
    /\ cnf = << >>
    /\ cnfMsp = Failed

New ==
    /\ stage = "new"
    /\ Valid(ac)
    /\ stage' = "constructed"
    /\ UNCHANGED <<ac, l, bigM, msp, t, muss, cnf, cnfMsp>>

Reject ==
    /\ stage = "new"
    /\ ~Valid(ac)
    /\ stage' = "rejected"
    /\ UNCHANGED <<ac, l, bigM, msp, t, muss, cnf, cnfMsp>>

\* InducedMSP of the kinds whose matrix is written down in one go.
InduceDirectly ==
    /\ stage = "constructed"
    /\ ac.kind # "gates"
    /\ \E order \in Orders(IF ac.kind = "cnf" THEN NormaliseCNF(ac.sets) ELSE {}) :
          msp' = CASE ac.kind = "unanimity"    -> UnanimityMSP(ac.ps)
                   [] ac.kind = "threshold"    -> ThresholdMSP(ac.t, ac.ps)
                   [] ac.kind = "hierarchical" -> HierarchicalMSP(ac.levels)
                   [] ac.kind = "cnf"          -> CnfMSP(order)
    /\ stage' = "induced"
    /\ UNCHANGED <<ac, l, bigM, t, muss, cnf, cnfMsp>>

-----------------------------------------------------------------------------
\* convert, step 1
BeginConvert ==
    /\ stage = "constructed"
    /\ ac.kind = "gates"
    /\ l' = <<1>>
    /\ bigM' = <<<<1>>>>
    /\ stage' = "convert"
    /\ UNCHANGED <<ac, msp, t, muss, cnf, cnfMsp>>

\* Mutated form: the powers start with the zeroth.
Powers_FromZero(x, n) == [j \in 1 .. n |-> x ^ (j - 1)]

\* Steps 29 to 33: x, x^2, ..., x^n.
Powers(x, n) == [j \in 1 .. n |-> x ^ j]

\* d2 - 1
NewColumns(gate) == gate.threshold - 1

\* Row z makes way for others.
Replace(s, z, others) == SubSeq(s, 1, z - 1) \o others \o SubSeq(s, z + 1, Len(s))

\* Steps 10 to 45: the first gate's row makes way for one row per child, and
\* all other rows are padded with zeros.
ExpandGate ==
    /\ stage = "convert"
    /\ \E z \in DOMAIN l :
          /\ IsGate(ac.nodes[l[z]])
          /\ \A i \in 1 .. z - 1 : ~IsGate(ac.nodes[l[i]])
          /\ LET fz == ac.nodes[l[z]]
                 zeros == [j \in 1 .. NewColumns(fz) |-> 0]
                 padded == [i \in DOMAIN bigM |-> bigM[i] \o zeros]
                 block == [x \in DOMAIN fz.children |-> bigM[z] \o Powers(x, NewColumns(fz))]
             IN  /\ l' = Replace(l, z, fz.children)
                 /\ bigM' = Replace(padded, z, block)
    /\ UNCHANGED <<ac, stage, msp, t, muss, cnf, cnfMsp>>

\* No gate is left: the rows go to the holders their labels name.
EndConvert ==
    /\ stage = "convert"
    /\ \A i \in DOMAIN l : ~IsGate(ac.nodes[l[i]])
    /\ msp' = [i \in DOMAIN l |-> Row(ac.nodes[l[i]].attr, bigM[i])]
    /\ stage' = "induced"
    /\ UNCHANGED <<ac, l, bigM, t, muss, cnf, cnfMsp>>

-----------------------------------------------------------------------------
ListSets ==
    /\ stage = "induced"
    /\ ac.kind \notin {"gates", "hierarchical"}
    /\ muss' = ListedMaximalUnqualifiedSets(ac)
    /\ stage' = "listed"
    /\ UNCHANGED <<ac, l, bigM, msp, t, cnf, cnfMsp>>

BeginSearch ==
    /\ stage = "induced"
    /\ ac.kind \in {"gates", "hierarchical"}
    /\ t' = Cardinality(Shareholders(ac))
    /\ stage' = "search"
    /\ UNCHANGED <<ac, l, bigM, msp, muss, cnf, cnfMsp>>

\* Mutated form: a set is only compared with the one it was extended to last.
Found_Smaller(size) ==
    {s \in kSubset(size, Shareholders(ac)) :
        ~IsQualified(ac, s) /\ \A mus \in muss : Cardinality(mus) > size + 1 => ~(s \subseteq mus)}

\* The unqualified sets of one size that lie in none found before.
Found(size) ==
    {s \in kSubset(size, Shareholders(ac)) :
        ~IsQualified(ac, s) /\ \A mus \in muss : ~(s \subseteq mus)}

\* One turn of the loop over t.
SearchSize ==
    /\ stage = "search"
    /\ t >= 1
    /\ muss' = muss \cup Found(t)
    /\ t' = t - 1
    /\ UNCHANGED <<ac, stage, l, bigM, msp, cnf, cnfMsp>>

EndSearch ==
    /\ stage = "search"
    /\ t = 0
    /\ stage' = "listed"
    /\ UNCHANGED <<ac, l, bigM, msp, t, muss, cnf, cnfMsp>>

\* The sets arrive in the order of a Go map, which is any order.
ConvertToCNF ==
    /\ stage = "listed"
    /\ ValidCNF(muss)
    /\ \E order \in Orders(NormaliseCNF(muss)) :
          /\ cnf' = order
          /\ cnfMsp' = CnfMSP(order)
    /\ stage' = "converted"
    /\ UNCHANGED <<ac, l, bigM, msp, t, muss>>

ConvertFails ==
    /\ stage = "listed"
    /\ ~ValidCNF(muss)
    /\ stage' = "unconvertible"
    /\ UNCHANGED <<ac, l, bigM, msp, t, muss, cnf, cnfMsp>>

Next ==
    \/ New \/ Reject
    \/ InduceDirectly \/ BeginConvert \/ ExpandGate \/ EndConvert
    \/ ListSets \/ BeginSearch \/ SearchSize \/ EndSearch
    \/ ConvertToCNF \/ ConvertFails

Spec == Init /\ [][Next]_vars

-----------------------------------------------------------------------------
Leaves == TreeCountLeaves(ac.nodes)
Alone == {id \in Shareholders(ac) : IsQualified(ac, {id})}

\* Types of the state; nobody has the ID 0, which the dealer's secret has in
\* the matrices.
TypeOK ==
    /\ stage \in {"new", "rejected", "constructed", "convert", "induced", "search",
                  "listed", "converted", "unconvertible"}
    /\ Len(l) = Len(bigM)
    /\ t \in Nat
    /\ stage \notin {"new", "rejected"} => Shareholders(ac) \subseteq Nat \ {0}
    /\ muss \subseteq SUBSET Shareholders(ac)
    /\ Holders(msp) \cup Holders(cnfMsp) \subseteq Shareholders(ac)

\* msp.go: "Accepts reports whether the given shareholder IDs form a qualified
\* set".  Whenever InducedMSP returns one, for every kind of structure, it
\* accepts exactly the qualified sets among the shareholders it has rows for
\* (a CNF gives no row to a shareholder that is in every unqualified set, and
\* Accepts refuses any set with such a shareholder).
MspRealizesPolicy ==
    msp # Failed =>
        \A ids \in SUBSET Holders(msp) : Accepts(msp, ids) <=> IsQualified(ac, ids)

\* What ConvertToCNF makes of a structure: a CNF over all shareholders but those
\* qualified alone, which qualifies the same sets of them; and "every caller
\* (potentially running in separate processes) produces the same MSP matrix and
\* row-to-holder mapping" (cnf.go), whatever the order in which the unqualified
\* sets came out of a Go map.
CnfKeepsSets ==
    stage = "converted" =>
        /\ cnfMsp = CnfMSP(SetToSeq(NormaliseCNF(muss)))
        /\ UNION ToSet(cnf) = Shareholders(ac) \ Alone
        /\ \A ids \in SUBSET UNION ToSet(cnf) : CNFQualified(ToSet(cnf), ids) <=> IsQualified(ac, ids)

\* The same of the programme that goes over CNF: it has all shareholders but
\* those qualified alone and those whom nobody needs, and says of them what the
\* structure says.
CnfKeepsPolicy ==
    /\ CnfKeepsSets
    /\ stage = "converted" =>
          \A ids \in SUBSET Holders(cnfMsp) : Accepts(cnfMsp, ids) <=> IsQualified(ac, ids)

\* Matrix and labels fit the buffer of leaves x leaves cells, which the loop of
\* convert never leaves and in the end fills with labels; labels that were not
\* filled in would be nil where the loop over l reads their kind.
ConvertFits ==
    stage = "convert" =>
        /\ Len(l) <= Leaves
        /\ \A i \in DOMAIN bigM : Len(bigM[i]) <= Leaves
        /\ (\A i \in DOMAIN l : ~IsGate(ac.nodes[l[i]])) => Len(l) = Leaves

\* What every turn of convert's loop keeps: the buffer holds it, and the rows
\* whose labels a set satisfies span the target exactly when the set satisfies
\* the whole tree.
ConvertInvariant ==
    /\ ConvertFits
    /\ stage = "convert" =>
          \A ids \in SUBSET Shareholders(ac) :
             LET satisfied == TreeEval(ac.nodes, ids)
                 rows == {[c \in DOMAIN bigM[i] |-> bigM[i][c] % q] :
                             i \in {i \in DOMAIN l : satisfied[l[i]]}}
             IN  InSpan(rows, Unit(1, Len(bigM[1]))) <=> satisfied[1]

\* Unqualified sets that nobody can join without qualifying them.  The empty set
\* is left out: it is one only when everybody is qualified alone, as in Or(1, 2).
\* The comment at mus.go:18 would count it there, but the search stops at size 1
\* and lists nothing, and cnf.go:121 refuses an empty set.
MaximalUnqualified ==
    {s \in (SUBSET Shareholders(ac)) \ {{}} :
        /\ ~IsQualified(ac, s)
        /\ \A id \in Shareholders(ac) \ s : IsQualified(ac, s \cup {id})}

\* The sets a structure lists are its maximal unqualified sets, all of them but
\* the empty one and nothing else.
MaximalSetsExact == stage = "listed" => muss = MaximalUnqualified
=============================================================================
