--------------------------- MODULE AccessPolicies ---------------------------
(***************************************************************************)
(* pkg/mpc/sharing/accessstructures: the five kinds of monotone access     *)
(* structure, what their constructors accept, which sets of shareholders   *)
(* they qualify and which maximal unqualified sets they list.              *)
(*                                                                         *)
(*   unanimity     [kind, ps]                                              *)
(*   threshold     [kind, t, ps]                                           *)
(*   cnf           [kind, sets]     the unqualified sets it is built from  *)
(*   hierarchical  [kind, levels]   a sequence of [threshold, parties]     *)
(*   gates         [kind, nodes]    a tree of threshold gates (boolexpr)   *)
(***************************************************************************)
EXTENDS Integers, Sequences, FiniteSets, FiniteSetsExt, SequencesExt

(***************************************************************************)
(* Trees of threshold gates.  A tree is a sequence of nodes, the root      *)
(* first; a gate holds the numbers of its children, as a Node holds        *)
(* pointers.  A node that is used in two places counts as two nodes:       *)
(* nothing changes a node once it is made.                                 *)
(***************************************************************************)
IsGate(node) == node.kind = "gate"

\* boolexpr ID and Threshold: a leaf, and a gate over trees made before.
Attribute(id) == <<[kind |-> "attribute", attr |-> id]>>

Gate(threshold, children) ==
    LET first[i \in 1 .. Len(children) + 1] ==
            IF i = 1 THEN 2 ELSE first[i - 1] + Len(children[i - 1])
        Moved(node, by) ==
            IF IsGate(node) THEN [node EXCEPT !.children = [c \in DOMAIN @ |-> @[c] + by]]
            ELSE node
    IN  <<[kind |-> "gate", threshold |-> threshold,
           children |-> [i \in DOMAIN children |-> first[i]]]>>
        \o FlattenSeq([i \in DOMAIN children |->
              [n \in DOMAIN children[i] |-> Moved(children[i][n], first[i] - 1)]])

Gates(nodes) == {n \in DOMAIN nodes : IsGate(nodes[n])}
LeavesOf(nodes) == {n \in DOMAIN nodes : ~IsGate(nodes[n])}

\* The places of a tree: <<g, i>> is the place of the i-th child of gate g.
Places(nodes) == UNION {{<<g, i>> : i \in DOMAIN nodes[g].children} : g \in Gates(nodes)}
ChildAt(nodes, e) == nodes[e[1]].children[e[2]]

Node == [kind : {"attribute"}, attr : Nat]
        \cup [kind : {"gate"}, threshold : Int, children : Seq(Nat)]

\* What the constructors make: every node but the root is a child in one place,
\* and comes after the gate it is a child of.
IsTree(nodes) ==
    /\ nodes \in Seq(Node) /\ nodes # << >>
    /\ \A e \in Places(nodes) : e[1] < ChildAt(nodes, e) /\ ChildAt(nodes, e) <= Len(nodes)
    /\ \A n \in 2 .. Len(nodes) : \E e \in Places(nodes) : n = ChildAt(nodes, e)
    /\ \A d, e \in Places(nodes) : ChildAt(nodes, d) = ChildAt(nodes, e) => d = e

\* checkTree: duplicates are looked for among the direct leaves of one gate.
CheckNode(nodes, node) ==
    \/ node.kind = "attribute" /\ node.attr # 0
    \/ /\ IsGate(node)
       /\ node.threshold \in 1 .. Len(node.children)
       /\ \A i, j \in DOMAIN node.children :
             /\ node.children[i] \in LeavesOf(nodes)
             /\ nodes[node.children[i]] = nodes[node.children[j]]
             => i = j

CheckTree(nodes) == \A n \in DOMAIN nodes : CheckNode(nodes, nodes[n])

AllShareholders(nodes) == {nodes[n].attr : n \in LeavesOf(nodes)}

\* treeEval at every node.
TreeEval(nodes, ids) ==
    LET eval[n \in DOMAIN nodes] ==
            IF IsGate(nodes[n])
            THEN Cardinality({i \in DOMAIN nodes[n].children : eval[nodes[n].children[i]]})
                    >= nodes[n].threshold
            ELSE nodes[n].attr \in ids
    IN  eval

TreeCountLeaves(nodes) == Cardinality(LeavesOf(nodes))

-----------------------------------------------------------------------------
\* Parties of the first n levels.
Cumulative(levels, n) == UNION {levels[i].parties : i \in 1 .. n}

\* NewHierarchicalConjunctiveThresholdAccessStructure
ValidLevels(levels) ==
    /\ levels # << >>
    /\ \A i \in DOMAIN levels :
          /\ 0 \notin levels[i].parties
          /\ levels[i].threshold > IF i = 1 THEN 0 ELSE levels[i - 1].threshold
          /\ Cumulative(levels, i - 1) \cap levels[i].parties = {}
          /\ Cardinality(Cumulative(levels, i)) >= levels[i].threshold

\* Threshold of the level before the one that holds id.
Rank(levels, id) ==
    LET i == CHOOSE i \in DOMAIN levels : id \in levels[i].parties
    IN  IF i = 1 THEN 0 ELSE levels[i - 1].threshold

\* normaliseCNF: the sets that lie in no other one.
NormaliseCNF(sets) == {s \in sets : \A other \in sets : s \subseteq other => s = other}

ValidCNF(sets) ==
    /\ sets # {}
    /\ \A s \in sets : s # {} /\ 0 \notin s
    /\ Cardinality(UNION NormaliseCNF(sets)) >= 2

-----------------------------------------------------------------------------
ValidUnanimity(ps) == Cardinality(ps) >= 2 /\ 0 \notin ps
ValidThreshold(t, ps) == 0 \notin ps /\ t \in 2 .. Cardinality(ps)

\* The checks of the constructors.
Valid(ac) ==
    CASE ac.kind = "unanimity"    -> ValidUnanimity(ac.ps)
      [] ac.kind = "threshold"    -> ValidThreshold(ac.t, ac.ps)
      [] ac.kind = "cnf"          -> ValidCNF(ac.sets)
      [] ac.kind = "hierarchical" -> ValidLevels(ac.levels)
      [] ac.kind = "gates"        -> CheckTree(ac.nodes)

Shareholders(ac) ==
    CASE ac.kind \in {"unanimity", "threshold"} -> ac.ps
      [] ac.kind = "cnf"          -> UNION NormaliseCNF(ac.sets)
      [] ac.kind = "hierarchical" -> Cumulative(ac.levels, Len(ac.levels))
      [] ac.kind = "gates"        -> AllShareholders(ac.nodes)

ThresholdQualified(t, ps, ids) == Cardinality(ids) >= t /\ ids \subseteq ps

CNFQualified(sets, ids) == ids \subseteq UNION sets /\ \A u \in sets : ~(ids \subseteq u)

LevelsQualified(levels, ids) ==
    \A i \in DOMAIN levels :
        Cardinality(Cumulative(levels, i) \cap ids) >= levels[i].threshold

IsQualified(ac, ids) ==
    CASE ac.kind = "unanimity"    -> ids = ac.ps
      [] ac.kind = "threshold"    -> ThresholdQualified(ac.t, ac.ps, ids)
      [] ac.kind = "cnf"          -> CNFQualified(NormaliseCNF(ac.sets), ids)
      [] ac.kind = "hierarchical" -> LevelsQualified(ac.levels, ids)
      [] ac.kind = "gates"        -> TreeEval(ac.nodes, ids)[1]

\* MaximalUnqualifiedSetsIter where it is not a search: the subsets one short
\* of the threshold, and the sets a CNF holds.
ListedMaximalUnqualifiedSets(ac) ==
    CASE ac.kind = "unanimity" -> kSubset(Cardinality(ac.ps) - 1, ac.ps)
      [] ac.kind = "threshold" -> kSubset(ac.t - 1, ac.ps)
      [] ac.kind = "cnf"       -> NormaliseCNF(ac.sets)
=============================================================================
