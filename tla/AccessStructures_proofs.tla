----------------------- MODULE AccessStructures_proofs -----------------------
(***************************************************************************)
(* Access structures of every kind over any number of shareholders: the    *)
(* sets that are listed, by the search too, are all maximal unqualified    *)
(* sets; the way over CNF keeps the policy, down to what its matrix        *)
(* accepts, and does not depend on the order of a Go map; convert's loop   *)
(* fits the buffer it allocates.                                           *)
(*                                                                         *)
(* All of it rests on the policies being monotone.                         *)
(***************************************************************************)
EXTENDS AccessStructures, FiniteSetTheorems, SequenceTheorems,
        WellFoundedInduction, TLAPS

-----------------------------------------------------------------------------
\* A set of numbers has a smallest one, and one that is bounded a largest.
LEMMA Smallest ==
    ASSUME NEW T \in SUBSET Nat, T # {}
    PROVE  \E n \in T : \A m \in T : n <= m
  <1> DEFINE below == {pair \in Nat \X Nat : pair[1] < pair[2]}
  <1>1. IsWellFoundedOn(below, Nat)
    BY NatLessThanWellFounded DEF OpToRel
  <1>2. \E n \in T : \A m \in T : <<m, n>> \notin below
    <2> HIDE DEF below
    <2> QED
      BY <1>1, WFMin
  <1>3. PICK n \in T : \A m \in T : <<m, n>> \notin below
    BY <1>2
  <1>4. ASSUME NEW m \in T PROVE n <= m
    <2>1. <<m, n>> \in Nat \X Nat /\ <<m, n>> \notin below
      BY <1>3
    <2> QED
      BY <2>1
  <1> QED
    BY <1>4

LEMMA Largest ==
    ASSUME NEW T \in SUBSET Nat, NEW top \in Nat, \A m \in T : m <= top, T # {}
    PROVE  \E n \in T : \A m \in T : m <= n
  <1> DEFINE gaps == {top - m : m \in T}
  <1>1. gaps \in SUBSET Nat /\ gaps # {}
    <2>1. \A m \in T : top - m \in Nat
      OBVIOUS
    <2>2. PICK m \in T : TRUE
      OBVIOUS
    <2>3. top - m \in gaps
      OBVIOUS
    <2> QED
      BY <2>1, <2>3
  <1>2. PICK gap \in gaps : \A other \in gaps : gap <= other
    BY <1>1, Smallest
  <1>3. PICK n \in T : gap = top - n
    BY <1>2
  <1>4. ASSUME NEW m \in T PROVE m <= n
    <2>1. gap <= top - m
      BY <1>2
    <2> QED
      BY <2>1, <1>3
  <1> QED
    BY <1>4

-----------------------------------------------------------------------------
(***************************************************************************)
(* Trees of gates.  treeEval recurs into the children of a gate, which     *)
(* come after it: its equation has a solution, made from the last node on. *)
(***************************************************************************)
LEMMA TreeShape ==
    ASSUME NEW nodes, IsTree(nodes)
    PROVE  /\ Len(nodes) \in Nat \ {0} /\ DOMAIN nodes = 1 .. Len(nodes)
           /\ \A n \in DOMAIN nodes : nodes[n] \in Node
           /\ \A n \in DOMAIN nodes : ~IsGate(nodes[n]) => nodes[n].attr \in Nat
           /\ \A g \in Gates(nodes) :
                 /\ g \in DOMAIN nodes
                 /\ nodes[g].threshold \in Int
                 /\ nodes[g].children \in Seq(Nat)
                 /\ \A i \in DOMAIN nodes[g].children :
                       /\ nodes[g].children[i] \in DOMAIN nodes
                       /\ g < nodes[g].children[i]
  <1>1. nodes \in Seq(Node) /\ nodes # << >>
    BY DEF IsTree
  <1>2. Len(nodes) \in Nat \ {0} /\ DOMAIN nodes = 1 .. Len(nodes)
    BY <1>1, EmptySeq, LenProperties
  <1>3. \A n \in DOMAIN nodes : nodes[n] \in Node
    BY <1>1, <1>2, ElementOfSeq
  <1>4. \A n \in DOMAIN nodes : ~IsGate(nodes[n]) => nodes[n].attr \in Nat
    BY <1>3 DEF Node, IsGate
  <1>5. ASSUME NEW g \in Gates(nodes)
        PROVE  /\ g \in DOMAIN nodes
               /\ nodes[g].threshold \in Int
               /\ nodes[g].children \in Seq(Nat)
               /\ \A i \in DOMAIN nodes[g].children :
                     /\ nodes[g].children[i] \in DOMAIN nodes
                     /\ g < nodes[g].children[i]
    <2>1. g \in DOMAIN nodes /\ nodes[g].threshold \in Int /\ nodes[g].children \in Seq(Nat)
      BY <1>3 DEF Gates, Node, IsGate
    <2>2. ASSUME NEW i \in DOMAIN nodes[g].children
          PROVE  /\ nodes[g].children[i] \in DOMAIN nodes
                 /\ g < nodes[g].children[i]
      <3>1. <<g, i>> \in Places(nodes)
        BY DEF Places
      <3>2. ChildAt(nodes, <<g, i>>) = nodes[g].children[i]
        BY DEF ChildAt
      <3>3. g < nodes[g].children[i] /\ nodes[g].children[i] <= Len(nodes)
        BY <3>1, <3>2 DEF IsTree
      <3>4. nodes[g].children[i] \in Nat
        BY <2>1, LenProperties, ElementOfSeq
      <3> QED
        BY <3>3, <3>4, <2>1, <1>2
    <2> QED
      BY <2>1, <2>2
  <1> QED
    BY <1>2, <1>3, <1>4, <1>5

\* What treeEval makes of node n when it has made e of the others.
NodeEval(nodes, ids, e, n) ==
    IF IsGate(nodes[n])
    THEN Cardinality({i \in DOMAIN nodes[n].children : e[nodes[n].children[i]]})
            >= nodes[n].threshold
    ELSE nodes[n].attr \in ids

LEMMA NodeEvalLocal ==
    ASSUME NEW nodes, NEW ids, NEW d, NEW e, NEW n,
           IsGate(nodes[n]) =>
              \A i \in DOMAIN nodes[n].children : d[nodes[n].children[i]] = e[nodes[n].children[i]]
    PROVE  NodeEval(nodes, ids, d, n) = NodeEval(nodes, ids, e, n)
  <1>1. CASE ~IsGate(nodes[n])
    BY <1>1, Zenon DEF NodeEval
  <1>2. CASE IsGate(nodes[n])
    <2>1. {i \in DOMAIN nodes[n].children : d[nodes[n].children[i]]}
            = {i \in DOMAIN nodes[n].children : e[nodes[n].children[i]]}
      BY <1>2, Zenon
    <2> QED
      BY <2>1, <1>2, Zenon DEF NodeEval
  <1> QED
    BY <1>1, <1>2

LEMMA TreeSolution ==
    ASSUME NEW nodes, IsTree(nodes), NEW ids
    PROVE  \E e : e = [n \in DOMAIN nodes |-> NodeEval(nodes, ids, e, n)]
  <1> DEFINE last == Len(nodes)
             Value(e, n) == NodeEval(nodes, ids, e, n)
             From(k) == \E e : e = [n \in k .. last |-> Value(e, n)]
             starts == {k \in 1 .. last + 1 : From(k)}
  <1>1. last \in Nat \ {0} /\ DOMAIN nodes = 1 .. last
    BY TreeShape
  <1>2. ASSUME NEW k \in 2 .. last + 1, From(k)
        PROVE  From(k - 1)
    <2> HIDE DEF Value, last
    <2>1. PICK e : e = [n \in k .. last |-> Value(e, n)]
      BY <1>2
    <2> DEFINE d == [n \in k - 1 .. last |-> Value(e, n)]
    <2>2. \A n \in k .. last : d[n] = e[n]
      <3> TAKE n \in k .. last
      <3>1. n \in k - 1 .. last
        BY <1>1 DEF last
      <3>2. d[n] = Value(e, n)
        BY <3>1, Zenon
      <3>3. e[n] = Value(e, n)
        BY <2>1, Zenon
      <3> QED
        BY <3>2, <3>3, Zenon
    <2>3. ASSUME NEW n \in k - 1 .. last
          PROVE  Value(e, n) = Value(d, n)
      <3>1. ASSUME IsGate(nodes[n]), NEW i \in DOMAIN nodes[n].children
            PROVE  nodes[n].children[i] \in k .. last
        <4>1. n \in 1 .. last /\ n \in DOMAIN nodes
          BY <1>1
        <4>2. n \in Gates(nodes)
          BY <4>1, <3>1 DEF Gates
        <4>3. nodes[n].children[i] \in 1 .. last /\ n < nodes[n].children[i]
          BY <4>2, <1>1, TreeShape
        <4> QED
          BY <4>3, <4>1
      <3>2. IsGate(nodes[n]) => \A i \in DOMAIN nodes[n].children :
               e[nodes[n].children[i]] = d[nodes[n].children[i]]
        <4> HIDE DEF d
        <4> QED
          BY <3>1, <2>2, Zenon
      <3> QED
        <4> HIDE DEF d
        <4> QED
          BY <3>2, NodeEvalLocal, Zenon DEF Value
    <2>4. d = [n \in k - 1 .. last |-> Value(d, n)]
      BY <2>3, Zenon
    <2> QED
      BY <2>4, Zenon
  <1>3. From(last + 1)
    <2> DEFINE e == [n \in last + 1 .. last |-> TRUE]
    <2>1. last + 1 .. last = {}
      BY <1>1
    <2>2. e = [n \in last + 1 .. last |-> Value(e, n)]
      <3> HIDE DEF Value
      <3> QED
        BY <2>1, Zenon
    <2> QED
      BY <2>2, Zenon
  <1>4. From(1)
    <2> HIDE DEF From
    <2>1. last + 1 \in starts /\ starts \in SUBSET Nat
      BY <1>1, <1>3
    <2>2. PICK k \in starts : \A m \in starts : k <= m
      BY <2>1, Smallest
    <2>3. k \in 1 .. last + 1 /\ From(k)
      OBVIOUS
    <2>4. CASE k = 1
      BY <2>4, <2>3
    <2>5. CASE k # 1
      <3>1. k \in 2 .. last + 1
        BY <2>5, <2>3, <1>1
      <3>2. From(k - 1)
        BY <3>1, <2>3, <1>2
      <3>3. k - 1 \in starts
        BY <3>1, <3>2, <1>1
      <3>4. k <= k - 1
        BY <3>3, <2>2
      <3> QED
        BY <3>4, <3>1
    <2> QED
      BY <2>4, <2>5
  <1> QED
    BY <1>4, <1>1, Zenon

LEMMA TreeEquation ==
    ASSUME NEW nodes, IsTree(nodes), NEW ids
    PROVE  \A n \in DOMAIN nodes :
              TreeEval(nodes, ids)[n] = NodeEval(nodes, ids, TreeEval(nodes, ids), n)
  <1> DEFINE chosen == CHOOSE e : e = [n \in DOMAIN nodes |-> NodeEval(nodes, ids, e, n)]
  <1>1. TreeEval(nodes, ids) = chosen
    BY Zenon DEF TreeEval, NodeEval
  <1>2. chosen = [n \in DOMAIN nodes |-> NodeEval(nodes, ids, chosen, n)]
    BY TreeSolution, Zenon
  <1> HIDE DEF chosen
  <1>3. \A n \in DOMAIN nodes : chosen[n] = NodeEval(nodes, ids, chosen, n)
    BY <1>2, Zenon
  <1> QED
    BY <1>1, <1>3, Zenon

\* A tree that a set satisfies is satisfied by every larger one, node by node.
LEMMA TreeMonotone ==
    ASSUME NEW nodes, IsTree(nodes), NEW small, NEW big, small \subseteq big
    PROVE  \A n \in DOMAIN nodes : TreeEval(nodes, small)[n] => TreeEval(nodes, big)[n]
  <1> DEFINE d == TreeEval(nodes, small)
             e == TreeEval(nodes, big)
             bad == {n \in DOMAIN nodes : d[n] /\ ~e[n]}
  <1>1. /\ \A n \in DOMAIN nodes : d[n] = NodeEval(nodes, small, d, n)
        /\ \A n \in DOMAIN nodes : e[n] = NodeEval(nodes, big, e, n)
    BY TreeEquation
  <1>2. DOMAIN nodes = 1 .. Len(nodes) /\ Len(nodes) \in Nat
    BY TreeShape
  <1> HIDE DEF d, e
  <1> SUFFICES ASSUME bad # {} PROVE FALSE
    BY Zenon DEF d, e
  <1>3. bad \in SUBSET Nat /\ \A m \in bad : m <= Len(nodes)
    BY <1>2
  <1>4. PICK n \in bad : \A m \in bad : m <= n
    BY <1>2, <1>3, Largest
  <1>5. n \in DOMAIN nodes /\ d[n] /\ ~e[n]
    OBVIOUS
  <1>6. NodeEval(nodes, small, d, n) /\ ~NodeEval(nodes, big, e, n)
    BY <1>1, <1>5, Zenon
  <1>7. CASE ~IsGate(nodes[n])
    <2>1. nodes[n].attr \in small /\ nodes[n].attr \notin big
      BY <1>6, <1>7, Zenon DEF NodeEval
    <2> QED
      BY <2>1
  <1>8. CASE IsGate(nodes[n])
    <2> DEFINE dom == DOMAIN nodes[n].children
               D == {i \in dom : d[nodes[n].children[i]]}
               E == {i \in dom : e[nodes[n].children[i]]}
    <2>1. n \in Gates(nodes)
      BY <1>5, <1>8 DEF Gates
    <2>2. nodes[n].children \in Seq(Nat) /\ nodes[n].threshold \in Int
      BY <2>1, TreeShape
    <2>3. IsFiniteSet(dom)
      BY <2>2, LenProperties, FS_Interval
    <2>4. \A i \in dom : nodes[n].children[i] \notin bad
      <3> SUFFICES ASSUME NEW i \in dom, nodes[n].children[i] \in bad PROVE FALSE
        OBVIOUS
      <3>1. n < nodes[n].children[i]
        BY <2>1, TreeShape
      <3>2. nodes[n].children[i] <= n
        BY <1>4
      <3> QED
        BY <3>1, <3>2, <1>3
    <2>5. D \subseteq E
      <3>1. \A i \in dom : nodes[n].children[i] \in DOMAIN nodes
        BY <2>1, TreeShape
      <3> QED
        BY <2>4, <3>1, Zenon
    <2>6. Cardinality(D) >= nodes[n].threshold /\ ~(Cardinality(E) >= nodes[n].threshold)
      BY <1>6, <1>8, Zenon DEF NodeEval
    <2>7. IsFiniteSet(E)
      BY <2>3, FS_Subset
    <2>8. Cardinality(D) <= Cardinality(E) /\ Cardinality(D) \in Nat /\ Cardinality(E) \in Nat
      <3>1. IsFiniteSet(D)
        BY <2>3, FS_Subset
      <3>2. D \in SUBSET E
        BY <2>5
      <3> HIDE DEF D, E
      <3> QED
        BY <2>7, <3>1, <3>2, FS_Subset, FS_CardinalityType
    <2> HIDE DEF D, E
    <2> QED
      BY <2>6, <2>8, <2>2
  <1> QED
    BY <1>7, <1>8

-----------------------------------------------------------------------------
(***************************************************************************)
(* Policies.  For every kind: what the operators of a structure come to,   *)
(* its shareholders are finitely many, and it is monotone.                 *)
(***************************************************************************)
LEMMA UnanimityIs ==
    ASSUME NEW x, x.kind = "unanimity"
    PROVE  /\ WellTyped(x) => IsFiniteSet(x.ps) /\ x.ps \subseteq Nat
           /\ Valid(x) = ValidUnanimity(x.ps)
           /\ Shareholders(x) = x.ps
           /\ \A ids : IsQualified(x, ids) = (ids = x.ps)
           /\ ListedMaximalUnqualifiedSets(x) = kSubset(Cardinality(x.ps) - 1, x.ps)
  BY DEF WellTyped, Valid, Shareholders, IsQualified, ListedMaximalUnqualifiedSets

LEMMA ThresholdIs ==
    ASSUME NEW x, x.kind = "threshold"
    PROVE  /\ WellTyped(x) => x.t \in Int /\ IsFiniteSet(x.ps) /\ x.ps \subseteq Nat
           /\ Valid(x) = ValidThreshold(x.t, x.ps)
           /\ Shareholders(x) = x.ps
           /\ \A ids : IsQualified(x, ids) = ThresholdQualified(x.t, x.ps, ids)
           /\ ListedMaximalUnqualifiedSets(x) = kSubset(x.t - 1, x.ps)
  BY DEF WellTyped, Valid, Shareholders, IsQualified, ListedMaximalUnqualifiedSets

LEMMA CnfIs ==
    ASSUME NEW x, x.kind = "cnf"
    PROVE  /\ WellTyped(x) => IsFiniteSet(x.sets)
                 /\ \A s \in x.sets : IsFiniteSet(s) /\ s \subseteq Nat
           /\ Valid(x) = ValidCNF(x.sets)
           /\ Shareholders(x) = UNION NormaliseCNF(x.sets)
           /\ \A ids : IsQualified(x, ids) = CNFQualified(NormaliseCNF(x.sets), ids)
           /\ ListedMaximalUnqualifiedSets(x) = NormaliseCNF(x.sets)
  BY DEF WellTyped, Valid, Shareholders, IsQualified, ListedMaximalUnqualifiedSets

LEMMA HierarchicalIs ==
    ASSUME NEW x, x.kind = "hierarchical"
    PROVE  /\ WellTyped(x) =>
                 /\ x.levels \in Seq([threshold : Int, parties : SUBSET Nat])
                 /\ \A i \in DOMAIN x.levels : IsFiniteSet(x.levels[i].parties)
           /\ Valid(x) = ValidLevels(x.levels)
           /\ Shareholders(x) = Cumulative(x.levels, Len(x.levels))
           /\ \A ids : IsQualified(x, ids) = LevelsQualified(x.levels, ids)
  BY DEF WellTyped, Valid, Shareholders, IsQualified

LEMMA GatesIs ==
    ASSUME NEW x, x.kind = "gates"
    PROVE  /\ WellTyped(x) => IsTree(x.nodes)
           /\ Valid(x) = CheckTree(x.nodes)
           /\ Shareholders(x) = AllShareholders(x.nodes)
           /\ \A ids : IsQualified(x, ids) = TreeEval(x.nodes, ids)[1]
  BY DEF WellTyped, Valid, Shareholders, IsQualified

LEMMA FiveKinds ==
    ASSUME NEW x, WellTyped(x)
    PROVE  x.kind \in {"unanimity", "threshold", "cnf", "hierarchical", "gates"}
  BY DEF WellTyped

LEMMA CumulativeFinite ==
    ASSUME NEW levels \in Seq([threshold : Int, parties : SUBSET Nat]),
           \A i \in DOMAIN levels : IsFiniteSet(levels[i].parties)
    PROVE  \A n \in 0 .. Len(levels) : IsFiniteSet(Cumulative(levels, n))
  <1> TAKE n \in 0 .. Len(levels)
  <1>1. Len(levels) \in Nat /\ DOMAIN levels = 1 .. Len(levels)
    BY LenProperties
  <1> DEFINE D == 1 .. n
             family == {levels[i].parties : i \in D}
             f == [i \in D |-> levels[i].parties]
  <1>2. IsFiniteSet(D)
    BY <1>1, FS_Interval
  <1>3. f \in Surjection(D, family)
    BY DEF Surjection
  <1>4. IsFiniteSet(family)
    <2> HIDE DEF D, family, f
    <2> QED
      BY <1>2, <1>3, FS_Surjection
  <1>5. \A s \in family : IsFiniteSet(s)
    BY <1>1
  <1>6. IsFiniteSet(UNION family)
    <2> HIDE DEF family
    <2> QED
      BY <1>4, <1>5, FS_UNION
  <1> QED
    BY <1>6 DEF Cumulative

LEMMA ShareholdersFinite ==
    ASSUME NEW x, WellTyped(x)
    PROVE  IsFiniteSet(Shareholders(x))
  <1>1. CASE x.kind = "unanimity"
    BY <1>1, UnanimityIs
  <1>2. CASE x.kind = "threshold"
    BY <1>2, ThresholdIs
  <1>3. CASE x.kind = "cnf"
    <2> DEFINE sets == NormaliseCNF(x.sets)
    <2>1. IsFiniteSet(x.sets) /\ \A s \in x.sets : IsFiniteSet(s)
      BY <1>3, CnfIs
    <2>2. sets \in SUBSET x.sets
      BY DEF NormaliseCNF
    <2> HIDE DEF sets
    <2>3. IsFiniteSet(sets) /\ \A s \in sets : IsFiniteSet(s)
      BY <2>1, <2>2, FS_Subset
    <2>4. IsFiniteSet(UNION sets)
      BY <2>3, FS_UNION
    <2> QED
      BY <2>4, <1>3, CnfIs DEF sets
  <1>4. CASE x.kind = "hierarchical"
    <2>1. /\ x.levels \in Seq([threshold : Int, parties : SUBSET Nat])
          /\ \A i \in DOMAIN x.levels : IsFiniteSet(x.levels[i].parties)
      BY <1>4, HierarchicalIs
    <2>2. Len(x.levels) \in 0 .. Len(x.levels)
      BY <2>1, LenProperties
    <2>3. IsFiniteSet(Cumulative(x.levels, Len(x.levels)))
      BY <2>1, <2>2, CumulativeFinite
    <2> QED
      BY <2>3, <1>4, HierarchicalIs
  <1>5. CASE x.kind = "gates"
    <2> DEFINE leaves == LeavesOf(x.nodes)
               names == {x.nodes[n].attr : n \in leaves}
               f == [n \in leaves |-> x.nodes[n].attr]
    <2>1. IsTree(x.nodes)
      BY <1>5, GatesIs
    <2>2. DOMAIN x.nodes = 1 .. Len(x.nodes) /\ Len(x.nodes) \in Nat
      BY <2>1, TreeShape
    <2>3. IsFiniteSet(DOMAIN x.nodes) /\ leaves \in SUBSET DOMAIN x.nodes
      BY <2>2, FS_Interval DEF LeavesOf
    <2>4. IsFiniteSet(leaves)
      BY <2>3, FS_Subset
    <2>5. f \in Surjection(leaves, names)
      BY DEF Surjection
    <2>6. IsFiniteSet(names)
      <3> HIDE DEF leaves, names, f
      <3> QED
        BY <2>4, <2>5, FS_Surjection
    <2> QED
      BY <2>6, <1>5, GatesIs DEF AllShareholders
  <1> QED
    BY <1>1, <1>2, <1>3, <1>4, <1>5, FiveKinds

LEMMA ShareholdersAreNumbers ==
    ASSUME NEW x, WellTyped(x)
    PROVE  Shareholders(x) \subseteq Nat
  <1>1. CASE x.kind = "unanimity"
    BY <1>1, UnanimityIs
  <1>2. CASE x.kind = "threshold"
    BY <1>2, ThresholdIs
  <1>3. CASE x.kind = "cnf"
    <2>1. \A u \in x.sets : u \subseteq Nat
      BY <1>3, CnfIs
    <2>2. NormaliseCNF(x.sets) \subseteq x.sets
      BY DEF NormaliseCNF
    <2> QED
      BY <1>3, <2>1, <2>2, CnfIs
  <1>4. CASE x.kind = "hierarchical"
    <2>1. x.levels \in Seq([threshold : Int, parties : SUBSET Nat])
      BY <1>4, HierarchicalIs
    <2>2. \A i \in 1 .. Len(x.levels) : x.levels[i].parties \subseteq Nat
      <3> DEFINE levels == x.levels
                 Level == [threshold : Int, parties : SUBSET Nat]
      <3>1. \A level \in Level : level.parties \subseteq Nat
        OBVIOUS
      <3> HIDE DEF levels, Level
      <3>2. levels \in Seq(Level)
        BY <2>1 DEF levels, Level
      <3>3. \A i \in 1 .. Len(levels) : levels[i] \in Level
        BY <3>2, ElementOfSeq
      <3> QED
        BY <3>1, <3>3 DEF levels
    <2>3. Cumulative(x.levels, Len(x.levels)) \subseteq Nat
      BY <2>2 DEF Cumulative
    <2> QED
      BY <1>4, <2>3, HierarchicalIs
  <1>5. CASE x.kind = "gates"
    <2>1. IsTree(x.nodes)
      BY <1>5, GatesIs
    <2>2. \A n \in LeavesOf(x.nodes) : x.nodes[n].attr \in Nat
      BY <2>1, TreeShape DEF IsTree, LeavesOf, IsGate
    <2> QED
      BY <1>5, <2>2, GatesIs DEF AllShareholders
  <1> QED
    BY <1>1, <1>2, <1>3, <1>4, <1>5, FiveKinds

\* Whoever is qualified stays so when shareholders join.
LEMMA QualifiedMonotone ==
    ASSUME NEW x, WellTyped(x),
           NEW small, NEW big \in SUBSET Shareholders(x), small \subseteq big,
           IsQualified(x, small)
    PROVE  IsQualified(x, big)
  <1>1. CASE x.kind = "unanimity"
    <2>1. small = x.ps /\ big \in SUBSET x.ps
      BY <1>1, UnanimityIs
    <2>2. big = x.ps
      BY <2>1
    <2> QED
      BY <1>1, <2>2, UnanimityIs
  <1>2. CASE x.kind = "threshold"
    <2>1. /\ x.t \in Int /\ IsFiniteSet(x.ps) /\ big \in SUBSET x.ps
          /\ Cardinality(small) >= x.t
      BY <1>2, ThresholdIs DEF ThresholdQualified
    <2>2. IsFiniteSet(big) /\ small \in SUBSET big
      BY <2>1, FS_Subset
    <2>3. /\ Cardinality(small) <= Cardinality(big)
          /\ Cardinality(small) \in Nat /\ Cardinality(big) \in Nat
      BY <2>2, FS_Subset, FS_CardinalityType
    <2>4. Cardinality(big) >= x.t
      BY <2>1, <2>3
    <2> QED
      BY <2>1, <2>4, <1>2, ThresholdIs DEF ThresholdQualified
  <1>3. CASE x.kind = "cnf"
    <2>1. Shareholders(x) = UNION NormaliseCNF(x.sets)
      BY <1>3, CnfIs
    <2>2. CNFQualified(NormaliseCNF(x.sets), small)
      BY <1>3, CnfIs
    <2>3. CNFQualified(NormaliseCNF(x.sets), big)
      BY <2>1, <2>2 DEF CNFQualified
    <2> QED
      BY <1>3, <2>3, CnfIs
  <1>4. CASE x.kind = "hierarchical"
    <2>1. /\ x.levels \in Seq([threshold : Int, parties : SUBSET Nat])
          /\ \A i \in DOMAIN x.levels : IsFiniteSet(x.levels[i].parties)
          /\ LevelsQualified(x.levels, small)
      BY <1>4, HierarchicalIs
    <2>2. ASSUME NEW i \in DOMAIN x.levels
          PROVE  Cardinality(Cumulative(x.levels, i) \cap big) >= x.levels[i].threshold
      <3> DEFINE S == Cumulative(x.levels, i) \cap small
                 B == Cumulative(x.levels, i) \cap big
      <3>1. i \in 0 .. Len(x.levels) /\ x.levels[i].threshold \in Int
        <4>1. Len(x.levels) \in Nat /\ DOMAIN x.levels = 1 .. Len(x.levels)
          BY <2>1, LenProperties
        <4>2. x.levels[i] \in [threshold : Int, parties : SUBSET Nat]
          BY <2>1, <4>1, ElementOfSeq
        <4> QED
          BY <4>1, <4>2
      <3>2. IsFiniteSet(Cumulative(x.levels, i))
        BY <2>1, <3>1, CumulativeFinite
      <3>3. B \in SUBSET Cumulative(x.levels, i) /\ S \in SUBSET B
        OBVIOUS
      <3>4. Cardinality(S) >= x.levels[i].threshold
        BY <2>1 DEF LevelsQualified
      <3> HIDE DEF S, B
      <3>5. IsFiniteSet(B) /\ IsFiniteSet(S)
        BY <3>2, <3>3, FS_Subset
      <3>6. Cardinality(S) <= Cardinality(B) /\ Cardinality(S) \in Nat /\ Cardinality(B) \in Nat
        BY <3>3, <3>5, FS_Subset, FS_CardinalityType
      <3>7. Cardinality(B) >= x.levels[i].threshold
        BY <3>1, <3>4, <3>6
      <3> QED
        BY <3>7 DEF B
    <2>3. LevelsQualified(x.levels, big)
      BY <2>2 DEF LevelsQualified
    <2> QED
      BY <2>3, <1>4, HierarchicalIs
  <1>5. CASE x.kind = "gates"
    <2>1. IsTree(x.nodes) /\ TreeEval(x.nodes, small)[1]
      BY <1>5, GatesIs, Zenon
    <2>2. 1 \in DOMAIN x.nodes
      BY <2>1, TreeShape
    <2>3. TreeEval(x.nodes, big)[1]
      BY <2>1, <2>2, TreeMonotone, Zenon
    <2> QED
      BY <2>3, <1>5, GatesIs, Zenon
  <1> QED
    BY <1>1, <1>2, <1>3, <1>4, <1>5, FiveKinds

-----------------------------------------------------------------------------
(***************************************************************************)
(* Maximal unqualified sets, but the empty one: see MaximalUnqualified.    *)
(***************************************************************************)
Maximal(x) ==
    {s \in (SUBSET Shareholders(x)) \ {{}} :
        /\ ~IsQualified(x, s)
        /\ \A id \in Shareholders(x) \ s : IsQualified(x, s \cup {id})}

LEMMA SubsetsFinite ==
    ASSUME NEW x, WellTyped(x)
    PROVE  /\ Cardinality(Shareholders(x)) \in Nat
           /\ \A s \in SUBSET Shareholders(x) :
                 /\ IsFiniteSet(s) /\ Cardinality(s) \in Nat
                 /\ Cardinality(s) <= Cardinality(Shareholders(x))
  BY ShareholdersFinite, FS_Subset, FS_CardinalityType

\* Every unqualified set can be extended to a maximal one.
LEMMA InMaximal ==
    ASSUME NEW x, WellTyped(x),
           NEW s \in SUBSET Shareholders(x), s # {}, ~IsQualified(x, s)
    PROVE  \E m \in Maximal(x) : s \subseteq m
  <1> DEFINE all == Shareholders(x)
             above == {u \in SUBSET all : s \subseteq u /\ ~IsQualified(x, u)}
             sizes == {Cardinality(u) : u \in above}
  <1>1. /\ Cardinality(all) \in Nat
        /\ \A u \in SUBSET all : IsFiniteSet(u) /\ Cardinality(u) \in Nat
                                /\ Cardinality(u) <= Cardinality(all)
    BY SubsetsFinite
  <1>2. s \in above
    OBVIOUS
  <1>3. sizes \in SUBSET Nat /\ sizes # {} /\ \A n \in sizes : n <= Cardinality(all)
    BY <1>1, <1>2
  <1>4. PICK n \in sizes : \A k \in sizes : k <= n
    BY <1>1, <1>3, Largest
  <1>5. PICK m \in above : n = Cardinality(m)
    BY <1>4
  <1>6. ASSUME NEW id \in all \ m PROVE IsQualified(x, m \cup {id})
    <2> SUFFICES ASSUME ~IsQualified(x, m \cup {id}) PROVE FALSE
      OBVIOUS
    <2>1. m \cup {id} \in above
      BY <1>5
    <2>2. Cardinality(m \cup {id}) \in sizes
      BY <2>1
    <2>3. Cardinality(m \cup {id}) <= Cardinality(m)
      BY <2>2, <1>4, <1>5
    <2>4. Cardinality(m \cup {id}) = Cardinality(m) + 1 /\ Cardinality(m) \in Nat
      BY <1>1, <1>5, FS_AddElement
    <2> QED
      BY <2>3, <2>4
  <1>7. m \in SUBSET all /\ m # {} /\ s \subseteq m /\ ~IsQualified(x, m)
    BY <1>5
  <1>8. m \in Maximal(x)
    BY <1>6, <1>7 DEF Maximal
  <1> QED
    BY <1>7, <1>8

\* No maximal unqualified set lies in another unqualified one.
LEMMA MaximalIsMaximal ==
    ASSUME NEW x, WellTyped(x), NEW m \in Maximal(x),
           NEW u \in SUBSET Shareholders(x), ~IsQualified(x, u), m \subseteq u
    PROVE  m = u
  <1> SUFFICES ASSUME NEW id \in u, id \notin m PROVE FALSE
    OBVIOUS
  <1>1. IsQualified(x, m \cup {id})
    BY DEF Maximal
  <1>2. m \cup {id} \subseteq u
    OBVIOUS
  <1> QED
    BY <1>1, <1>2, QualifiedMonotone

LEMMA MaximalNormalised ==
    ASSUME NEW x, WellTyped(x)
    PROVE  NormaliseCNF(Maximal(x)) = Maximal(x)
  <1>1. ASSUME NEW m \in Maximal(x), NEW u \in Maximal(x), m \subseteq u
        PROVE  m = u
    <2>1. u \in SUBSET Shareholders(x) /\ ~IsQualified(x, u)
      BY DEF Maximal
    <2> QED
      BY <1>1, <2>1, MaximalIsMaximal
  <1> QED
    BY <1>1 DEF NormaliseCNF

\* What ListSets lists for a structure with a threshold k of its own.
LEMMA OneShort ==
    ASSUME NEW x, WellTyped(x), NEW k \in Nat, k > 1,
           k <= Cardinality(Shareholders(x)),
           \A ids \in SUBSET Shareholders(x) : IsQualified(x, ids) <=> Cardinality(ids) >= k
    PROVE  Maximal(x) = kSubset(k - 1, Shareholders(x))
  <1> DEFINE all == Shareholders(x)
  <1>1. /\ IsFiniteSet(all) /\ Cardinality(all) \in Nat
        /\ \A u \in SUBSET all : IsFiniteSet(u) /\ Cardinality(u) \in Nat
    BY SubsetsFinite, ShareholdersFinite
  <1>2. ASSUME NEW s \in SUBSET all, NEW id \in all \ s
        PROVE  Cardinality(s \cup {id}) = Cardinality(s) + 1 /\ s \cup {id} \in SUBSET all
    BY <1>1, FS_AddElement
  <1>3. ASSUME NEW s \in Maximal(x) PROVE s \in kSubset(k - 1, all)
    <2>1. s \in SUBSET all /\ ~(Cardinality(s) >= k)
      BY DEF Maximal
    <2>2. s # all
      BY <2>1
    <2>3. PICK id \in all : id \notin s
      BY <2>1, <2>2
    <2>4. IsQualified(x, s \cup {id})
      BY <2>3 DEF Maximal
    <2>5. Cardinality(s) + 1 >= k /\ Cardinality(s) \in Nat
      BY <2>1, <2>3, <2>4, <1>1, <1>2
    <2>6. Cardinality(s) = k - 1
      BY <2>1, <2>5
    <2> QED
      BY <2>1, <2>6 DEF kSubset
  <1>4. ASSUME NEW s \in kSubset(k - 1, all) PROVE s \in Maximal(x)
    <2>1. s \in SUBSET all /\ Cardinality(s) = k - 1
      BY DEF kSubset
    <2>2. s # {} /\ ~(Cardinality(s) >= k)
      BY <2>1, FS_EmptySet
    <2>3. \A id \in all \ s : IsQualified(x, s \cup {id})
      BY <2>1, <1>2
    <2> QED
      BY <2>1, <2>2, <2>3 DEF Maximal
  <1> QED
    BY <1>3, <1>4

\* The sets that unanimity, threshold and CNF structures list.
LEMMA ListedIsMaximal ==
    ASSUME NEW x, WellTyped(x), Valid(x), x.kind \notin {"gates", "hierarchical"}
    PROVE  ListedMaximalUnqualifiedSets(x) = Maximal(x)
  <1>1. CASE x.kind = "unanimity"
    <2> DEFINE k == Cardinality(x.ps)
    <2>1. Shareholders(x) = x.ps /\ IsFiniteSet(x.ps) /\ k \in Nat /\ k >= 2
      BY <1>1, UnanimityIs, FS_CardinalityType DEF ValidUnanimity
    <2>2. ASSUME NEW ids \in SUBSET x.ps
          PROVE  IsQualified(x, ids) <=> Cardinality(ids) >= k
      <3>1. IsQualified(x, ids) <=> ids = x.ps
        BY <1>1, UnanimityIs
      <3>2. /\ Cardinality(ids) \in Nat /\ Cardinality(ids) <= k
            /\ k = Cardinality(ids) => x.ps = ids
        BY <2>1, FS_Subset, FS_CardinalityType
      <3> QED
        BY <2>1, <3>1, <3>2
    <2>3. Maximal(x) = kSubset(k - 1, Shareholders(x))
      <3> HIDE DEF k
      <3>1. k <= Cardinality(Shareholders(x))
        BY <2>1 DEF k
      <3> QED
        BY <2>1, <2>2, <3>1, OneShort
    <2> QED
      BY <1>1, <2>1, <2>3, UnanimityIs
  <1>2. CASE x.kind = "threshold"
    <2>1. /\ Shareholders(x) = x.ps /\ IsFiniteSet(x.ps)
          /\ x.t \in 2 .. Cardinality(x.ps) /\ Cardinality(x.ps) \in Nat
      BY <1>2, ThresholdIs, FS_CardinalityType DEF ValidThreshold
    <2>2. \A ids \in SUBSET x.ps : IsQualified(x, ids) <=> Cardinality(ids) >= x.t
      BY <1>2, ThresholdIs DEF ThresholdQualified
    <2>3. x.t \in Nat /\ x.t > 1 /\ x.t <= Cardinality(x.ps)
      BY <2>1
    <2>4. Maximal(x) = kSubset(x.t - 1, Shareholders(x))
      BY <2>1, <2>2, <2>3, OneShort
    <2> QED
      BY <1>2, <2>1, <2>4, ThresholdIs
  <1>3. CASE x.kind = "cnf"
    <2> DEFINE sets == NormaliseCNF(x.sets)
    <2>1. /\ Shareholders(x) = UNION sets
          /\ \A ids \in SUBSET UNION sets : IsQualified(x, ids) <=> \A u \in sets : ~(ids \subseteq u)
      BY <1>3, CnfIs DEF CNFQualified
    <2>2. \A u \in sets : u # {} /\ \A v \in sets : u \subseteq v => u = v
      BY <1>3, CnfIs DEF ValidCNF, NormaliseCNF
    <2> HIDE DEF sets
    <2>3. ASSUME NEW s \in Maximal(x) PROVE s \in sets
      <3>1. s \in SUBSET UNION sets /\ ~IsQualified(x, s)
        BY <2>1 DEF Maximal
      <3>2. PICK u \in sets : s \subseteq u
        BY <2>1, <3>1
      <3>3. ASSUME NEW id \in u, id \notin s PROVE FALSE
        <4>1. s \cup {id} \in SUBSET UNION sets /\ s \cup {id} \subseteq u
          BY <3>1, <3>2, <3>3
        <4>2. IsQualified(x, s \cup {id})
          BY <3>3, <2>1, <4>1 DEF Maximal
        <4> QED
          BY <4>1, <4>2, <2>1
      <3>4. s = u
        BY <3>2, <3>3
      <3> QED
        BY <3>4
    <2>4. ASSUME NEW u \in sets PROVE u \in Maximal(x)
      <3>1. u \in SUBSET UNION sets /\ u # {} /\ ~IsQualified(x, u)
        BY <2>1, <2>2
      <3>2. ASSUME NEW id \in (UNION sets) \ u PROVE IsQualified(x, u \cup {id})
        <4> SUFFICES ASSUME ~IsQualified(x, u \cup {id}) PROVE FALSE
          OBVIOUS
        <4>1. PICK v \in sets : u \cup {id} \subseteq v
          BY <2>1, <3>1
        <4>2. u = v
          BY <4>1, <2>2
        <4> QED
          BY <4>1, <4>2
      <3> QED
        BY <3>1, <3>2, <2>1 DEF Maximal
    <2>5. Maximal(x) = sets
      BY <2>3, <2>4
    <2> QED
      BY <2>5, <1>3, CnfIs DEF sets
  <1> QED
    BY <1>1, <1>2, <1>3, FiveKinds

-----------------------------------------------------------------------------
(***************************************************************************)
(* The search of BruteForceMaximalUnqualifiedSets goes from large sets to  *)
(* small ones: after the turn for size t it has all maximal unqualified    *)
(* sets of t or more shareholders and nothing else.                        *)
(***************************************************************************)
SearchInv ==
    /\ ac \in Structures
    /\ stage \notin {"new", "rejected"} => Valid(ac)
    /\ stage \in {"new", "constructed", "convert", "induced"} => muss = {}
    /\ stage = "search" =>
          /\ t \in 0 .. Cardinality(Shareholders(ac))
          /\ muss = {s \in Maximal(ac) : Cardinality(s) > t}
    /\ stage \in {"listed", "converted"} => muss = Maximal(ac)

LEMMA FoundIsMaximal ==
    ASSUME SearchInv, stage = "search", t >= 1
    PROVE  muss \cup Found(t) = {s \in Maximal(ac) : Cardinality(s) > t - 1}
  <1> DEFINE all == Shareholders(ac)
  <1>1. WellTyped(ac) /\ t \in 1 .. Cardinality(all)
    BY StructuresAssumption, SubsetsFinite DEF SearchInv
  <1>2. muss = {s \in Maximal(ac) : Cardinality(s) > t}
    BY DEF SearchInv
  <1>3. /\ Cardinality(all) \in Nat
        /\ \A s \in SUBSET all : IsFiniteSet(s) /\ Cardinality(s) \in Nat
    BY <1>1, SubsetsFinite
  <1>4. t \in Nat
    BY <1>1, <1>3
  <1>5. ASSUME NEW s \in Found(t)
        PROVE  s \in Maximal(ac) /\ Cardinality(s) = t
    <2>1. /\ s \in SUBSET all /\ Cardinality(s) = t /\ ~IsQualified(ac, s)
          /\ \A mus \in muss : ~(s \subseteq mus)
      BY DEF Found, kSubset
    <2>2. s # {}
      BY <2>1, <1>4, FS_EmptySet
    <2>3. PICK m \in Maximal(ac) : s \subseteq m
      BY <1>1, <2>1, <2>2, InMaximal
    <2>4. m \in SUBSET all
      BY DEF Maximal
    <2>5. ~(Cardinality(m) > t)
      BY <1>2, <2>1, <2>3
    <2>6. /\ s \in SUBSET m /\ IsFiniteSet(m)
          /\ Cardinality(m) \in Nat /\ Cardinality(s) \in Nat
      BY <2>1, <2>3, <2>4, <1>3
    <2>7. Cardinality(s) <= Cardinality(m) /\ (Cardinality(m) = Cardinality(s) => m = s)
      BY <2>6, FS_Subset
    <2>8. Cardinality(m) = Cardinality(s)
      BY <2>1, <2>5, <2>6, <2>7, <1>4
    <2> QED
      BY <2>1, <2>3, <2>7, <2>8
  <1>6. ASSUME NEW s \in Maximal(ac), Cardinality(s) = t
        PROVE  s \in Found(t)
    <2>1. s \in SUBSET all /\ ~IsQualified(ac, s)
      BY DEF Maximal
    <2>2. ASSUME NEW mus \in muss, s \subseteq mus PROVE FALSE
      <3>1. mus \in Maximal(ac) /\ Cardinality(mus) > t
        BY <1>2, <2>2
      <3>2. mus \in SUBSET all /\ ~IsQualified(ac, mus)
        BY <3>1 DEF Maximal
      <3>3. s = mus
        BY <1>1, <2>2, <3>2, MaximalIsMaximal
      <3> QED
        BY <3>1, <3>3, <1>6, <1>4
    <2> QED
      BY <2>1, <2>2, <1>6 DEF Found, kSubset
  <1>7. ASSUME NEW s \in Maximal(ac)
        PROVE  Cardinality(s) > t - 1 <=> Cardinality(s) > t \/ Cardinality(s) = t
    <2>1. Cardinality(s) \in Nat
      BY <1>3 DEF Maximal
    <2> QED
      BY <2>1, <1>4
  <1> QED
    BY <1>2, <1>5, <1>6, <1>7

LEMMA SearchInit == Init => SearchInv
  BY DEF Init, SearchInv

LEMMA SearchStep == SearchInv /\ [Next]_vars => SearchInv'
  <1> SUFFICES ASSUME SearchInv, [Next]_vars PROVE SearchInv'
    OBVIOUS
  <1>0. WellTyped(ac)
    BY StructuresAssumption DEF SearchInv
  <1>a. /\ Cardinality(Shareholders(ac)) \in Nat
        /\ \A s \in Maximal(ac) : Cardinality(s) \in Nat
                 /\ Cardinality(s) <= Cardinality(Shareholders(ac)) /\ s # {} /\ IsFiniteSet(s)
    BY <1>0, SubsetsFinite DEF Maximal
  <1>1. CASE New
    BY <1>1 DEF New, SearchInv
  <1>2. CASE Reject
    BY <1>2 DEF Reject, SearchInv
  <1>3. CASE InduceDirectly
    BY <1>3 DEF InduceDirectly, SearchInv
  <1>4. CASE BeginConvert
    BY <1>4 DEF BeginConvert, SearchInv
  <1>5. CASE ExpandGate
    BY <1>5 DEF ExpandGate, SearchInv
  <1>6. CASE EndConvert
    BY <1>6 DEF EndConvert, SearchInv
  <1>7. CASE ListSets
    <2>1. muss' = Maximal(ac)
      BY <1>0, <1>7, ListedIsMaximal DEF ListSets, SearchInv
    <2> QED
      BY <2>1, <1>7 DEF ListSets, SearchInv, Maximal
  <1>8. CASE BeginSearch
    <2>1. muss = {} /\ muss' = muss /\ t' = Cardinality(Shareholders(ac)) /\ ac' = ac
      BY <1>8 DEF BeginSearch, SearchInv
    <2>2. \A s \in Maximal(ac) : ~(Cardinality(s) > t')
      BY <1>a, <2>1
    <2>3. muss' = {s \in Maximal(ac') : Cardinality(s) > t'}
      BY <2>1, <2>2
    <2>4. t' \in 0 .. Cardinality(Shareholders(ac'))
      BY <2>1, <1>a
    <2> QED
      BY <2>1, <2>3, <2>4, <1>8 DEF BeginSearch, SearchInv, Maximal
  <1>9. CASE SearchSize
    <2>1. stage = "search" /\ t >= 1 /\ stage' = stage /\ ac' = ac /\ t' = t - 1
      BY <1>9 DEF SearchSize
    <2>2. muss' = {s \in Maximal(ac) : Cardinality(s) > t - 1}
      BY <1>9, <2>1, FoundIsMaximal DEF SearchSize
    <2>3. t' \in 0 .. Cardinality(Shareholders(ac))
      BY <2>1, <1>a DEF SearchInv
    <2> QED
      BY <2>1, <2>2, <2>3 DEF SearchInv, Maximal
  <1>10. CASE EndSearch
    <2>1. muss = {s \in Maximal(ac) : Cardinality(s) > 0} /\ muss' = muss /\ ac' = ac
      BY <1>10 DEF EndSearch, SearchInv
    <2>2. \A s \in Maximal(ac) : Cardinality(s) > 0
      BY <1>a, FS_EmptySet
    <2>3. muss' = Maximal(ac)
      BY <2>1, <2>2
    <2> QED
      BY <2>1, <2>3, <1>10 DEF EndSearch, SearchInv, Maximal
  <1>11. CASE ConvertToCNF
    BY <1>11 DEF ConvertToCNF, SearchInv, Maximal
  <1>12. CASE ConvertFails
    BY <1>12 DEF ConvertFails, SearchInv
  <1>13. CASE UNCHANGED vars
    BY <1>13 DEF vars, SearchInv, Maximal
  <1> QED
    BY <1>1, <1>2, <1>3, <1>4, <1>5, <1>6, <1>7, <1>8, <1>9, <1>10, <1>11, <1>12, <1>13 DEF Next

\* Every structure, of any kind and any size, lists exactly its maximal
\* unqualified sets, those that the search finds size by size (mus.go) too.
THEOREM MaximalSetsExactHolds == Spec => []MaximalSetsExact
  <1>1. SearchInv => MaximalSetsExact
    BY DEF SearchInv, MaximalSetsExact, MaximalUnqualified, Maximal
  <1> QED
    BY <1>1, SearchInit, SearchStep, PTL DEF Spec

-----------------------------------------------------------------------------
(***************************************************************************)
(* The way over CNF.  A Go map may hand out the unqualified sets in any    *)
(* order; an order of a set lists all of it, and that is all that the      *)
(* matrix of a CNF depends on.                                             *)
(***************************************************************************)
LEMMA SequenceOnDomain ==
    ASSUME NEW n \in Nat, NEW S, NEW f \in [1 .. n -> S]
    PROVE  f \in Seq(S) /\ Len(f) = n
  <1>1. f \in Seq(S)
    BY SeqDef
  <1>2. Len(f) \in Nat /\ DOMAIN f = 1 .. Len(f)
    BY <1>1, LenProperties
  <1>3. 1 .. Len(f) = 1 .. n
    BY <1>2
  <1>4. Len(f) = n
    <2>1. \A k \in Nat : Cardinality(1 .. k) = k
      BY FS_Interval
    <2> QED
      BY <1>2, <1>3, <2>1
  <1> QED
    BY <1>1, <1>4

\* A list of n different elements of a set of n is a list of all of them.
LEMMA ListsAll ==
    ASSUME NEW S, IsFiniteSet(S),
           NEW f \in [1 .. Cardinality(S) -> S], IsInjective(f)
    PROVE  ToSet(f) = S /\ Len(f) = Cardinality(S)
  <1> DEFINE n == Cardinality(S)
             D == 1 .. n
  <1>1. n \in Nat
    BY FS_CardinalityType
  <1>2. Cardinality(D) = n
    BY <1>1, FS_Interval
  <1>3. f \in Injection(D, S)
    BY DEF Injection
  <1>4. f \in Surjection(D, S)
    <2> HIDE DEF D
    <2> QED
      BY <1>2, <1>3, FS_Injection
  <1>5. Len(f) = n
    BY <1>1, SequenceOnDomain
  <1> QED
    BY <1>4, <1>5 DEF Surjection, ToSet

LEMMA OrdersKeep ==
    ASSUME NEW S, IsFiniteSet(S), NEW order \in Orders(S)
    PROVE  /\ ToSet(order) = S /\ ToSet(SetToSeq(S)) = S
           /\ Len(order) = Len(SetToSeq(S))
  <1> DEFINE D == 1 .. Cardinality(S)
  <1>1. order \in [D -> S] /\ IsInjective(order)
    BY DEF Orders, SetToSeqs, IsInjective
  <1>2. SetToSeq(S) = CHOOSE f \in [D -> S] : IsInjective(f)
    BY DEF SetToSeq
  <1>3. SetToSeq(S) \in [D -> S] /\ IsInjective(SetToSeq(S))
    <2> HIDE DEF D
    <2> QED
      BY <1>1, <1>2, Zenon
  <1> QED
    BY <1>1, <1>3, ListsAll

LEMMA CnfMSPOfSets ==
    ASSUME NEW f, NEW g, ToSet(f) = ToSet(g), Len(f) = Len(g)
    PROVE  CnfMSP(f) = CnfMSP(g)
  BY DEF CnfMSP

LEMMA MaximalFinite ==
    ASSUME NEW x, WellTyped(x)
    PROVE  IsFiniteSet(Maximal(x))
  <1>1. IsFiniteSet(SUBSET Shareholders(x))
    BY ShareholdersFinite, FS_SUBSET
  <1>2. Maximal(x) \in SUBSET SUBSET Shareholders(x)
    BY DEF Maximal
  <1> QED
    BY <1>1, <1>2, FS_Subset

CnfInv ==
    /\ SearchInv
    /\ stage = "converted" =>
          /\ muss # {}
          /\ cnf \in Orders(NormaliseCNF(muss))
          /\ cnfMsp = CnfMSP(cnf)

LEMMA CnfStep == CnfInv /\ [Next]_vars => CnfInv'
  <1> SUFFICES ASSUME CnfInv, [Next]_vars PROVE CnfInv'
    OBVIOUS
  <1>1. SearchInv'
    BY SearchStep DEF CnfInv
  <1>2. CASE ConvertToCNF
    <2>1. PICK order \in Orders(NormaliseCNF(muss)) : cnf' = order /\ cnfMsp' = CnfMSP(order)
      BY <1>2 DEF ConvertToCNF
    <2>2. muss' = muss /\ muss # {}
      BY <1>2 DEF ConvertToCNF, ValidCNF
    <2>3. cnf' \in Orders(NormaliseCNF(muss')) /\ cnfMsp' = CnfMSP(cnf')
      BY <2>1, <2>2
    <2> QED
      BY <1>1, <2>2, <2>3 DEF CnfInv
  <1>3. CASE UNCHANGED vars
    BY <1>1, <1>3 DEF CnfInv, vars
  <1>4. CASE Next /\ ~ConvertToCNF
    <2>1. stage' # "converted"
      BY <1>4 DEF Next, New, Reject, InduceDirectly, BeginConvert, ExpandGate, EndConvert,
                  ListSets, BeginSearch, SearchSize, EndSearch, ConvertFails
    <2> QED
      BY <1>1, <2>1 DEF CnfInv
  <1> QED
    BY <1>2, <1>3, <1>4

LEMMA CnfSound == CnfInv => CnfKeepsSets
  <1> SUFFICES ASSUME CnfInv, stage = "converted"
               PROVE  /\ cnfMsp = CnfMSP(SetToSeq(NormaliseCNF(muss)))
                      /\ UNION ToSet(cnf) = Shareholders(ac) \ Alone
                      /\ \A ids \in SUBSET UNION ToSet(cnf) :
                            CNFQualified(ToSet(cnf), ids) <=> IsQualified(ac, ids)
    BY DEF CnfKeepsSets
  <1>1. WellTyped(ac) /\ muss = Maximal(ac) /\ muss # {}
    BY StructuresAssumption DEF CnfInv, SearchInv
  <1>2. NormaliseCNF(muss) = muss /\ IsFiniteSet(muss)
    BY <1>1, MaximalNormalised, MaximalFinite
  <1>3. /\ ToSet(cnf) = muss /\ ToSet(SetToSeq(muss)) = muss
        /\ Len(cnf) = Len(SetToSeq(muss)) /\ cnfMsp = CnfMSP(cnf)
    BY <1>2, OrdersKeep DEF CnfInv
  <1>4. cnfMsp = CnfMSP(SetToSeq(NormaliseCNF(muss)))
    BY <1>2, <1>3, CnfMSPOfSets
  <1>5. \A m \in muss : m \in SUBSET Shareholders(ac) /\ ~IsQualified(ac, m)
    BY <1>1 DEF Maximal
  <1>6. ASSUME NEW id \in Shareholders(ac) PROVE id \in UNION muss <=> id \notin Alone
    <2>1. {id} \in SUBSET Shareholders(ac) /\ {id} # {}
      OBVIOUS
    <2>2. ASSUME id \in UNION muss PROVE id \notin Alone
      <3>1. PICK m \in muss : id \in m
        BY <2>2
      <3>2. {id} \subseteq m
        BY <3>1
      <3>3. ~IsQualified(ac, {id})
        BY <1>1, <1>5, <3>2, QualifiedMonotone
      <3> QED
        BY <3>3 DEF Alone
    <2>3. ASSUME id \notin Alone PROVE id \in UNION muss
      <3>1. ~IsQualified(ac, {id})
        BY <2>3 DEF Alone
      <3>2. \E m \in muss : {id} \subseteq m
        BY <1>1, <2>1, <3>1, InMaximal
      <3> QED
        BY <3>2
    <2> QED
      BY <2>2, <2>3
  <1>7. UNION muss = Shareholders(ac) \ Alone
    BY <1>5, <1>6 DEF Alone
  <1>8. ASSUME NEW ids \in SUBSET UNION muss
        PROVE  CNFQualified(muss, ids) <=> IsQualified(ac, ids)
    <2>1. ids \in SUBSET Shareholders(ac)
      BY <1>5
    <2>2. ASSUME IsQualified(ac, ids), NEW u \in muss, ids \subseteq u PROVE FALSE
      BY <1>1, <1>5, <2>2, QualifiedMonotone
    <2>3. ASSUME ~IsQualified(ac, ids) PROVE \E u \in muss : ids \subseteq u
      <3>1. CASE ids = {}
        BY <1>1, <3>1
      <3>2. CASE ids # {}
        BY <1>1, <2>1, <2>3, <3>2, InMaximal
      <3> QED
        BY <3>1, <3>2
    <2> QED
      BY <2>2, <2>3 DEF CNFQualified
  <1> QED
    BY <1>3, <1>4, <1>7, <1>8

\* Whatever the structure and whatever the order of the Go map, ConvertToCNF
\* makes a CNF with the same policy over all shareholders that are not qualified
\* alone, and every process induces the same matrix from it.
THEOREM CnfKeepsSetsHolds == Spec => []CnfKeepsSets
  <1>1. Init => CnfInv
    BY SearchInit DEF Init, CnfInv
  <1> QED
    BY <1>1, CnfStep, CnfSound, PTL DEF Spec

-----------------------------------------------------------------------------
(***************************************************************************)
(* convert.  Sequences first: what it does with labels and rows does not   *)
(* depend on what is in them.                                              *)
(***************************************************************************)
IsSequence(s) == \E S : s \in Seq(S)

LEMMA SequenceIs ==
    ASSUME NEW s, IsSequence(s)
    PROVE  Len(s) \in Nat /\ DOMAIN s = 1 .. Len(s)
  BY LenProperties DEF IsSequence

LEMMA FunctionIsSequence ==
    ASSUME NEW n \in Nat, NEW f, f = [i \in 1 .. n |-> f[i]]
    PROVE  IsSequence(f) /\ Len(f) = n
  <1> DEFINE S == {f[i] : i \in 1 .. n}
  <1>1. f \in [1 .. n -> S]
    OBVIOUS
  <1> HIDE DEF S
  <1> QED
    BY <1>1, SequenceOnDomain DEF IsSequence

LEMMA ConcatIs ==
    ASSUME NEW s, IsSequence(s), NEW u, IsSequence(u)
    PROVE  /\ IsSequence(s \o u)
           /\ Len(s \o u) = Len(s) + Len(u)
           /\ \A i \in 1 .. Len(s) + Len(u) :
                 (s \o u)[i] = IF i <= Len(s) THEN s[i] ELSE u[i - Len(s)]
  <1>1. PICK S : s \in Seq(S)
    BY DEF IsSequence
  <1>2. PICK U : u \in Seq(U)
    BY DEF IsSequence
  <1> DEFINE T == S \cup U
  <1>3. s \in Seq(T) /\ u \in Seq(T)
    BY <1>1, <1>2, SeqMonotonic
  <1> HIDE DEF T
  <1> QED
    BY <1>3, ConcatProperties DEF IsSequence

LEMMA SubSeqIs ==
    ASSUME NEW s, IsSequence(s), NEW a \in 1 .. Len(s) + 1, NEW b \in a - 1 .. Len(s)
    PROVE  /\ IsSequence(SubSeq(s, a, b))
           /\ Len(SubSeq(s, a, b)) = b - a + 1
           /\ \A i \in 1 .. b - a + 1 : SubSeq(s, a, b)[i] = s[a + i - 1]
  <1>1. PICK S : s \in Seq(S)
    BY DEF IsSequence
  <1>2. Len(s) \in Nat /\ \A i \in a .. b : s[i] \in S
    BY <1>1, LenProperties
  <1>3. a \in Int /\ b \in Int
    BY <1>2
  <1>4. /\ SubSeq(s, a, b) \in Seq(S)
        /\ Len(SubSeq(s, a, b)) = IF a <= b THEN b - a + 1 ELSE 0
        /\ \A i \in 1 .. b - a + 1 : SubSeq(s, a, b)[i] = s[a + i - 1]
    BY <1>2, <1>3, SubSeqProperties
  <1>5. (IF a <= b THEN b - a + 1 ELSE 0) = b - a + 1
    BY <1>2, <1>3
  <1> QED
    BY <1>4, <1>5 DEF IsSequence

LEMMA ReplaceIs ==
    ASSUME NEW s, IsSequence(s), NEW u, IsSequence(u), NEW z \in DOMAIN s
    PROVE  /\ IsSequence(Replace(s, z, u))
           /\ Len(Replace(s, z, u)) = Len(s) - 1 + Len(u)
           /\ \A i \in 1 .. Len(s) - 1 + Len(u) :
                 Replace(s, z, u)[i] = IF i < z THEN s[i]
                                       ELSE IF i < z + Len(u) THEN u[i - z + 1]
                                       ELSE s[i - Len(u) + 1]
  <1> DEFINE before == SubSeq(s, 1, z - 1)
             after == SubSeq(s, z + 1, Len(s))
             front == before \o u
             n == Len(s)
             k == Len(u)
  <1>1. n \in Nat /\ z \in 1 .. n /\ k \in Nat
    BY SequenceIs
  <1>2. /\ IsSequence(before) /\ Len(before) = z - 1
        /\ \A i \in 1 .. z - 1 : before[i] = s[i]
    <2>1. 1 \in 1 .. n + 1 /\ z - 1 \in 1 - 1 .. n
      BY <1>1
    <2>2. /\ IsSequence(before) /\ Len(before) = z - 1 - 1 + 1
          /\ \A i \in 1 .. z - 1 - 1 + 1 : before[i] = s[1 + i - 1]
      BY <2>1, SubSeqIs
    <2> HIDE DEF before
    <2> QED
      BY <2>2, <1>1
  <1>3. /\ IsSequence(after) /\ Len(after) = n - z
        /\ \A i \in 1 .. n - z : after[i] = s[z + i]
    <2>1. z + 1 \in 1 .. n + 1 /\ n \in z + 1 - 1 .. n
      BY <1>1
    <2>2. /\ IsSequence(after) /\ Len(after) = n - (z + 1) + 1
          /\ \A i \in 1 .. n - (z + 1) + 1 : after[i] = s[z + 1 + i - 1]
      BY <2>1, SubSeqIs
    <2> HIDE DEF after
    <2> QED
      BY <2>2, <1>1
  <1> HIDE DEF before, after
  <1>4. /\ IsSequence(front) /\ Len(front) = z - 1 + k
        /\ \A i \in 1 .. z - 1 + k : front[i] = IF i <= z - 1 THEN before[i] ELSE u[i - (z - 1)]
    <2>1. /\ IsSequence(front) /\ Len(front) = Len(before) + Len(u)
          /\ \A i \in 1 .. Len(before) + Len(u) :
                front[i] = IF i <= Len(before) THEN before[i] ELSE u[i - Len(before)]
      BY <1>2, ConcatIs
    <2> HIDE DEF front
    <2> QED
      BY <1>2, <2>1
  <1> HIDE DEF front
  <1>5. /\ IsSequence(front \o after) /\ Len(front \o after) = z - 1 + k + (n - z)
        /\ \A i \in 1 .. z - 1 + k + (n - z) :
              (front \o after)[i] = IF i <= z - 1 + k THEN front[i] ELSE after[i - (z - 1 + k)]
    <2> DEFINE whole == front \o after
    <2>1. /\ IsSequence(whole) /\ Len(whole) = Len(front) + Len(after)
          /\ \A i \in 1 .. Len(front) + Len(after) :
                whole[i] = IF i <= Len(front) THEN front[i] ELSE after[i - Len(front)]
      BY <1>3, <1>4, ConcatIs
    <2>2. Len(front) = z - 1 + k /\ Len(after) = n - z
      BY <1>3, <1>4
    <2> HIDE DEF whole, n, k
    <2>3. /\ IsSequence(whole) /\ Len(whole) = z - 1 + k + (n - z)
          /\ \A i \in 1 .. z - 1 + k + (n - z) :
                whole[i] = IF i <= z - 1 + k THEN front[i] ELSE after[i - (z - 1 + k)]
      BY <2>1, <2>2
    <2> QED
      BY <2>3 DEF whole
  <1>6. Replace(s, z, u) = front \o after
    BY DEF Replace, front, before, after
  <1>7. z - 1 + k + (n - z) = n - 1 + k
    BY <1>1
  <1>8. ASSUME NEW i \in 1 .. n - 1 + k
        PROVE  (front \o after)[i] = IF i < z THEN s[i]
                                     ELSE IF i < z + k THEN u[i - z + 1] ELSE s[i - k + 1]
    <2> HIDE DEF n, k
    <2>1. CASE i < z
      <3>1. i \in 1 .. z - 1 + k + (n - z) /\ i <= z - 1 + k /\ i \in 1 .. z - 1 + k
            /\ i <= z - 1 /\ i \in 1 .. z - 1
        BY <1>1, <2>1
      <3> QED
        BY <3>1, <2>1, <1>2, <1>4, <1>5
    <2>2. CASE ~(i < z) /\ i < z + k
      <3>1. i \in 1 .. z - 1 + k + (n - z) /\ i <= z - 1 + k /\ i \in 1 .. z - 1 + k
            /\ ~(i <= z - 1) /\ i - (z - 1) = i - z + 1
        BY <1>1, <2>2
      <3> QED
        BY <3>1, <2>2, <1>4, <1>5
    <2>3. CASE ~(i < z) /\ ~(i < z + k)
      <3>1. i \in 1 .. z - 1 + k + (n - z) /\ ~(i <= z - 1 + k)
            /\ i - (z - 1 + k) \in 1 .. n - z /\ z + (i - (z - 1 + k)) = i - k + 1
        BY <1>1, <2>3
      <3> QED
        BY <3>1, <2>3, <1>3, <1>5
    <2> QED
      BY <2>1, <2>2, <2>3
  <1> QED
    BY <1>5, <1>6, <1>7, <1>8

\* Places of a tree.
LEMMA PlaceIs ==
    ASSUME NEW nodes
    PROVE  /\ \A e \in Places(nodes) :
                 /\ e = <<e[1], e[2]>>
                 /\ e[1] \in Gates(nodes) /\ e[2] \in DOMAIN nodes[e[1]].children
           /\ \A g \in Gates(nodes) : \A i \in DOMAIN nodes[g].children :
                 /\ <<g, i>> \in Places(nodes)
                 /\ ChildAt(nodes, <<g, i>>) = nodes[g].children[i]
  BY DEF Places, ChildAt

LEMMA ChildIs ==
    ASSUME NEW nodes, IsTree(nodes), NEW e \in Places(nodes)
    PROVE  /\ ChildAt(nodes, e) \in 2 .. Len(nodes)
           /\ e[1] \in Nat /\ e[2] \in Nat /\ e[1] < ChildAt(nodes, e)
  <1>1. e[1] \in Gates(nodes) /\ e[2] \in DOMAIN nodes[e[1]].children
    BY PlaceIs
  <1>2. ChildAt(nodes, e) = nodes[e[1]].children[e[2]]
    BY DEF ChildAt
  <1>3. /\ Len(nodes) \in Nat /\ DOMAIN nodes = 1 .. Len(nodes)
        /\ e[1] \in DOMAIN nodes /\ nodes[e[1]].children \in Seq(Nat)
        /\ ChildAt(nodes, e) \in DOMAIN nodes /\ e[1] < ChildAt(nodes, e)
    BY <1>1, <1>2, TreeShape
  <1>4. e[2] \in Nat
    BY <1>1, <1>3, LenProperties
  <1> QED
    BY <1>3, <1>4

\* A tree has one place for every node but the root, and one first place for
\* every gate: the other places are one fewer than the leaves.
LEMMA PlacesCounted ==
    ASSUME NEW nodes, IsTree(nodes)
    PROVE  IsFiniteSet(Places(nodes)) /\ Cardinality(Places(nodes)) = Len(nodes) - 1
  <1> DEFINE P == Places(nodes)
             T == 2 .. Len(nodes)
             f == [e \in P |-> ChildAt(nodes, e)]
  <1>1. Len(nodes) \in Nat \ {0}
    BY TreeShape
  <1>2. IsFiniteSet(T) /\ Cardinality(T) = Len(nodes) - 1
    BY <1>1, FS_Interval
  <1>3. f \in [P -> T]
    BY ChildIs
  <1>4. \A d, e \in P : f[d] = f[e] => d = e
    BY DEF IsTree
  <1>5. \A n \in T : \E e \in P : f[e] = n
    BY DEF IsTree
  <1>6. f \in Injection(P, T) /\ f \in Surjection(P, T)
    <2> HIDE DEF f, P, T
    <2> QED
      BY <1>3, <1>4, <1>5 DEF Injection, Surjection, IsInjective
  <1> QED
    <2> HIDE DEF f, P, T
    <2>1. IsFiniteSet(P) /\ Cardinality(P) = Cardinality(T)
      BY <1>2, <1>6, FS_Injection
    <2> QED
      BY <1>2, <2>1 DEF P

\* The places of the gates in X from the second to the width of each gate.
LaterPlaces(nodes, X, width) ==
    {e \in Places(nodes) : e[1] \in X /\ e[2] \in 2 .. width[e[1]]}

AllChildren(nodes) == [g \in Gates(nodes) |-> Len(nodes[g].children)]
Thresholds(nodes) == [g \in Gates(nodes) |-> nodes[g].threshold]

LEMMA GateWidths ==
    ASSUME NEW nodes, IsTree(nodes), CheckTree(nodes), NEW g \in Gates(nodes)
    PROVE  /\ nodes[g].children \in Seq(Nat)
           /\ Len(nodes[g].children) \in Nat
           /\ DOMAIN nodes[g].children = 1 .. Len(nodes[g].children)
           /\ AllChildren(nodes)[g] \in 1 .. Len(nodes[g].children)
           /\ Thresholds(nodes)[g] \in 1 .. Len(nodes[g].children)
  <1>1. nodes[g].children \in Seq(Nat) /\ g \in DOMAIN nodes
    BY TreeShape
  <1>2. Len(nodes[g].children) \in Nat /\ DOMAIN nodes[g].children = 1 .. Len(nodes[g].children)
    BY <1>1, LenProperties
  <1>3. nodes[g].threshold \in 1 .. Len(nodes[g].children)
    <2>1. CheckNode(nodes, nodes[g]) /\ IsGate(nodes[g])
      BY <1>1 DEF CheckTree, Gates
    <2> QED
      BY <2>1 DEF CheckNode, IsGate
  <1> QED
    BY <1>1, <1>2, <1>3 DEF AllChildren, Thresholds

LEMMA LeavesCounted ==
    ASSUME NEW nodes, IsTree(nodes), CheckTree(nodes)
    PROVE  /\ TreeCountLeaves(nodes) \in Nat
           /\ IsFiniteSet(LaterPlaces(nodes, Gates(nodes), AllChildren(nodes)))
           /\ Cardinality(LaterPlaces(nodes, Gates(nodes), AllChildren(nodes)))
                  = TreeCountLeaves(nodes) - 1
  <1> DEFINE G == Gates(nodes)
             P == Places(nodes)
             D == DOMAIN nodes
             first == {e \in P : e[2] = 1}
             later == LaterPlaces(nodes, G, AllChildren(nodes))
             h == [g \in G |-> <<g, 1>>]
  <1>1. Len(nodes) \in Nat \ {0} /\ D = 1 .. Len(nodes)
    BY TreeShape
  <1>2. IsFiniteSet(D) /\ Cardinality(D) = Len(nodes)
    BY <1>1, FS_Interval
  <1>3. G \in SUBSET D /\ LeavesOf(nodes) = D \ G /\ D \cap G = G
    BY DEF Gates, LeavesOf
  <1>4. IsFiniteSet(G) /\ Cardinality(G) \in Nat
    BY <1>2, <1>3, FS_Subset, FS_CardinalityType
  <1>5. /\ Cardinality(LeavesOf(nodes)) = Len(nodes) - Cardinality(G)
        /\ Cardinality(LeavesOf(nodes)) \in Nat
    <2> HIDE DEF D, G
    <2>1. IsFiniteSet(D \ G) /\ Cardinality(D \ G) = Cardinality(D) - Cardinality(D \cap G)
      BY <1>2, FS_Difference
    <2> QED
      BY <2>1, <1>2, <1>3, FS_CardinalityType
  <1>6. IsFiniteSet(P) /\ Cardinality(P) = Len(nodes) - 1
    BY PlacesCounted
  <1>7. \A g \in G : 1 \in DOMAIN nodes[g].children
    BY GateWidths
  <1>8. h \in [G -> first] /\ \A e \in first : h[e[1]] = e /\ e[1] \in G
    BY <1>7, PlaceIs
  <1>9. h \in Bijection(G, first)
    BY <1>8 DEF Bijection, Injection, Surjection, IsInjective
  <1>10. Cardinality(first) = Cardinality(G)
    <2> HIDE DEF h, G, first
    <2> QED
      BY <1>4, <1>9, FS_Bijection DEF ExistsBijection
  <1>11. later = P \ first /\ P \cap first = first
    <2>1. ASSUME NEW e \in P
          PROVE  e \in later <=> e[2] # 1
      <3>1. /\ e[1] \in G /\ e[2] \in 1 .. Len(nodes[e[1]].children)
            /\ Len(nodes[e[1]].children) \in Nat
        BY PlaceIs, GateWidths
      <3>2. AllChildren(nodes)[e[1]] = Len(nodes[e[1]].children)
        BY <3>1 DEF AllChildren
      <3> QED
        BY <3>1, <3>2 DEF LaterPlaces
    <2>2. later \subseteq P
      BY DEF LaterPlaces
    <2> QED
      BY <2>1, <2>2
  <1>12. IsFiniteSet(later) /\ Cardinality(later) = Len(nodes) - 1 - Cardinality(G)
    <2> HIDE DEF P, first, later, G
    <2>1. IsFiniteSet(P \ first) /\ Cardinality(P \ first) = Cardinality(P) - Cardinality(P \cap first)
      BY <1>6, FS_Difference
    <2> QED
      BY <2>1, <1>6, <1>10, <1>11
  <1> QED
    <2> HIDE DEF G, later
    <2>1. Cardinality(later) = Cardinality(LeavesOf(nodes)) - 1
      BY <1>1, <1>4, <1>5, <1>12
    <2> QED
      BY <2>1, <1>5, <1>12 DEF TreeCountLeaves, later, G

LEMMA LaterPlacesFinite ==
    ASSUME NEW nodes, IsTree(nodes), NEW X, NEW width
    PROVE  /\ IsFiniteSet(LaterPlaces(nodes, X, width))
           /\ Cardinality(LaterPlaces(nodes, X, width)) \in Nat
  <1>1. LaterPlaces(nodes, X, width) \in SUBSET Places(nodes)
    BY DEF LaterPlaces
  <1> QED
    BY <1>1, PlacesCounted, FS_Subset, FS_CardinalityType

\* A gate of k places adds k - 1 later ones.
LEMMA OneMoreGate ==
    ASSUME NEW nodes, IsTree(nodes), NEW X \in SUBSET Gates(nodes),
           NEW g \in Gates(nodes), g \notin X,
           NEW width, width[g] \in 1 .. Len(nodes[g].children)
    PROVE  Cardinality(LaterPlaces(nodes, X \cup {g}, width))
              = Cardinality(LaterPlaces(nodes, X, width)) + (width[g] - 1)
  <1> DEFINE old == LaterPlaces(nodes, X, width)
             new == LaterPlaces(nodes, {g}, width)
             all == LaterPlaces(nodes, X \cup {g}, width)
             k == width[g]
             T == 2 .. k
             h == [i \in T |-> <<g, i>>]
  <1>1. /\ nodes[g].children \in Seq(Nat) /\ Len(nodes[g].children) \in Nat
        /\ DOMAIN nodes[g].children = 1 .. Len(nodes[g].children)
    BY TreeShape, LenProperties
  <1>2. k \in Nat \ {0} /\ T \subseteq DOMAIN nodes[g].children
    BY <1>1
  <1>3. IsFiniteSet(T) /\ Cardinality(T) = k - 1
    BY <1>2, FS_Interval
  <1>4. h \in [T -> new] /\ \A i \in T : h[i] = <<g, i>>
    BY <1>2, PlaceIs DEF LaterPlaces
  <1>5. \A e \in new : e[2] \in T /\ h[e[2]] = e
    BY PlaceIs DEF LaterPlaces
  <1>6. h \in Bijection(T, new)
    <2>1. \A i, j \in T : h[i] = h[j] => i = j
      BY <1>4
    <2> HIDE DEF h, T, new
    <2> QED
      BY <1>4, <1>5, <2>1 DEF Bijection, Injection, Surjection, IsInjective
  <1>7. IsFiniteSet(new) /\ Cardinality(new) = k - 1
    <2> HIDE DEF h, T, new, k
    <2> QED
      BY <1>3, <1>6, FS_Bijection DEF ExistsBijection
  <1>8. IsFiniteSet(old) /\ Cardinality(old) \in Nat
    BY LaterPlacesFinite
  <1>9. all = old \cup new /\ old \cap new = {}
    BY DEF LaterPlaces
  <1> HIDE DEF old, new, all, k
  <1>10. Cardinality(old \cup new) = Cardinality(old) + Cardinality(new) - Cardinality(old \cap new)
    BY <1>7, <1>8, FS_Union
  <1>11. Cardinality(all) = Cardinality(old) + (k - 1)
    <2>1. Cardinality(old \cap new) = 0
      BY <1>9, FS_EmptySet
    <2>2. Cardinality(all) = Cardinality(old \cup new)
      BY <1>9
    <2>3. Cardinality(all) = Cardinality(old) + (k - 1) - 0
      BY <1>7, <1>10, <2>1, <2>2
    <2> QED
      BY <1>2, <1>8, <2>3
  <1> QED
    BY <1>11 DEF all, old, k

(***************************************************************************)
(* After the gates in X have been expanded, the labels are the nodes that  *)
(* have been reached and are not expanded, each once.                      *)
(***************************************************************************)
Expanded(nodes, labels, X) ==
    /\ IsSequence(labels) /\ IsInjective(labels)
    /\ \A i \in DOMAIN labels : labels[i] \in DOMAIN nodes /\ labels[i] \notin X
    /\ \A n \in DOMAIN nodes :
          (n \in X \/ n \in ToSet(labels))
             <=> (n = 1 \/ \E e \in Places(nodes) : e[1] \in X /\ n = ChildAt(nodes, e))
    /\ Len(labels) = 1 + Cardinality(LaterPlaces(nodes, X, AllChildren(nodes)))

OfLength(rows, w) == \A i \in DOMAIN rows : IsSequence(rows[i]) /\ Len(rows[i]) = w

ConvertInv ==
    /\ SearchInv
    /\ stage = "convert" =>
          /\ ac.kind = "gates"
          /\ IsSequence(bigM) /\ Len(bigM) = Len(l)
          /\ \E X \in SUBSET Gates(ac.nodes) :
                /\ Expanded(ac.nodes, l, X)
                /\ OfLength(bigM, 1 + Cardinality(LaterPlaces(ac.nodes, X, Thresholds(ac.nodes))))

\* A gate among the labels makes way for its children, which nothing has
\* reached before.
LEMMA ExpandOne ==
    ASSUME NEW nodes, IsTree(nodes), CheckTree(nodes),
           NEW labels, NEW X \in SUBSET Gates(nodes), Expanded(nodes, labels, X),
           NEW z \in DOMAIN labels, IsGate(nodes[labels[z]])
    PROVE  /\ labels[z] \in Gates(nodes) /\ labels[z] \notin X
           /\ Expanded(nodes, Replace(labels, z, nodes[labels[z]].children), X \cup {labels[z]})
  <1> DEFINE g == labels[z]
             children == nodes[g].children
             n == Len(labels)
             k == Len(children)
             after == Replace(labels, z, children)
             Y == X \cup {g}
  <1>1. /\ n \in Nat /\ DOMAIN labels = 1 .. n
        /\ g \in DOMAIN nodes /\ g \notin X /\ IsSequence(labels)
        /\ \A i, j \in DOMAIN labels : labels[i] = labels[j] => i = j
    BY SequenceIs DEF Expanded, IsInjective
  <1>2. g \in Gates(nodes)
    BY <1>1 DEF Gates
  <1>3. children \in Seq(Nat) /\ k \in Nat \ {0} /\ DOMAIN children = 1 .. k /\ IsSequence(children)
    <2>1. children \in Seq(Nat) /\ k \in Nat /\ DOMAIN children = 1 .. k /\ AllChildren(nodes)[g] \in 1 .. k
      BY <1>2, GateWidths
    <2> QED
      BY <2>1 DEF IsSequence
  <1>4. /\ IsSequence(after) /\ Len(after) = n - 1 + k /\ DOMAIN after = 1 .. n - 1 + k
        /\ \A i \in 1 .. n - 1 + k :
              after[i] = IF i < z THEN labels[i]
                         ELSE IF i < z + k THEN children[i - z + 1]
                         ELSE labels[i - k + 1]
    <2>1. /\ IsSequence(after) /\ Len(after) = n - 1 + k
          /\ \A i \in 1 .. n - 1 + k :
                after[i] = IF i < z THEN labels[i]
                           ELSE IF i < z + k THEN children[i - z + 1]
                           ELSE labels[i - k + 1]
      <3>1. IsSequence(labels) /\ IsSequence(children) /\ z \in DOMAIN labels
        BY <1>1, <1>3
      <3> HIDE DEF children
      <3> QED
        BY <3>1, ReplaceIs, Zenon
    <2>2. DOMAIN after = 1 .. Len(after)
      BY <2>1, SequenceIs
    <2> HIDE DEF after, n, k, children, g
    <2> QED
      BY <2>1, <2>2
  <1>5. ASSUME NEW i \in 1 .. k
        PROVE  /\ <<g, i>> \in Places(nodes) /\ ChildAt(nodes, <<g, i>>) = children[i]
               /\ children[i] \in DOMAIN nodes /\ children[i] \in Nat
               /\ children[i] # g /\ children[i] # 1
               /\ \A e \in Places(nodes) : ChildAt(nodes, e) = children[i] => e = <<g, i>>
    <2>1. <<g, i>> \in Places(nodes) /\ ChildAt(nodes, <<g, i>>) = children[i]
      BY <1>2, <1>3, PlaceIs
    <2>2. children[i] \in DOMAIN nodes /\ g < children[i]
      BY <1>2, <1>3, TreeShape
    <2>3. DOMAIN nodes = 1 .. Len(nodes) /\ Len(nodes) \in Nat
      BY TreeShape
    <2>4. \A e \in Places(nodes) : ChildAt(nodes, e) = children[i] => e = <<g, i>>
      BY <2>1 DEF IsTree
    <2> QED
      BY <1>1, <2>1, <2>2, <2>3, <2>4
  <1>6. ASSUME NEW i \in 1 .. k
        PROVE  children[i] \notin X /\ children[i] \notin ToSet(labels)
    <2> SUFFICES ASSUME children[i] \in X \/ children[i] \in ToSet(labels) PROVE FALSE
      OBVIOUS
    <2>1. children[i] \in DOMAIN nodes /\ children[i] # 1
      BY <1>5
    <2>2. PICK e \in Places(nodes) : e[1] \in X /\ children[i] = ChildAt(nodes, e)
      BY <2>1 DEF Expanded
    <2>3. e = <<g, i>>
      BY <1>5, <2>2
    <2> QED
      BY <2>2, <2>3, <1>1
  <1>7. \A i, j \in 1 .. k : children[i] = children[j] => i = j
    BY <1>5
  <1> HIDE DEF after, children, k, n, g
  <1>8. ASSUME NEW i \in 1 .. n - 1 + k
        PROVE  \/ i < z /\ i \in 1 .. n /\ i # z /\ after[i] = labels[i]
               \/ ~(i < z) /\ i < z + k /\ i - z + 1 \in 1 .. k /\ after[i] = children[i - z + 1]
               \/ ~(i < z + k) /\ i - k + 1 \in 1 .. n /\ z < i - k + 1
                     /\ after[i] = labels[i - k + 1]
    <2>1. z \in 1 .. n
      BY <1>1
    <2>2. CASE i < z
      BY <1>1, <1>3, <1>4, <2>1, <2>2
    <2>3. CASE ~(i < z) /\ i < z + k
      BY <1>1, <1>3, <1>4, <2>1, <2>3
    <2>4. CASE ~(i < z) /\ ~(i < z + k)
      BY <1>1, <1>3, <1>4, <2>1, <2>4
    <2> QED
      BY <1>1, <1>3, <2>1, <2>2, <2>3, <2>4
  <1>9. \A i \in 1 .. n : labels[i] \in ToSet(labels)
    BY <1>1 DEF ToSet
  <1>10. ASSUME NEW i \in 1 .. n - 1 + k, NEW j \in 1 .. n - 1 + k, after[i] = after[j]
         PROVE  i = j
    <2>1. z \in 1 .. n
      BY <1>1
    <2>2. \A a \in 1 .. n : \A b \in 1 .. k : labels[a] # children[b]
      BY <1>6, <1>9
    <2>3. CASE i < z
      <3>1. i \in 1 .. n /\ after[i] = labels[i]
        BY <1>8, <2>3, <2>1, <1>3
      <3>2. CASE j < z
        <4>1. j \in 1 .. n /\ after[j] = labels[j]
          BY <1>8, <3>2, <2>1, <1>3
        <4> QED
          BY <3>1, <4>1, <1>1, <1>10
      <3>3. CASE ~(j < z) /\ j < z + k
        <4>1. j - z + 1 \in 1 .. k /\ after[j] = children[j - z + 1]
          BY <1>8, <3>3, <2>1, <1>3
        <4> QED
          BY <3>1, <4>1, <2>2, <1>10
      <3>4. CASE ~(j < z) /\ ~(j < z + k)
        <4>1. j - k + 1 \in 1 .. n /\ after[j] = labels[j - k + 1] /\ z < j - k + 1
          BY <1>8, <3>4, <2>1, <1>3
        <4>2. i = j - k + 1
          BY <3>1, <4>1, <1>1, <1>10
        <4> QED
          BY <2>3, <4>1, <4>2, <2>1
      <3> QED
        BY <3>2, <3>3, <3>4
    <2>4. CASE ~(i < z) /\ i < z + k
      <3>1. i - z + 1 \in 1 .. k /\ after[i] = children[i - z + 1]
        BY <1>8, <2>4, <2>1, <1>3
      <3>2. CASE j < z
        <4>1. j \in 1 .. n /\ after[j] = labels[j]
          BY <1>8, <3>2, <2>1, <1>3
        <4> QED
          BY <3>1, <4>1, <2>2, <1>10
      <3>3. CASE ~(j < z) /\ j < z + k
        <4>1. j - z + 1 \in 1 .. k /\ after[j] = children[j - z + 1]
          BY <1>8, <3>3, <2>1, <1>3
        <4>2. i - z + 1 = j - z + 1
          BY <3>1, <4>1, <1>7, <1>10
        <4> QED
          BY <4>2, <2>1
      <3>4. CASE ~(j < z) /\ ~(j < z + k)
        <4>1. j - k + 1 \in 1 .. n /\ after[j] = labels[j - k + 1]
          BY <1>8, <3>4, <2>1, <1>3
        <4> QED
          BY <3>1, <4>1, <2>2, <1>10
      <3> QED
        BY <3>2, <3>3, <3>4
    <2>5. CASE ~(i < z) /\ ~(i < z + k)
      <3>1. i - k + 1 \in 1 .. n /\ after[i] = labels[i - k + 1] /\ z < i - k + 1
        BY <1>8, <2>5, <2>1, <1>3
      <3>2. CASE j < z
        <4>1. j \in 1 .. n /\ after[j] = labels[j]
          BY <1>8, <3>2, <2>1, <1>3
        <4>2. j = i - k + 1
          BY <3>1, <4>1, <1>1, <1>10
        <4> QED
          BY <3>1, <3>2, <4>2, <2>1
      <3>3. CASE ~(j < z) /\ j < z + k
        <4>1. j - z + 1 \in 1 .. k /\ after[j] = children[j - z + 1]
          BY <1>8, <3>3, <2>1, <1>3
        <4> QED
          BY <3>1, <4>1, <2>2, <1>10
      <3>4. CASE ~(j < z) /\ ~(j < z + k)
        <4>1. j - k + 1 \in 1 .. n /\ after[j] = labels[j - k + 1]
          BY <1>8, <3>4, <2>1, <1>3
        <4>2. i - k + 1 = j - k + 1
          BY <3>1, <4>1, <1>1, <1>10
        <4> QED
          BY <4>2, <1>3
      <3> QED
        BY <3>2, <3>3, <3>4
    <2> QED
      BY <2>3, <2>4, <2>5
  <1>11. ASSUME NEW i \in 1 .. n - 1 + k
         PROVE  /\ after[i] \in DOMAIN nodes /\ after[i] \notin Y
                /\ \/ after[i] \in ToSet(labels) /\ after[i] # g
                   \/ \E c \in 1 .. k : after[i] = children[c]
    <2>1. z \in 1 .. n /\ g = labels[z]
      BY <1>1 DEF g
    <2>2. \A c \in 1 .. n : labels[c] \in DOMAIN nodes /\ labels[c] \notin X
      BY <1>1 DEF Expanded
    <2>3. \A c \in 1 .. n : c # z => labels[c] # g
      BY <1>1, <2>1
    <2>4. CASE \E c \in 1 .. n : c # z /\ after[i] = labels[c]
      BY <2>2, <2>3, <2>4, <1>9
    <2>5. CASE \E c \in 1 .. k : after[i] = children[c]
      BY <2>5, <1>5, <1>6
    <2> QED
      BY <1>1, <1>3, <1>8, <2>1, <2>4, <2>5
  <1>12. \A c \in 1 .. k : children[c] \in ToSet(after)
    <2> TAKE c \in 1 .. k
    <2>1. z \in 1 .. n
      BY <1>1
    <2> DEFINE i == z + c - 1
    <2>2. i \in 1 .. n - 1 + k /\ ~(i < z) /\ i < z + k /\ i - z + 1 = c
      BY <2>1, <1>1, <1>3
    <2> HIDE DEF i
    <2>3. after[i] = children[c]
      BY <2>2, <1>4
    <2> QED
      BY <2>2, <2>3, <1>4 DEF ToSet
  <1>13. ASSUME NEW m \in ToSet(labels), m # g PROVE m \in ToSet(after)
    <2>1. PICK c \in 1 .. n : labels[c] = m
      BY <1>1 DEF ToSet
    <2>2. z \in 1 .. n /\ c # z
      BY <2>1, <1>13, <1>1 DEF g
    <2>3. CASE c < z
      <3>1. c \in 1 .. n - 1 + k /\ after[c] = m
        BY <2>1, <2>2, <2>3, <1>1, <1>3, <1>4
      <3> QED
        BY <3>1, <1>4 DEF ToSet
    <2>4. CASE c > z
      <3> DEFINE i == c + k - 1
      <3>1. i \in 1 .. n - 1 + k /\ ~(i < z) /\ ~(i < z + k) /\ i - k + 1 = c
        BY <2>1, <2>2, <2>4, <1>1, <1>3
      <3> HIDE DEF i
      <3>2. after[i] = m
        BY <3>1, <2>1, <1>4
      <3> QED
        BY <3>1, <3>2, <1>4 DEF ToSet
    <2> QED
      BY <2>2, <2>3, <2>4
  <1>14. ASSUME NEW m \in DOMAIN nodes
         PROVE  (m \in Y \/ m \in ToSet(after))
                   <=> (m = 1 \/ \E e \in Places(nodes) : e[1] \in Y /\ m = ChildAt(nodes, e))
    <2>1. (m \in X \/ m \in ToSet(labels))
             <=> (m = 1 \/ \E e \in Places(nodes) : e[1] \in X /\ m = ChildAt(nodes, e))
      BY DEF Expanded
    <2>2. (\E c \in 1 .. k : m = children[c])
             <=> \E e \in Places(nodes) : e[1] = g /\ m = ChildAt(nodes, e)
      <3>1. ASSUME NEW e \in Places(nodes), e[1] = g, m = ChildAt(nodes, e)
            PROVE  \E c \in 1 .. k : m = children[c]
        <4>1. e[2] \in 1 .. k
          BY <3>1, <1>3, PlaceIs DEF children
        <4>2. m = children[e[2]]
          BY <3>1 DEF ChildAt, children
        <4> QED
          BY <4>1, <4>2
      <3>2. ASSUME NEW c \in 1 .. k, m = children[c]
            PROVE  \E e \in Places(nodes) : e[1] = g /\ m = ChildAt(nodes, e)
        <4>1. <<g, c>> \in Places(nodes) /\ <<g, c>>[1] = g /\ m = ChildAt(nodes, <<g, c>>)
          BY <3>2, <1>5
        <4> QED
          BY <4>1
      <3> QED
        BY <3>1, <3>2
    <2>3. m \in ToSet(after) <=> (m \in ToSet(labels) /\ m # g) \/ \E c \in 1 .. k : m = children[c]
      <3>1. ASSUME m \in ToSet(after)
            PROVE  (m \in ToSet(labels) /\ m # g) \/ \E c \in 1 .. k : m = children[c]
        <4>1. PICK i \in 1 .. n - 1 + k : after[i] = m
          BY <3>1, <1>4 DEF ToSet
        <4> QED
          BY <4>1, <1>11
      <3> QED
        BY <3>1, <1>12, <1>13
    <2>4. g \in ToSet(labels)
      BY <1>1 DEF ToSet, g
    <2> QED
      BY <2>1, <2>2, <2>3, <2>4
  <1>15. Len(after) = 1 + Cardinality(LaterPlaces(nodes, Y, AllChildren(nodes)))
    <2> DEFINE old == Cardinality(LaterPlaces(nodes, X, AllChildren(nodes)))
    <2>1. n = 1 + old
      BY DEF Expanded, n
    <2>2. AllChildren(nodes)[g] = k
      BY <1>2 DEF AllChildren, k, children
    <2>3. AllChildren(nodes)[g] \in 1 .. Len(nodes[g].children)
      BY <1>2, GateWidths
    <2>4. Cardinality(LaterPlaces(nodes, Y, AllChildren(nodes))) = old + (AllChildren(nodes)[g] - 1)
      <3>1. g \in Gates(nodes) /\ g \notin X
        BY <1>1, <1>2
      <3> QED
        BY <2>3, <3>1, OneMoreGate, Zenon
    <2>5. old \in Nat
      BY LaterPlacesFinite
    <2> HIDE DEF old
    <2> QED
      BY <1>3, <1>4, <2>1, <2>2, <2>4, <2>5
  <1>16. Expanded(nodes, after, Y)
    BY <1>4, <1>10, <1>11, <1>14, <1>15 DEF Expanded, IsInjective
  <1> QED
    BY <1>1, <1>2, <1>16 DEF after, children, g

LEMMA SingleIs ==
    ASSUME NEW x
    PROVE  IsSequence(<<x>>) /\ Len(<<x>>) = 1 /\ DOMAIN <<x>> = {1} /\ <<x>>[1] = x
  <1>1. <<x>> \in Seq({x})
    OBVIOUS
  <1>2. IsSequence(<<x>>)
    BY <1>1, Zenon DEF IsSequence
  <1>3. Len(<<x>>) = 1 /\ <<x>>[1] = x
    OBVIOUS
  <1>4. DOMAIN <<x>> = {1}
    OBVIOUS
  <1> QED
    BY <1>2, <1>3, <1>4

LEMMA NothingExpanded ==
    ASSUME NEW nodes, IsTree(nodes)
    PROVE  /\ Expanded(nodes, <<1>>, {})
           /\ \A width : Cardinality(LaterPlaces(nodes, {}, width)) = 0
  <1>1. \A width : LaterPlaces(nodes, {}, width) = {}
    BY DEF LaterPlaces
  <1>2. \A width : Cardinality(LaterPlaces(nodes, {}, width)) = 0
    BY <1>1, FS_EmptySet
  <1>3. IsSequence(<<1>>) /\ Len(<<1>>) = 1 /\ DOMAIN <<1>> = {1} /\ <<1>>[1] = 1
    BY SingleIs
  <1>4. 1 \in DOMAIN nodes
    BY TreeShape
  <1>5. IsInjective(<<1>>) /\ ToSet(<<1>>) = {1}
    BY <1>3 DEF IsInjective, ToSet
  <1> QED
    BY <1>2, <1>3, <1>4, <1>5 DEF Expanded

\* Rows of one length, one of them replaced by others of that length.
LEMMA RowsReplaced ==
    ASSUME NEW rows, IsSequence(rows), NEW block, IsSequence(block), NEW z \in DOMAIN rows,
           NEW w, OfLength(rows, w), OfLength(block, w)
    PROVE  /\ IsSequence(Replace(rows, z, block))
           /\ Len(Replace(rows, z, block)) = Len(rows) - 1 + Len(block)
           /\ OfLength(Replace(rows, z, block), w)
  <1> DEFINE n == Len(rows)
             k == Len(block)
             after == Replace(rows, z, block)
  <1>1. n \in Nat /\ DOMAIN rows = 1 .. n /\ k \in Nat /\ DOMAIN block = 1 .. k
    BY SequenceIs
  <1>2. /\ IsSequence(after) /\ Len(after) = n - 1 + k
        /\ \A i \in 1 .. n - 1 + k :
              after[i] = IF i < z THEN rows[i]
                         ELSE IF i < z + k THEN block[i - z + 1] ELSE rows[i - k + 1]
    BY ReplaceIs, Zenon
  <1>3. DOMAIN after = 1 .. n - 1 + k
    BY <1>2, SequenceIs
  <1> HIDE DEF after, n, k
  <1>4. ASSUME NEW i \in 1 .. n - 1 + k
        PROVE  IsSequence(after[i]) /\ Len(after[i]) = w
    <2>1. z \in 1 .. n
      BY <1>1
    <2>2. CASE i < z
      <3>1. i \in DOMAIN rows /\ after[i] = rows[i]
        BY <1>1, <1>2, <2>1, <2>2
      <3> QED
        BY <3>1 DEF OfLength
    <2>3. CASE ~(i < z) /\ i < z + k
      <3>1. i - z + 1 \in DOMAIN block /\ after[i] = block[i - z + 1]
        BY <1>1, <1>2, <2>1, <2>3
      <3> QED
        BY <3>1 DEF OfLength
    <2>4. CASE ~(i < z) /\ ~(i < z + k)
      <3>1. i - k + 1 \in DOMAIN rows /\ after[i] = rows[i - k + 1]
        BY <1>1, <1>2, <2>1, <2>4
      <3> QED
        BY <3>1 DEF OfLength
    <2> QED
      BY <2>2, <2>3, <2>4
  <1>5. IsSequence(after) /\ Len(after) = n - 1 + k /\ OfLength(after, w)
    BY <1>2, <1>3, <1>4 DEF OfLength
  <1> QED
    BY <1>5 DEF after, n, k

\* What ExpandGate puts behind every other row, and behind the gate's own row
\* for each child.
Padded(rows, c) == [i \in DOMAIN rows |-> rows[i] \o [j \in 1 .. c |-> 0]]
Block(row, k, c) == [x \in 1 .. k |-> row \o Powers(x, c)]

LEMMA RowsPadded ==
    ASSUME NEW rows, IsSequence(rows), NEW w \in Nat, NEW c \in Nat, OfLength(rows, w)
    PROVE  /\ IsSequence(Padded(rows, c)) /\ Len(Padded(rows, c)) = Len(rows)
           /\ DOMAIN Padded(rows, c) = DOMAIN rows
           /\ OfLength(Padded(rows, c), w + c)
  <1> DEFINE zeros == [j \in 1 .. c |-> 0]
             n == Len(rows)
             padded == Padded(rows, c)
  <1>1. n \in Nat /\ DOMAIN rows = 1 .. n
    BY SequenceIs
  <1>2. IsSequence(zeros) /\ Len(zeros) = c
    BY FunctionIsSequence
  <1>3. ASSUME NEW i \in DOMAIN rows PROVE IsSequence(padded[i]) /\ Len(padded[i]) = w + c
    <2>1. padded[i] = rows[i] \o zeros
      BY DEF Padded
    <2> HIDE DEF zeros, padded
    <2>2. IsSequence(rows[i] \o zeros) /\ Len(rows[i] \o zeros) = Len(rows[i]) + Len(zeros)
      BY <1>2, ConcatIs DEF OfLength
    <2> QED
      BY <1>2, <2>1, <2>2 DEF OfLength
  <1>4. padded = [i \in 1 .. n |-> padded[i]] /\ DOMAIN padded = DOMAIN rows
    BY <1>1 DEF Padded
  <1> HIDE DEF n, padded
  <1>5. IsSequence(padded) /\ Len(padded) = n
    BY <1>1, <1>4, FunctionIsSequence
  <1> QED
    BY <1>3, <1>4, <1>5 DEF n, padded, OfLength

LEMMA BlockOfRows ==
    ASSUME NEW row, IsSequence(row), NEW c \in Nat, NEW k \in Nat
    PROVE  /\ IsSequence(Block(row, k, c)) /\ Len(Block(row, k, c)) = k
           /\ OfLength(Block(row, k, c), Len(row) + c)
  <1> DEFINE block == Block(row, k, c)
  <1>1. ASSUME NEW x \in 1 .. k PROVE IsSequence(block[x]) /\ Len(block[x]) = Len(row) + c
    <2> DEFINE powers == Powers(x, c)
    <2>1. powers = [j \in 1 .. c |-> powers[j]]
      BY DEF Powers
    <2>2. block[x] = row \o powers
      BY DEF Block
    <2> HIDE DEF powers, block
    <2>3. IsSequence(powers) /\ Len(powers) = c
      BY <2>1, FunctionIsSequence
    <2>4. IsSequence(row \o powers) /\ Len(row \o powers) = Len(row) + Len(powers)
      BY <2>3, ConcatIs
    <2> QED
      BY <2>2, <2>3, <2>4
  <1>2. block = [x \in 1 .. k |-> block[x]] /\ DOMAIN block = 1 .. k
    BY DEF Block
  <1> HIDE DEF block
  <1>3. IsSequence(block) /\ Len(block) = k
    BY <1>2, FunctionIsSequence
  <1> QED
    BY <1>1, <1>2, <1>3 DEF block, OfLength

LEMMA RowsExpanded ==
    ASSUME NEW rows, IsSequence(rows), NEW w \in Nat, NEW c \in Nat, NEW k \in Nat,
           OfLength(rows, w), NEW z \in DOMAIN rows
    PROVE  LET after == Replace(Padded(rows, c), z, Block(rows[z], k, c))
           IN  IsSequence(after) /\ Len(after) = Len(rows) - 1 + k /\ OfLength(after, w + c)
  <1> DEFINE padded == Padded(rows, c)
             block == Block(rows[z], k, c)
             v == w + c
             after == Replace(padded, z, block)
  <1>1. /\ IsSequence(padded) /\ Len(padded) = Len(rows) /\ DOMAIN padded = DOMAIN rows
        /\ OfLength(padded, v)
    BY RowsPadded
  <1>2. IsSequence(rows[z]) /\ Len(rows[z]) = w
    BY DEF OfLength
  <1>3. IsSequence(block) /\ Len(block) = k /\ OfLength(block, v)
    <2>1. OfLength(block, Len(rows[z]) + c) /\ IsSequence(block) /\ Len(block) = k
      BY <1>2, BlockOfRows
    <2> QED
      BY <1>2, <2>1
  <1>4. z \in DOMAIN padded
    BY <1>1
  <1> HIDE DEF padded, block, v
  <1>5. IsSequence(after) /\ Len(after) = Len(padded) - 1 + Len(block) /\ OfLength(after, v)
    BY <1>1, <1>3, <1>4, RowsReplaced
  <1>6. IsSequence(after) /\ Len(after) = Len(rows) - 1 + k /\ OfLength(after, v)
    BY <1>1, <1>3, <1>5
  <1> QED
    BY <1>6 DEF v, padded, block

LEMMA ConvertStep == ConvertInv /\ [Next]_vars => ConvertInv'
  <1> SUFFICES ASSUME ConvertInv, [Next]_vars PROVE ConvertInv'
    OBVIOUS
  <1>1. SearchInv'
    BY SearchStep DEF ConvertInv
  <1>2. WellTyped(ac)
    BY StructuresAssumption DEF ConvertInv, SearchInv
  <1>3. CASE BeginConvert
    <2>1. /\ ac.kind = "gates" /\ ac' = ac /\ l' = <<1>> /\ bigM' = <<<<1>>>>
      BY <1>3 DEF BeginConvert
    <2>2. IsTree(ac.nodes)
      BY <1>2, <2>1, GatesIs
    <2>3. /\ Expanded(ac.nodes, <<1>>, {})
          /\ Cardinality(LaterPlaces(ac.nodes, {}, Thresholds(ac.nodes))) = 0
      BY <2>2, NothingExpanded
    <2>4. /\ IsSequence(<<<<1>>>>) /\ Len(<<<<1>>>>) = 1 /\ DOMAIN <<<<1>>>> = {1}
          /\ <<<<1>>>>[1] = <<1>> /\ IsSequence(<<1>>) /\ Len(<<1>>) = 1
      BY SingleIs
    <2>5. \E X \in SUBSET Gates(ac'.nodes) :
             /\ Expanded(ac'.nodes, l', X)
             /\ OfLength(bigM', 1 + Cardinality(LaterPlaces(ac'.nodes, X, Thresholds(ac'.nodes))))
      <3>1. {} \in SUBSET Gates(ac'.nodes)
        OBVIOUS
      <3>2. Expanded(ac'.nodes, l', {})
        BY <2>1, <2>3
      <3>3. ASSUME NEW i \in DOMAIN bigM'
            PROVE  /\ IsSequence(bigM'[i])
                   /\ Len(bigM'[i]) = 1 + Cardinality(LaterPlaces(ac'.nodes, {}, Thresholds(ac'.nodes)))
        <4>1. bigM'[i] = <<1>>
          BY <2>1, <2>4
        <4>2. IsSequence(bigM'[i]) /\ Len(bigM'[i]) = 1
          BY <2>4, <4>1
        <4>3. Cardinality(LaterPlaces(ac'.nodes, {}, Thresholds(ac'.nodes))) = 0
          BY <2>1, <2>3
        <4> QED
          BY <4>2, <4>3
      <3> QED
        BY <3>1, <3>2, <3>3 DEF OfLength
    <2> QED
      BY <1>1, <2>1, <2>4, <2>5 DEF ConvertInv
  <1>4. CASE ExpandGate
    <2> DEFINE nodes == ac.nodes
    <2>1. /\ stage = "convert" /\ ac.kind = "gates" /\ ac' = ac /\ stage' = stage
          /\ IsSequence(bigM) /\ Len(bigM) = Len(l)
      BY <1>4 DEF ExpandGate, ConvertInv
    <2>2. IsTree(nodes) /\ CheckTree(nodes)
      BY <1>2, <2>1, GatesIs DEF ConvertInv, SearchInv
    <2>3. PICK X \in SUBSET Gates(nodes) :
             /\ Expanded(nodes, l, X)
             /\ OfLength(bigM, 1 + Cardinality(LaterPlaces(nodes, X, Thresholds(nodes))))
      BY <2>1 DEF ConvertInv
    <2>4. PICK z \in DOMAIN l :
             /\ IsGate(nodes[l[z]])
             /\ LET fz == nodes[l[z]]
                    zeros == [j \in 1 .. NewColumns(fz) |-> 0]
                    padded == [i \in DOMAIN bigM |-> bigM[i] \o zeros]
                    block == [x \in DOMAIN fz.children |-> bigM[z] \o Powers(x, NewColumns(fz))]
                IN  /\ l' = Replace(l, z, fz.children)
                    /\ bigM' = Replace(padded, z, block)
      BY <1>4 DEF ExpandGate
    <2> DEFINE g == l[z]
               k == Len(nodes[g].children)
               c == NewColumns(nodes[g])
               Y == X \cup {g}
               w == 1 + Cardinality(LaterPlaces(nodes, X, Thresholds(nodes)))
    <2>5. g \in Gates(nodes) /\ g \notin X /\ Expanded(nodes, l', Y)
      BY <2>2, <2>3, <2>4, ExpandOne
    <2>6. /\ k \in Nat /\ DOMAIN nodes[g].children = 1 .. k
          /\ nodes[g].children \in Seq(Nat)
          /\ Thresholds(nodes)[g] \in 1 .. Len(nodes[g].children)
      BY <2>2, <2>5, GateWidths
    <2>7. c = Thresholds(nodes)[g] - 1 /\ c \in Nat
      <3>1. c = Thresholds(nodes)[g] - 1
        BY <2>5 DEF NewColumns, Thresholds
      <3> QED
        BY <2>6, <3>1
    <2>8. w \in Nat
      BY <2>2, LaterPlacesFinite
    <2>9. IsSequence(l) /\ DOMAIN l = 1 .. Len(l) /\ Len(l) \in Nat
      BY <2>3, SequenceIs DEF Expanded
    <2>10. DOMAIN bigM = 1 .. Len(bigM)
      BY <2>1, SequenceIs
    <2>11. z \in DOMAIN bigM
      BY <2>1, <2>9, <2>10
    <2>12. IsSequence(bigM') /\ Len(bigM') = Len(bigM) - 1 + k /\ OfLength(bigM', w + c)
      <3>1. bigM' = Replace(Padded(bigM, c), z, Block(bigM[z], k, c))
        <4> HIDE DEF k
        <4> QED
          BY <2>4, <2>6 DEF Padded, Block
      <3>2. OfLength(bigM, w)
        BY <2>3
      <3> HIDE DEF w, k, c
      <3> DEFINE after == Replace(Padded(bigM, c), z, Block(bigM[z], k, c))
      <3>3. IsSequence(bigM) /\ w \in Nat /\ c \in Nat /\ k \in Nat /\ z \in DOMAIN bigM
        BY <2>1, <2>6, <2>7, <2>8, <2>11
      <3>4. IsSequence(after) /\ Len(after) = Len(bigM) - 1 + k /\ OfLength(after, w + c)
        BY <3>2, <3>3, RowsExpanded, Zenon
      <3> HIDE DEF after
      <3>5. bigM' = after
        BY <3>1 DEF after
      <3> QED
        BY <3>4, <3>5
    <2>13. Len(l') = Len(l) - 1 + k
      <3>1. IsSequence(nodes[g].children)
        BY <2>6 DEF IsSequence
      <3>2. l' = Replace(l, z, nodes[g].children)
        BY <2>4
      <3> HIDE DEF g
      <3> QED
        BY <2>9, <3>1, <3>2, ReplaceIs
    <2>14. w + c = 1 + Cardinality(LaterPlaces(nodes, Y, Thresholds(nodes)))
      <3> DEFINE old == Cardinality(LaterPlaces(nodes, X, Thresholds(nodes)))
      <3>1. Cardinality(LaterPlaces(nodes, Y, Thresholds(nodes))) = old + (Thresholds(nodes)[g] - 1)
        BY <2>2, <2>5, <2>6, OneMoreGate, Zenon
      <3>2. old \in Nat
        BY <2>2, LaterPlacesFinite
      <3>3. w = 1 + old
        OBVIOUS
      <3> HIDE DEF old, w, c
      <3> QED
        BY <2>7, <3>1, <3>2, <3>3
    <2>15. Y \in SUBSET Gates(ac'.nodes)
      BY <2>1, <2>5
    <2>16. OfLength(bigM', 1 + Cardinality(LaterPlaces(nodes, Y, Thresholds(nodes))))
      <3> HIDE DEF w, c, Y
      <3> QED
        BY <2>12, <2>14
    <2> HIDE DEF Y
    <2> QED
      BY <1>1, <2>1, <2>5, <2>12, <2>13, <2>15, <2>16 DEF ConvertInv
  <1>5. CASE UNCHANGED vars
    BY <1>1, <1>5 DEF ConvertInv, vars
  <1>6. CASE Next /\ ~BeginConvert /\ ~ExpandGate
    <2>1. stage' # "convert"
      BY <1>6 DEF Next, New, Reject, InduceDirectly, EndConvert, ListSets, BeginSearch,
                  SearchSize, EndSearch, ConvertToCNF, ConvertFails
    <2> QED
      BY <1>1, <2>1 DEF ConvertInv
  <1> QED
    BY <1>3, <1>4, <1>5, <1>6

LEMMA ConvertSound == ConvertInv => ConvertFits
  <1> SUFFICES ASSUME ConvertInv, stage = "convert"
               PROVE  /\ Len(l) <= Leaves
                      /\ \A i \in DOMAIN bigM : Len(bigM[i]) <= Leaves
                      /\ (\A i \in DOMAIN l : ~IsGate(ac.nodes[l[i]])) => Len(l) = Leaves
    BY DEF ConvertFits
  <1> DEFINE nodes == ac.nodes
             G == Gates(nodes)
  <1>1. IsTree(nodes) /\ CheckTree(nodes)
    BY StructuresAssumption, GatesIs DEF ConvertInv, SearchInv
  <1>2. PICK X \in SUBSET G :
           /\ Expanded(nodes, l, X)
           /\ \A i \in DOMAIN bigM :
                 Len(bigM[i]) = 1 + Cardinality(LaterPlaces(nodes, X, Thresholds(nodes)))
    BY DEF ConvertInv, OfLength
  <1> DEFINE all == LaterPlaces(nodes, G, AllChildren(nodes))
             rows == LaterPlaces(nodes, X, AllChildren(nodes))
             columns == LaterPlaces(nodes, X, Thresholds(nodes))
  <1>3. Leaves \in Nat /\ IsFiniteSet(all) /\ Cardinality(all) = Leaves - 1
    BY <1>1, LeavesCounted DEF Leaves
  <1>4. rows \in SUBSET all /\ columns \in SUBSET all
    <2>1. \A g \in G : 2 .. Thresholds(nodes)[g] \subseteq 2 .. AllChildren(nodes)[g]
      <3> TAKE g \in G
      <3>1. /\ Thresholds(nodes)[g] \in 1 .. Len(nodes[g].children)
            /\ Len(nodes[g].children) \in Nat
        BY <1>1, GateWidths
      <3>2. AllChildren(nodes)[g] = Len(nodes[g].children)
        BY DEF AllChildren
      <3> QED
        BY <3>1, <3>2
    <2> QED
      BY <2>1 DEF LaterPlaces
  <1>5. /\ Cardinality(rows) \in Nat /\ Cardinality(rows) <= Cardinality(all)
        /\ Cardinality(columns) \in Nat /\ Cardinality(columns) <= Cardinality(all)
    <2>1. Cardinality(rows) \in Nat /\ Cardinality(columns) \in Nat
      BY <1>1, LaterPlacesFinite
    <2> HIDE DEF rows, columns, all
    <2> QED
      BY <1>3, <1>4, <2>1, FS_Subset
  <1>6. Len(l) = 1 + Cardinality(rows)
    BY <1>2 DEF Expanded
  <1>7. \A i \in DOMAIN bigM : Len(bigM[i]) = 1 + Cardinality(columns)
    BY <1>2
  <1>8. ASSUME \A i \in DOMAIN l : ~IsGate(nodes[l[i]])
        PROVE  X = G
    <2> SUFFICES ASSUME G \ X # {} PROVE FALSE
      OBVIOUS
    <2>1. DOMAIN nodes = 1 .. Len(nodes) /\ Len(nodes) \in Nat
      BY <1>1, TreeShape
    <2>2. G \ X \in SUBSET Nat
      BY <2>1 DEF Gates
    <2>3. PICK g \in G \ X : \A h \in G \ X : g <= h
      BY <2>2, Smallest
    <2>4. g \in 1 .. Len(nodes) /\ g \in DOMAIN nodes /\ IsGate(nodes[g])
      BY <2>1, <2>3 DEF Gates
    <2>5. g = 1 \/ \E e \in Places(nodes) : e[1] \in X /\ g = ChildAt(nodes, e)
      <3> SUFFICES ASSUME g # 1
                   PROVE  \E e \in Places(nodes) : e[1] \in X /\ g = ChildAt(nodes, e)
        OBVIOUS
      <3>1. g \in 2 .. Len(nodes)
        BY <2>1, <2>4
      <3>2. PICK e \in Places(nodes) : g = ChildAt(nodes, e)
        BY <1>1, <3>1 DEF IsTree
      <3>3. e[1] \in G /\ e[1] \in Nat /\ e[1] < g
        BY <1>1, <3>2, ChildIs, PlaceIs
      <3>4. e[1] \in X
        BY <2>2, <2>3, <3>3
      <3> QED
        BY <3>2, <3>4
    <2>6. g \in ToSet(l)
      BY <1>2, <2>3, <2>4, <2>5 DEF Expanded
    <2>7. PICK i \in DOMAIN l : l[i] = g
      BY <2>6 DEF ToSet
    <2> QED
      BY <1>8, <2>4, <2>7
  <1>9. ASSUME \A i \in DOMAIN l : ~IsGate(nodes[l[i]])
        PROVE  Len(l) = Leaves
    <2>1. rows = all
      BY <1>8, <1>9
    <2> HIDE DEF rows, all
    <2> QED
      BY <1>3, <1>6, <2>1
  <1> HIDE DEF rows, columns, all
  <1>10. Len(l) <= Leaves /\ 1 + Cardinality(columns) <= Leaves
    BY <1>3, <1>5, <1>6
  <1> QED
    BY <1>7, <1>9, <1>10

\* For every valid tree: convert's matrix and labels stay within the buffer of
\* leaves x leaves cells, and when no gate is left every label of the buffer has
\* been filled in.
THEOREM ConvertFitsHolds == Spec => []ConvertFits
  <1>1. Init => ConvertInv
    BY SearchInit DEF Init, ConvertInv
  <1> QED
    BY <1>1, ConvertStep, ConvertSound, PTL DEF Spec

-----------------------------------------------------------------------------
(***************************************************************************)
(* The matrices that are written down clause by clause: cnf.InducedMSP and *)
(* unanimity.InducedMSP.  First the orders of their rows.                  *)
(***************************************************************************)
LEMMA InOrderIs ==
    ASSUME NEW S, IsFiniteSet(S), NEW before,
           \A x \in S : <<x, x>> \notin before,
           \A x, y \in S : x # y => <<x, y>> \in before \/ <<y, x>> \in before,
           \A x, y, z \in S : <<x, y>> \in before /\ <<y, z>> \in before => <<x, z>> \in before
    PROVE  /\ InOrder(S, before) \in [1 .. Cardinality(S) -> S]
           /\ IsInjective(InOrder(S, before))
           /\ ToSet(InOrder(S, before)) = S /\ Len(InOrder(S, before)) = Cardinality(S)
  <1> DEFINE n == Cardinality(S)
             Below(x) == {y \in S : <<y, x>> \in before}
             place == [x \in S |-> Cardinality(Below(x)) + 1]
             order == InOrder(S, before)
  <1>1. n \in Nat
    BY FS_CardinalityType
  <1>2. \A x \in S : IsFiniteSet(Below(x)) /\ Cardinality(Below(x)) \in Nat
    <2> TAKE x \in S
    <2>1. Below(x) \in SUBSET S
      OBVIOUS
    <2> HIDE DEF Below
    <2> QED
      BY <2>1, FS_Subset, FS_CardinalityType
  <1>3. ASSUME NEW x \in S PROVE Cardinality(Below(x)) < n
    <2>1. Below(x) \in SUBSET S /\ x \notin Below(x)
      OBVIOUS
    <2> HIDE DEF Below
    <2>2. Cardinality(Below(x)) <= n /\ (n = Cardinality(Below(x)) => S = Below(x))
      BY <2>1, FS_Subset
    <2> QED
      BY <1>1, <1>2, <2>1, <2>2
  <1>4. ASSUME NEW x \in S, NEW y \in S, <<x, y>> \in before
        PROVE  Cardinality(Below(x)) < Cardinality(Below(y))
    <2>1. Below(x) \in SUBSET Below(y) /\ x \in Below(y) /\ x \notin Below(x)
      BY <1>4
    <2> HIDE DEF Below
    <2>2. /\ Cardinality(Below(x)) <= Cardinality(Below(y))
          /\ Cardinality(Below(y)) = Cardinality(Below(x)) => Below(y) = Below(x)
      BY <1>2, <2>1, FS_Subset
    <2> QED
      BY <1>2, <2>1, <2>2
  <1>5. place \in [S -> 1 .. n] /\ \A x \in S : place[x] = Cardinality(Below(x)) + 1
    <2> HIDE DEF Below
    <2> QED
      BY <1>1, <1>2, <1>3
  <1>6. ASSUME NEW x \in S, NEW y \in S, place[x] = place[y] PROVE x = y
    <2> SUFFICES ASSUME x # y PROVE FALSE
      OBVIOUS
    <2>1. Cardinality(Below(x)) = Cardinality(Below(y))
      <3> HIDE DEF Below, place
      <3> QED
        BY <1>2, <1>5, <1>6
    <2>2. <<x, y>> \in before \/ <<y, x>> \in before
      OBVIOUS
    <2> HIDE DEF Below
    <2> QED
      BY <1>2, <1>4, <2>1, <2>2
  <1> HIDE DEF place
  <1>7. \A i \in 1 .. n : \E x \in S : place[x] = i
    <2> DEFINE D == 1 .. n
    <2>1. IsFiniteSet(D) /\ Cardinality(D) = n
      BY <1>1, FS_Interval
    <2>2. place \in Injection(S, D)
      BY <1>5, <1>6 DEF Injection, IsInjective
    <2> HIDE DEF D
    <2>3. place \in Surjection(S, D)
      BY <2>1, <2>2, FS_Injection
    <2> QED
      BY <2>3 DEF Surjection, D
  <1>8. ASSUME NEW i \in 1 .. n
        PROVE  order[i] \in S /\ place[order[i]] = i
    <2>1. order[i] = CHOOSE x \in S : Cardinality(Below(x)) = i - 1
      BY DEF InOrder
    <2> HIDE DEF Below, order
    <2>2. \A x \in S : Cardinality(Below(x)) = i - 1 <=> place[x] = i
      BY <1>2, <1>5
    <2>3. PICK x \in S : Cardinality(Below(x)) = i - 1
      BY <1>7, <2>2
    <2>4. order[i] \in S /\ Cardinality(Below(order[i])) = i - 1
      BY <2>1, <2>3, Zenon
    <2> QED
      BY <2>2, <2>4
  <1>9. order \in [1 .. n -> S]
    <2> DEFINE Pick(i) == CHOOSE x \in S : Cardinality(Below(x)) = i - 1
    <2>1. order = [i \in 1 .. n |-> Pick(i)]
      BY Zenon DEF InOrder
    <2> HIDE DEF order, Pick
    <2>2. \A i \in 1 .. n : order[i] = Pick(i)
      BY <2>1
    <2> QED
      BY <1>8, <2>1, <2>2
  <1> HIDE DEF order
  <1>10. IsInjective(order)
    BY <1>8, <1>9 DEF IsInjective
  <1>11. ToSet(order) = S /\ Len(order) = n
    BY <1>9, <1>10, ListsAll
  <1> QED
    BY <1>9, <1>10, <1>11 DEF order

LEMMA SortedIs ==
    ASSUME NEW ids \in SUBSET Nat, IsFiniteSet(ids)
    PROVE  /\ Sorted(ids) \in [1 .. Cardinality(ids) -> ids]
           /\ IsInjective(Sorted(ids))
           /\ ToSet(Sorted(ids)) = ids /\ Len(Sorted(ids)) = Cardinality(ids)
  <1> DEFINE before == {p \in ids \X ids : p[1] < p[2]}
  <1>1. \A x, y \in ids : <<x, y>> \in before <=> x < y
    OBVIOUS
  <1>2. ids \subseteq Nat
    OBVIOUS
  <1> HIDE DEF before
  <1>3. /\ \A x \in ids : <<x, x>> \notin before
        /\ \A x, y \in ids : x # y => <<x, y>> \in before \/ <<y, x>> \in before
        /\ \A x, y, z \in ids : <<x, y>> \in before /\ <<y, z>> \in before => <<x, z>> \in before
    BY <1>1, <1>2
  <1>4. /\ InOrder(ids, before) \in [1 .. Cardinality(ids) -> ids]
        /\ IsInjective(InOrder(ids, before))
        /\ ToSet(InOrder(ids, before)) = ids /\ Len(InOrder(ids, before)) = Cardinality(ids)
    BY <1>3, InOrderIs
  <1> QED
    BY <1>4 DEF Sorted, before

\* Bit sets compare as a strict total order.
LEMMA BitSetsDiffer ==
    ASSUME NEW a \in SUBSET Nat, IsFiniteSet(a), NEW b \in SUBSET Nat, IsFiniteSet(b), a # b
    PROVE  BitSetLess(a, b) \/ BitSetLess(b, a)
  <1> DEFINE T == (a \ b) \cup (b \ a)
  <1>1. T # {} /\ T \in SUBSET (a \cup b) /\ T \in SUBSET Nat
    OBVIOUS
  <1>2. IsFiniteSet(T)
    <2>1. IsFiniteSet(a \cup b)
      BY FS_Union
    <2> HIDE DEF T
    <2> QED
      BY <1>1, <2>1, FS_Subset
  <1>3. \E top \in T : \A other \in T : other <= top
    <2> HIDE DEF T
    <2> DEFINE Above(x) == {y \in T : x <= y}
               sizes == {Cardinality(Above(x)) : x \in T}
    <2>2. \A x \in T : IsFiniteSet(Above(x)) /\ Cardinality(Above(x)) \in Nat
      <3> TAKE x \in T
      <3>1. Above(x) \in SUBSET T
        OBVIOUS
      <3> HIDE DEF Above
      <3> QED
        BY <1>2, <3>1, FS_Subset, FS_CardinalityType
    <2>3. sizes \in SUBSET Nat /\ sizes # {}
      <3> HIDE DEF Above
      <3> QED
        BY <1>1, <2>2
    <2>4. PICK n \in sizes : \A k \in sizes : n <= k
      BY <2>3, Smallest
    <2>5. PICK x \in T : n = Cardinality(Above(x))
      BY <2>4
    <2>6. ASSUME NEW y \in T, ~(y <= x) PROVE FALSE
      <3>1. x \in Nat /\ y \in Nat /\ x < y
        BY <1>1, <2>6
      <3>2. Above(y) \in SUBSET Above(x) /\ x \in Above(x) /\ x \notin Above(y)
        <4>1. \A k \in T : k \in Nat
          BY <1>1
        <4>2. \A k \in T : y <= k => x <= k
          BY <3>1, <4>1
        <4>3. Above(y) \subseteq Above(x)
          BY <4>2
        <4>4. x <= x /\ ~(y <= x)
          BY <3>1
        <4>5. x \in Above(x) /\ x \notin Above(y)
          BY <4>4
        <4> QED
          BY <4>3, <4>5
      <3>3. n <= Cardinality(Above(y))
        BY <2>4
      <3> HIDE DEF Above
      <3>4. /\ Cardinality(Above(y)) <= Cardinality(Above(x))
            /\ Cardinality(Above(x)) = Cardinality(Above(y)) => Above(x) = Above(y)
        BY <2>2, <3>2, FS_Subset
      <3> QED
        BY <2>2, <2>5, <3>2, <3>3, <3>4
    <2> QED
      BY <2>6
  <1>4. PICK top \in T : \A other \in T : other <= top
    BY <1>3
  <1> QED
    BY <1>4 DEF BitSetLess

LEMMA BitSetsTransitive ==
    ASSUME NEW a \in SUBSET Nat, NEW b \in SUBSET Nat, NEW c \in SUBSET Nat,
           BitSetLess(a, b), BitSetLess(b, c)
    PROVE  BitSetLess(a, c)
  <1>1. PICK i \in b \ a : \A other \in (a \ b) \cup (b \ a) : other <= i
    BY DEF BitSetLess
  <1>2. PICK j \in c \ b : \A other \in (b \ c) \cup (c \ b) : other <= j
    BY DEF BitSetLess
  <1>3. i \in Nat /\ j \in Nat /\ i # j
    OBVIOUS
  <1>4. \A k \in Nat : k > i => (k \in a <=> k \in b)
    BY <1>1, <1>3
  <1>5. \A k \in Nat : k > j => (k \in b <=> k \in c)
    BY <1>2, <1>3
  <1>6. CASE i > j
    <2>1. i \in c \ a
      BY <1>3, <1>5, <1>6
    <2>2. ASSUME NEW k \in (a \ c) \cup (c \ a) PROVE k <= i
      <3>1. k \in Nat
        OBVIOUS
      <3> QED
        BY <1>3, <1>4, <1>5, <1>6, <3>1
    <2> QED
      BY <2>1, <2>2 DEF BitSetLess
  <1>7. CASE i < j
    <2>1. j \in c \ a
      BY <1>3, <1>4, <1>7
    <2>2. ASSUME NEW k \in (a \ c) \cup (c \ a) PROVE k <= j
      <3>1. k \in Nat
        OBVIOUS
      <3> QED
        BY <1>3, <1>4, <1>5, <1>7, <3>1
    <2> QED
      BY <2>1, <2>2 DEF BitSetLess
  <1> QED
    BY <1>3, <1>6, <1>7

LEMMA ClauseOrderIs ==
    ASSUME NEW sets, IsFiniteSet(sets), \A s \in sets : s \in SUBSET Nat /\ IsFiniteSet(s)
    PROVE  /\ ClauseOrder(sets) \in [1 .. Cardinality(sets) -> sets]
           /\ ToSet(ClauseOrder(sets)) = sets /\ Len(ClauseOrder(sets)) = Cardinality(sets)
  <1> DEFINE before == {p \in sets \X sets : BitSetLess(p[1], p[2])}
  <1>1. \A x, y \in sets : <<x, y>> \in before <=> BitSetLess(x, y)
    OBVIOUS
  <1> HIDE DEF before
  <1>2. \A x \in sets : <<x, x>> \notin before
    BY <1>1 DEF BitSetLess
  <1>3. \A x, y \in sets : x # y => <<x, y>> \in before \/ <<y, x>> \in before
    BY <1>1, BitSetsDiffer
  <1>4. \A x, y, z \in sets : <<x, y>> \in before /\ <<y, z>> \in before => <<x, z>> \in before
    BY <1>1, BitSetsTransitive
  <1>5. /\ InOrder(sets, before) \in [1 .. Cardinality(sets) -> sets]
        /\ ToSet(InOrder(sets, before)) = sets /\ Len(InOrder(sets, before)) = Cardinality(sets)
    BY <1>2, <1>3, <1>4, InOrderIs
  <1> QED
    BY <1>5 DEF ClauseOrder, before

\* What FlattenSeq makes: its recursion has a solution, and the result lists what
\* the parts list.
FlattenTurn(seqs, e, i) == IF i = 1 THEN seqs[i] ELSE e[i - 1] \o seqs[i]

LEMMA FlattenSolution ==
    ASSUME NEW seqs, NEW n \in Nat
    PROVE  \E e : e = [i \in 1 .. n |-> FlattenTurn(seqs, e, i)]
  <1> DEFINE Upto(k) == \E e : e = [i \in 1 .. k |-> FlattenTurn(seqs, e, i)]
             missing == {k \in Nat : ~Upto(k)}
  <1>1. Upto(0)
    <2> DEFINE e == [i \in 1 .. 0 |-> TRUE]
    <2>1. 1 .. 0 = {}
      OBVIOUS
    <2>2. e = [i \in 1 .. 0 |-> FlattenTurn(seqs, e, i)]
      BY <2>1, Zenon
    <2> QED
      BY <2>2, Zenon
  <1>2. ASSUME NEW k \in Nat, Upto(k) PROVE Upto(k + 1)
    <2>1. PICK e : e = [i \in 1 .. k |-> FlattenTurn(seqs, e, i)]
      BY <1>2
    <2> DEFINE d == [i \in 1 .. k + 1 |-> FlattenTurn(seqs, e, i)]
    <2>2. \A i \in 1 .. k : d[i] = e[i]
      <3> TAKE i \in 1 .. k
      <3>1. i \in 1 .. k + 1
        OBVIOUS
      <3>2. d[i] = FlattenTurn(seqs, e, i)
        BY <3>1, Zenon
      <3>3. e[i] = FlattenTurn(seqs, e, i)
        BY <2>1, Zenon
      <3> QED
        BY <3>2, <3>3, Zenon
    <2>3. ASSUME NEW i \in 1 .. k + 1 PROVE FlattenTurn(seqs, e, i) = FlattenTurn(seqs, d, i)
      <3> HIDE DEF d
      <3>1. i # 1 => i - 1 \in 1 .. k
        OBVIOUS
      <3>2. i # 1 => d[i - 1] = e[i - 1]
        BY <3>1, <2>2, Zenon
      <3> QED
        BY <3>2, Zenon DEF FlattenTurn
    <2>4. d = [i \in 1 .. k + 1 |-> FlattenTurn(seqs, d, i)]
      BY <2>3, Zenon
    <2> QED
      BY <2>4, Zenon
  <1> HIDE DEF Upto
  <1>3. missing = {}
    <2> SUFFICES ASSUME missing # {} PROVE FALSE
      OBVIOUS
    <2>1. PICK k \in missing : \A j \in missing : k <= j
      BY Smallest
    <2>2. k # 0 /\ k - 1 \in Nat /\ k - 1 \notin missing
      BY <1>1, <2>1
    <2>3. Upto((k - 1) + 1)
      BY <1>2, <2>2
    <2> QED
      BY <2>1, <2>2, <2>3
  <1>4. Upto(n)
    BY <1>3
  <1> QED
    BY <1>4 DEF Upto

LEMMA ToSetIs ==
    ASSUME NEW s, IsSequence(s), NEW u, IsSequence(u)
    PROVE  IsSequence(s \o u) /\ ToSet(s \o u) = ToSet(s) \cup ToSet(u)
  <1>1. /\ IsSequence(s \o u) /\ Len(s \o u) = Len(s) + Len(u)
        /\ \A i \in 1 .. Len(s) + Len(u) :
              (s \o u)[i] = IF i <= Len(s) THEN s[i] ELSE u[i - Len(s)]
    BY ConcatIs
  <1>2. /\ Len(s) \in Nat /\ DOMAIN s = 1 .. Len(s) /\ Len(u) \in Nat /\ DOMAIN u = 1 .. Len(u)
        /\ DOMAIN (s \o u) = 1 .. Len(s) + Len(u)
    BY <1>1, SequenceIs
  <1> DEFINE w == s \o u
  <1> HIDE DEF w
  <1>3. \A i \in DOMAIN s : i \in DOMAIN w /\ w[i] = s[i]
    BY <1>1, <1>2 DEF w
  <1>4. \A i \in DOMAIN u : Len(s) + i \in DOMAIN w /\ w[Len(s) + i] = u[i]
    <2> TAKE i \in DOMAIN u
    <2>1. Len(s) + i \in 1 .. Len(s) + Len(u) /\ ~(Len(s) + i <= Len(s)) /\ (Len(s) + i) - Len(s) = i
      BY <1>2
    <2> QED
      BY <1>1, <1>2, <2>1 DEF w
  <1>5. \A i \in DOMAIN w : \/ i \in DOMAIN s /\ w[i] = s[i]
                            \/ i - Len(s) \in DOMAIN u /\ w[i] = u[i - Len(s)]
    BY <1>1, <1>2 DEF w
  <1>6. ToSet(w) = ToSet(s) \cup ToSet(u)
    BY <1>3, <1>4, <1>5 DEF ToSet
  <1> QED
    BY <1>1, <1>6 DEF w

LEMMA FlattenIs ==
    ASSUME NEW seqs, IsSequence(seqs), Len(seqs) # 0, \A i \in 1 .. Len(seqs) : IsSequence(seqs[i])
    PROVE  /\ IsSequence(FlattenSeq(seqs))
           /\ ToSet(FlattenSeq(seqs)) = UNION {ToSet(seqs[i]) : i \in 1 .. Len(seqs)}
  <1> DEFINE n == Len(seqs)
             f == CHOOSE e : e = [i \in 1 .. n |-> FlattenTurn(seqs, e, i)]
             Listed(k) == UNION {ToSet(seqs[i]) : i \in 1 .. k}
             Right(k) == IsSequence(f[k]) /\ ToSet(f[k]) = Listed(k)
             wrong == {k \in 1 .. n : ~Right(k)}
  <1>1. n \in Nat /\ n > 0
    BY SequenceIs
  <1>2. FlattenSeq(seqs) = f[n]
    BY Zenon DEF FlattenSeq, FlattenTurn
  <1>3. \A i \in 1 .. n : f[i] = FlattenTurn(seqs, f, i)
    <2>1. f = [i \in 1 .. n |-> FlattenTurn(seqs, f, i)]
      BY <1>1, FlattenSolution, Zenon
    <2> HIDE DEF f
    <2> QED
      BY <2>1, Zenon
  <1> HIDE DEF f, n
  <1>4. Right(1)
    <2>1. f[1] = seqs[1] /\ IsSequence(seqs[1])
      BY <1>1, <1>3 DEF FlattenTurn, n
    <2>2. Listed(1) = ToSet(seqs[1])
      OBVIOUS
    <2> QED
      BY <2>1, <2>2
  <1>5. ASSUME NEW k \in 2 .. n, Right(k - 1) PROVE Right(k)
    <2>0. k \in 1 .. n /\ k # 1
      BY <1>1
    <2>1. f[k] = f[k - 1] \o seqs[k] /\ IsSequence(seqs[k])
      <3>1. f[k] = FlattenTurn(seqs, f, k)
        BY <1>3, <2>0, Zenon
      <3>2. FlattenTurn(seqs, f, k) = f[k - 1] \o seqs[k]
        BY <2>0, Zenon DEF FlattenTurn
      <3> QED
        BY <2>0, <3>1, <3>2, Zenon DEF n
    <2>2. IsSequence(f[k]) /\ ToSet(f[k]) = ToSet(f[k - 1]) \cup ToSet(seqs[k])
      BY <1>5, <2>1, ToSetIs
    <2>3. 1 .. k = (1 .. k - 1) \cup {k}
      BY <1>1
    <2>4. Listed(k) = Listed(k - 1) \cup ToSet(seqs[k])
      BY <2>3
    <2> QED
      BY <1>5, <2>2, <2>4
  <1> HIDE DEF Right
  <1>6. wrong = {}
    <2> SUFFICES ASSUME wrong # {} PROVE FALSE
      OBVIOUS
    <2>0. wrong \in SUBSET Nat
      OBVIOUS
    <2>1. PICK k \in wrong : \A j \in wrong : k <= j
      BY <2>0, Smallest
    <2>2. k \in 2 .. n /\ k - 1 \notin wrong /\ k - 1 \in 1 .. n
      BY <1>1, <1>4, <2>1
    <2> QED
      BY <1>5, <2>1, <2>2
  <1>7. Right(n)
    BY <1>1, <1>6
  <1> QED
    BY <1>2, <1>7 DEF Right, n

\* The rows of a clause are one for each of its members.
LEMMA ClauseRows ==
    ASSUME NEW ids \in SUBSET Nat, IsFiniteSet(ids), NEW v
    PROVE  LET part == [r \in DOMAIN Sorted(ids) |-> Row(Sorted(ids)[r], v)]
           IN  IsSequence(part) /\ ToSet(part) = {Row(h, v) : h \in ids}
  <1> DEFINE n == Cardinality(ids)
             s == Sorted(ids)
             part == [r \in DOMAIN s |-> Row(s[r], v)]
  <1>1. n \in Nat /\ s \in [1 .. n -> ids] /\ ToSet(s) = ids
    BY SortedIs, FS_CardinalityType
  <1> HIDE DEF s, n
  <1>2. DOMAIN s = 1 .. n
    BY <1>1
  <1>3. \A r \in 1 .. n : part[r] = Row(s[r], v)
    BY <1>2, Zenon
  <1>4. DOMAIN part = 1 .. n
    BY <1>2, Zenon
  <1>5. part = [r \in 1 .. n |-> part[r]]
    BY <1>2, Zenon
  <1> HIDE DEF part
  <1>6. IsSequence(part)
    BY <1>1, <1>5, FunctionIsSequence
  <1>7. ToSet(part) = {part[r] : r \in 1 .. n}
    BY <1>4, Zenon DEF ToSet
  <1>8. ids = {s[r] : r \in 1 .. n}
    BY <1>1, <1>2, Zenon DEF ToSet
  <1>9. {part[r] : r \in 1 .. n} = {Row(h, v) : h \in ids}
    BY <1>3, <1>8, Zenon
  <1> QED
    BY <1>6, <1>7, <1>9 DEF part, s

LEMMA CnfRows ==
    ASSUME NEW f, NEW sets, ToSet(f) = sets, Len(f) = Cardinality(sets), sets # {},
           IsFiniteSet(sets), \A u \in sets : u \in SUBSET Nat /\ IsFiniteSet(u)
    PROVE  /\ IsSequence(CnfMSP(f))
           /\ ToSet(CnfMSP(f)) =
                UNION {{Row(h, ClauseVector(i, Cardinality(sets))) :
                           h \in (UNION sets) \ ClauseOrder(sets)[i]} : i \in 1 .. Cardinality(sets)}
  <1> DEFINE m == Cardinality(sets)
             all == UNION sets
             sorted == ClauseOrder(sets)
             Part(i) == [r \in DOMAIN Sorted(all \ sorted[i]) |->
                            Row(Sorted(all \ sorted[i])[r], ClauseVector(i, m))]
             parts == [i \in 1 .. m |-> Part(i)]
  <1>1. m \in Nat /\ m # 0
    BY FS_CardinalityType, FS_EmptySet
  <1>2. all \in SUBSET Nat /\ IsFiniteSet(all)
    <2>1. IsFiniteSet(UNION sets)
      BY FS_UNION
    <2> QED
      BY <2>1
  <1>3. CnfMSP(f) = FlattenSeq(parts)
    BY Zenon DEF CnfMSP
  <1> HIDE DEF m, all, sorted
  <1>4. ASSUME NEW i \in 1 .. m
        PROVE  /\ IsSequence(Part(i))
               /\ ToSet(Part(i)) = {Row(h, ClauseVector(i, m)) : h \in all \ sorted[i]}
    <2>1. (all \ sorted[i]) \in SUBSET Nat
      BY <1>2
    <2>2. IsFiniteSet(all \ sorted[i])
      BY <1>2, FS_Difference
    <2> QED
      BY <2>1, <2>2, ClauseRows
  <1> HIDE DEF Part
  <1>5. parts = [i \in 1 .. m |-> parts[i]] /\ \A i \in 1 .. m : parts[i] = Part(i)
    BY Zenon
  <1> HIDE DEF parts
  <1>6. IsSequence(parts) /\ Len(parts) = m
    BY <1>1, <1>5, FunctionIsSequence
  <1>7. \A i \in 1 .. Len(parts) : IsSequence(parts[i])
    BY <1>4, <1>5, <1>6
  <1>8. /\ IsSequence(FlattenSeq(parts))
        /\ ToSet(FlattenSeq(parts)) = UNION {ToSet(parts[i]) : i \in 1 .. m}
    BY <1>1, <1>6, <1>7, FlattenIs
  <1>9. \A i \in 1 .. m : ToSet(parts[i]) = {Row(h, ClauseVector(i, m)) : h \in all \ sorted[i]}
    BY <1>4, <1>5
  <1>10. UNION {ToSet(parts[i]) : i \in 1 .. m} =
            UNION {{Row(h, ClauseVector(i, m)) : h \in all \ sorted[i]} : i \in 1 .. m}
    <2> DEFINE Rows(i) == {Row(h, ClauseVector(i, m)) : h \in all \ sorted[i]}
    <2>1. \A i \in 1 .. m : ToSet(parts[i]) = Rows(i)
      BY <1>9
    <2> HIDE DEF Rows
    <2>2. {ToSet(parts[i]) : i \in 1 .. m} = {Rows(i) : i \in 1 .. m}
      BY <2>1
    <2> QED
      BY <2>2 DEF Rows
  <1> QED
    BY <1>3, <1>8, <1>10 DEF m, all, sorted

-----------------------------------------------------------------------------
(***************************************************************************)
(* Elimination on the vectors of clauses.  Modulo q they are, by the one   *)
(* column each brings in: (1, q-1, ..., q-1) for the first, a unit vector  *)
(* for any other.  A column after the other is cleared until one is        *)
(* missing, where the target then has a one.                               *)
(***************************************************************************)
ClauseColumn(i, m) == IF i < m THEN i + 1 ELSE 1
Brings(c, m) == IF c = 1 THEN [d \in 1 .. m |-> IF d = 1 THEN 1 ELSE q - 1] ELSE Unit(c, m)

LEMMA ClauseValues ==
    ASSUME NEW m \in Nat \ {0}, NEW i \in 1 .. m, NEW h
    PROVE  /\ Row(h, ClauseVector(i, m)).holder = h
           /\ Row(h, ClauseVector(i, m)).values = Brings(ClauseColumn(i, m), m)
  <1> DEFINE v == ClauseVector(i, m)
             w == Brings(ClauseColumn(i, m), m)
  <1>1. v = [c \in 1 .. m |-> v[c]] /\ w = [c \in 1 .. m |-> w[c]]
    BY DEF ClauseVector, Brings, Unit, ClauseColumn
  <1>2. ASSUME NEW c \in 1 .. m PROVE v[c] % q = w[c]
    <2>1. 0 % q = 0 /\ 1 % q = 1 /\ (-1) % q = q - 1
      BY FieldAssumption
    <2>2. CASE i < m
      <3>1. v[c] = (IF c = i + 1 THEN 1 ELSE 0) /\ w[c] = (IF c = i + 1 THEN 1 ELSE 0)
        BY <2>2 DEF ClauseVector, Brings, ClauseColumn, Unit
      <3> QED
        BY <2>1, <3>1
    <2>3. CASE ~(i < m)
      <3>1. v[c] = (IF c = 1 THEN 1 ELSE -1) /\ w[c] = (IF c = 1 THEN 1 ELSE q - 1)
        BY <2>3 DEF ClauseVector, Brings, ClauseColumn
      <3> QED
        BY <2>1, <3>1
    <2> QED
      BY <2>2, <2>3
  <1>3. Row(h, v) = [holder |-> h, values |-> [c \in DOMAIN v |-> v[c] % q]]
    BY DEF Row
  <1> HIDE DEF v, w
  <1>4. DOMAIN v = 1 .. m
    BY <1>1
  <1>5. [c \in DOMAIN v |-> v[c] % q] = w
    BY <1>1, <1>2, <1>4
  <1> QED
    BY <1>3, <1>5 DEF v, w

\* What one turn does to a solvable system with a pivot, to one without, and to
\* one that is no longer solvable.
System(rows, target, solvable) == [rows |-> rows, target |-> target, solvable |-> solvable]
Cleared(v, pivot, c) == [k \in DOMAIN v |-> (v[k] * pivot[c] - v[c] * pivot[k]) % q]
Stuck(s) == \E rows, target : s = System(rows, target, FALSE)

OnlyPivot(rows, pivot, c) ==
    pivot \in rows /\ pivot[c] # 0 /\ \A v \in rows : v[c] # 0 => v = pivot
Pivot(s, c) == CHOOSE v \in s.rows : v[c] # 0

LEMMA EliminateIs ==
    ASSUME NEW s, NEW c, ~(\A v \in s.rows : v[c] = 0)
    PROVE  Eliminate(s, c) = [s EXCEPT !.rows = {Cleared(v, Pivot(s, c), c) : v \in @ \ {Pivot(s, c)}},
                                       !.target = Cleared(@, Pivot(s, c), c)]
  BY Zenon DEF Eliminate, Cleared, Pivot

LEMMA EliminateWith ==
    ASSUME NEW rows, NEW target, NEW solvable, NEW c, NEW pivot, OnlyPivot(rows, pivot, c)
    PROVE  Eliminate(System(rows, target, solvable), c) =
              System({Cleared(v, pivot, c) : v \in rows \ {pivot}}, Cleared(target, pivot, c), solvable)
  <1> DEFINE s == System(rows, target, solvable)
             chosen == Pivot(s, c)
  <1>1. s.rows = rows /\ s.target = target /\ s.solvable = solvable
    BY DEF System
  <1> HIDE DEF s
  <1>2. chosen \in rows /\ chosen[c] # 0
    BY <1>1, Zenon DEF Pivot, OnlyPivot
  <1>3. chosen = pivot
    BY <1>2, Zenon DEF OnlyPivot
  <1>4. ~(\A v \in s.rows : v[c] = 0)
    BY <1>1 DEF OnlyPivot
  <1>5. Eliminate(s, c) = [s EXCEPT !.rows = {Cleared(v, chosen, c) : v \in @ \ {chosen}},
                                    !.target = Cleared(@, chosen, c)]
    BY <1>4, EliminateIs, Zenon
  <1> HIDE DEF chosen
  <1>6. Eliminate(s, c) = [s EXCEPT !.rows = {Cleared(v, pivot, c) : v \in rows \ {pivot}},
                                    !.target = Cleared(target, pivot, c)]
    BY <1>1, <1>3, <1>5
  <1> QED
    BY <1>6 DEF s, System

LEMMA EliminateWithout ==
    ASSUME NEW rows, NEW target, NEW solvable, NEW c, \A v \in rows : v[c] = 0
    PROVE  Eliminate(System(rows, target, solvable), c) =
              System(rows, target, solvable /\ target[c] = 0)
  BY DEF Eliminate, System

LEMMA StuckStays ==
    ASSUME NEW s, Stuck(s), NEW c
    PROVE  Stuck(Eliminate(s, c))
  <1>1. PICK rows, target : s = System(rows, target, FALSE)
    BY DEF Stuck
  <1>2. CASE \A v \in rows : v[c] = 0
    <2>1. Eliminate(s, c) = System(rows, target, FALSE /\ target[c] = 0)
      BY <1>1, <1>2, EliminateWithout
    <2>2. (FALSE /\ target[c] = 0) = FALSE
      OBVIOUS
    <2> QED
      BY <2>1, <2>2 DEF Stuck
  <1>3. CASE ~(\A v \in rows : v[c] = 0)
    <2> DEFINE pivot == Pivot(s, c)
    <2>1. s.rows = rows
      BY <1>1 DEF System
    <2>2. Eliminate(s, c) = [s EXCEPT !.rows = {Cleared(v, pivot, c) : v \in @ \ {pivot}},
                                      !.target = Cleared(@, pivot, c)]
      BY <1>3, <2>1, EliminateIs
    <2> HIDE DEF pivot
    <2> DEFINE r == {Cleared(v, pivot, c) : v \in rows \ {pivot}}
               u == Cleared(target, pivot, c)
    <2>3. s.target = target
      BY <1>1 DEF System
    <2>4. Eliminate(s, c) = [s EXCEPT !.rows = r, !.target = u]
      BY <2>1, <2>2, <2>3
    <2> HIDE DEF r, u
    <2>5. Eliminate(s, c) = System(r, u, FALSE)
      BY <1>1, <2>4 DEF System
    <2> QED
      BY <2>5, Zenon DEF Stuck
  <1> QED
    BY <1>2, <1>3

\* The system after k turns that all found a pivot.
TargetAfter(k, m) ==
    [d \in 1 .. m |-> IF k = 0 THEN (IF d = 1 THEN 1 ELSE 0) ELSE IF d <= k THEN 0 ELSE 1]
RowsAfter(cols, k, m) == {Brings(c, m) : c \in {c \in cols : c > k}}
After(cols, k, m) == System(RowsAfter(cols, k, m), TargetAfter(k, m), TRUE)

LEMMA BringsIs ==
    ASSUME NEW m \in Nat, NEW k \in 1 .. m, NEW c \in k .. m
    PROVE  /\ DOMAIN Brings(c, m) = 1 .. m
           /\ Brings(c, m)[k] = IF c = k THEN 1 ELSE 0
           /\ \A d \in 1 .. m : Brings(c, m)[d] = IF c = 1 THEN (IF d = 1 THEN 1 ELSE q - 1)
                                                  ELSE (IF d = c THEN 1 ELSE 0)
  BY DEF Brings, Unit

LEMMA RowCleared ==
    ASSUME NEW m \in Nat, NEW k \in 1 .. m, NEW c \in k + 1 .. m
    PROVE  Cleared(Brings(c, m), Brings(k, m), k) = Brings(c, m)
  <1> DEFINE v == Brings(c, m)
             p == Brings(k, m)
  <1>1. v = [d \in 1 .. m |-> IF d = c THEN 1 ELSE 0]
    BY DEF Brings, Unit
  <1>2. p[k] = 1 /\ \A d \in 1 .. m : p[d] \in Int
    BY FieldAssumption DEF Brings, Unit
  <1> HIDE DEF v, p
  <1>3. DOMAIN v = 1 .. m /\ v[k] = 0 /\ \A d \in 1 .. m : v[d] = IF d = c THEN 1 ELSE 0
    BY <1>1
  <1>4. ASSUME NEW d \in 1 .. m PROVE (v[d] * p[k] - v[k] * p[d]) % q = v[d]
    <2>1. v[d] * p[k] - v[k] * p[d] = v[d]
      <3>1. v[k] * p[d] = 0
        BY <1>2, <1>3
      <3>2. v[d] * p[k] = v[d] /\ v[d] \in Int
        BY <1>2, <1>3
      <3> QED
        BY <3>1, <3>2
    <2>2. 0 % q = 0 /\ 1 % q = 1
      BY FieldAssumption
    <2> QED
      BY <1>3, <2>1, <2>2
  <1>5. Cleared(v, p, k) = [d \in 1 .. m |-> v[d]]
    BY <1>3, <1>4 DEF Cleared
  <1>6. v = [d \in 1 .. m |-> v[d]]
    BY <1>1
  <1> QED
    BY <1>5, <1>6 DEF v, p

LEMMA TargetCleared ==
    ASSUME NEW m \in Nat, NEW k \in 1 .. m
    PROVE  /\ TargetAfter(k - 1, m)[k] = 1
           /\ Cleared(TargetAfter(k - 1, m), Brings(k, m), k) = TargetAfter(k, m)
  <1> DEFINE u == TargetAfter(k - 1, m)
             p == Brings(k, m)
  <1>1. /\ DOMAIN u = 1 .. m /\ u[k] = 1
        /\ \A d \in 1 .. m : u[d] = IF k = 1 THEN (IF d = 1 THEN 1 ELSE 0) ELSE IF d < k THEN 0 ELSE 1
    BY DEF TargetAfter
  <1>2. \A d \in 1 .. m : p[d] = IF k = 1 THEN (IF d = 1 THEN 1 ELSE q - 1) ELSE IF d = k THEN 1 ELSE 0
    BY DEF Brings, Unit
  <1> HIDE DEF u, p
  <1>3. p[k] = 1
    BY <1>2
  <1>4. ASSUME NEW d \in 1 .. m PROVE (u[d] * p[k] - u[k] * p[d]) % q = IF d <= k THEN 0 ELSE 1
    <2>1. 0 % q = 0 /\ 1 % q = 1 /\ (1 - q) % q = 1
      BY FieldAssumption
    <2>2. u[d] \in Int /\ p[d] \in Int
      BY <1>1, <1>2, FieldAssumption
    <2>3. u[d] * p[k] - u[k] * p[d] = u[d] - p[d]
      BY <1>1, <1>3, <2>2
    <2>4. u[d] - p[d] = IF d <= k THEN 0 ELSE IF k = 1 THEN 1 - q ELSE 1
      BY <1>1, <1>2, FieldAssumption
    <2> QED
      BY <2>1, <2>3, <2>4
  <1>5. Cleared(u, p, k) = [d \in 1 .. m |-> IF d <= k THEN 0 ELSE 1]
    BY <1>1, <1>4 DEF Cleared
  <1>6. TargetAfter(k, m) = [d \in 1 .. m |-> IF d <= k THEN 0 ELSE 1]
    BY DEF TargetAfter
  <1> QED
    BY <1>1, <1>5, <1>6 DEF u, p

LEMMA TurnWith ==
    ASSUME NEW m \in Nat, NEW cols \in SUBSET (1 .. m), NEW k \in cols
    PROVE  Eliminate(After(cols, k - 1, m), k) = After(cols, k, m)
  <1> DEFINE rows == RowsAfter(cols, k - 1, m)
             p == Brings(k, m)
  <1>1. k \in 1 .. m
    OBVIOUS
  <1>2. p \in rows /\ p[k] = 1
    BY <1>1, BringsIs DEF RowsAfter
  <1>3. ASSUME NEW c \in cols, c > k
        PROVE  Brings(c, m)[k] = 0 /\ Cleared(Brings(c, m), p, k) = Brings(c, m)
    <2>1. c \in k .. m /\ c \in k + 1 .. m /\ c # k
      BY <1>1, <1>3
    <2> QED
      BY <1>1, <2>1, BringsIs, RowCleared
  <1>4. \A c \in cols : c > k - 1 <=> (c > k \/ c = k)
    BY <1>1
  <1> HIDE DEF p
  <1>5. rows \ {p} = RowsAfter(cols, k, m)
    <2>1. \A c \in cols : c > k => Brings(c, m) # p
      BY <1>2, <1>3
    <2>2. RowsAfter(cols, k, m) = {Brings(c, m) : c \in {c \in cols : c > k}}
      BY DEF RowsAfter
    <2>3. rows = {Brings(c, m) : c \in {c \in cols : c > k - 1}}
      BY DEF RowsAfter
    <2> HIDE DEF rows
    <2>4. rows = RowsAfter(cols, k, m) \cup {p}
      BY <1>4, <2>2, <2>3 DEF p
    <2>5. p \notin RowsAfter(cols, k, m)
      BY <2>1, <2>2
    <2> QED
      BY <2>4, <2>5
  <1>6. \A v \in rows : v[k] # 0 => v = p
    <2>1. \A v \in RowsAfter(cols, k, m) : v[k] = 0
      BY <1>3 DEF RowsAfter
    <2> HIDE DEF rows
    <2> QED
      BY <1>5, <2>1
  <1>7. {Cleared(v, p, k) : v \in rows \ {p}} = RowsAfter(cols, k, m)
    <2>1. \A v \in RowsAfter(cols, k, m) : Cleared(v, p, k) = v
      BY <1>3 DEF RowsAfter
    <2> HIDE DEF rows
    <2> QED
      BY <1>5, <2>1
  <1>8. Cleared(TargetAfter(k - 1, m), p, k) = TargetAfter(k, m)
    BY <1>1, TargetCleared DEF p
  <1> HIDE DEF rows
  <1>9. Eliminate(System(rows, TargetAfter(k - 1, m), TRUE), k) =
           System({Cleared(v, p, k) : v \in rows \ {p}}, Cleared(TargetAfter(k - 1, m), p, k), TRUE)
    <2>1. p[k] # 0
      BY <1>2
    <2>2. OnlyPivot(rows, p, k)
      BY <1>2, <1>6, <2>1, Zenon DEF OnlyPivot
    <2>3. \A target, solvable : Eliminate(System(rows, target, solvable), k) =
             System({Cleared(v, p, k) : v \in rows \ {p}}, Cleared(target, p, k), solvable)
      BY <2>2, EliminateWith
    <2> QED
      BY <2>3
  <1> QED
    BY <1>7, <1>8, <1>9 DEF After, rows

LEMMA TurnWithout ==
    ASSUME NEW m \in Nat, NEW cols \in SUBSET (1 .. m), NEW k \in (1 .. m) \ cols
    PROVE  Stuck(Eliminate(After(cols, k - 1, m), k))
  <1> DEFINE rows == RowsAfter(cols, k - 1, m)
             u == TargetAfter(k - 1, m)
  <1>1. ASSUME NEW c \in cols, c > k - 1 PROVE Brings(c, m)[k] = 0
    <2>1. c \in k .. m /\ c # k
      BY <1>1
    <2> QED
      BY <2>1, BringsIs
  <1>2. \A v \in rows : v[k] = 0
    BY <1>1 DEF RowsAfter
  <1>3. u[k] = 1
    BY TargetCleared
  <1> HIDE DEF rows, u
  <1>4. Eliminate(System(rows, u, TRUE), k) = System(rows, u, TRUE /\ u[k] = 0)
    BY <1>2, EliminateWithout
  <1>5. (TRUE /\ u[k] = 0) = FALSE
    BY <1>3
  <1>6. Eliminate(System(rows, u, TRUE), k) = System(rows, u, FALSE)
    BY <1>4, <1>5
  <1> QED
    BY <1>6, Zenon DEF Stuck, After, rows, u

\* All turns.
Turn(rows, target, e, c) ==
    IF c = 0 THEN [rows |-> rows, target |-> target, solvable |-> TRUE] ELSE Eliminate(e[c - 1], c)

LEMMA EliminationSolution ==
    ASSUME NEW rows, NEW target, NEW n \in Nat
    PROVE  \E e : e = [c \in 0 .. n |-> Turn(rows, target, e, c)]
  <1> DEFINE Upto(k) == \E e : e = [c \in 0 .. k |-> Turn(rows, target, e, c)]
             missing == {k \in Nat : ~Upto(k)}
  <1>1. Upto(0)
    <2> DEFINE e == [c \in 0 .. 0 |-> Turn(rows, target, << >>, c)]
    <2>1. \A c \in 0 .. 0 : c = 0
      OBVIOUS
    <2>2. \A c \in 0 .. 0 : Turn(rows, target, << >>, c) = Turn(rows, target, e, c)
      <3> HIDE DEF e
      <3> QED
        BY <2>1, Zenon DEF Turn
    <2>3. e = [c \in 0 .. 0 |-> Turn(rows, target, e, c)]
      BY <2>2, Zenon
    <2> QED
      BY <2>3, Zenon
  <1>2. ASSUME NEW k \in Nat, Upto(k) PROVE Upto(k + 1)
    <2>1. PICK e : e = [c \in 0 .. k |-> Turn(rows, target, e, c)]
      BY <1>2
    <2> DEFINE d == [c \in 0 .. k + 1 |-> Turn(rows, target, e, c)]
    <2>2. \A c \in 0 .. k : d[c] = e[c]
      <3> TAKE c \in 0 .. k
      <3>1. c \in 0 .. k + 1
        OBVIOUS
      <3>2. d[c] = Turn(rows, target, e, c)
        BY <3>1, Zenon
      <3>3. e[c] = Turn(rows, target, e, c)
        BY <2>1, Zenon
      <3> QED
        BY <3>2, <3>3, Zenon
    <2>3. ASSUME NEW c \in 0 .. k + 1
          PROVE  Turn(rows, target, e, c) = Turn(rows, target, d, c)
      <3> HIDE DEF d
      <3>1. c # 0 => c - 1 \in 0 .. k
        OBVIOUS
      <3>2. c # 0 => d[c - 1] = e[c - 1]
        BY <3>1, <2>2, Zenon
      <3> QED
        BY <3>2, Zenon DEF Turn
    <2>4. d = [c \in 0 .. k + 1 |-> Turn(rows, target, d, c)]
      BY <2>3, Zenon
    <2> QED
      BY <2>4, Zenon
  <1> HIDE DEF Upto
  <1>3. missing = {}
    <2> SUFFICES ASSUME missing # {} PROVE FALSE
      OBVIOUS
    <2>1. PICK k \in missing : \A j \in missing : k <= j
      BY Smallest
    <2>2. k # 0 /\ k - 1 \in Nat /\ k - 1 \notin missing
      BY <1>1, <2>1
    <2>3. Upto((k - 1) + 1)
      BY <1>2, <2>2
    <2> QED
      BY <2>1, <2>2, <2>3
  <1>4. Upto(n)
    BY <1>3
  <1> QED
    BY <1>4 DEF Upto

Elimination(e, rows, target, n) ==
    /\ InSpan(rows, target) = e[n].solvable
    /\ e[0] = System(rows, target, TRUE)
    /\ \A c \in 1 .. n : e[c] = Eliminate(e[c - 1], c)

LEMMA InSpanIs ==
    ASSUME NEW rows, NEW target, NEW n \in Nat, Len(target) = n
    PROVE  \E e : Elimination(e, rows, target, n)
  <1> DEFINE chosen == CHOOSE e : e = [c \in 0 .. n |-> Turn(rows, target, e, c)]
  <1>1. InSpan(rows, target) = chosen[n].solvable
    BY Zenon DEF InSpan, Turn
  <1>2. chosen = [c \in 0 .. n |-> Turn(rows, target, chosen, c)]
    BY EliminationSolution, Zenon
  <1> HIDE DEF chosen
  <1>3. \A c \in 0 .. n : chosen[c] = Turn(rows, target, chosen, c)
    BY <1>2, Zenon
  <1>4. 0 \in 0 .. n /\ \A c \in 1 .. n : c \in 0 .. n /\ c # 0
    OBVIOUS
  <1>5. chosen[0] = System(rows, target, TRUE)
    BY <1>3, <1>4, Zenon DEF Turn, System
  <1>6. \A c \in 1 .. n : chosen[c] = Eliminate(chosen[c - 1], c)
    BY <1>3, <1>4, Zenon DEF Turn
  <1>7. Elimination(chosen, rows, target, n)
    BY <1>1, <1>5, <1>6, Zenon DEF Elimination
  <1> QED
    BY <1>7, Zenon

\* The vectors of clauses span the target when all clauses are there, and only then.
LEMMA ClausesSpan ==
    ASSUME NEW m \in Nat \ {0}, NEW cols \in SUBSET (1 .. m)
    PROVE  InSpan({Brings(c, m) : c \in cols}, Unit(1, m)) <=> cols = 1 .. m
  <1> DEFINE rows == {Brings(c, m) : c \in cols}
             target == Unit(1, m)
  <1>1. Len(target) = m
    <2>1. target = [i \in 1 .. m |-> target[i]]
      BY DEF Unit
    <2> HIDE DEF target
    <2> QED
      BY <2>1, FunctionIsSequence
  <1>0. PICK e : Elimination(e, rows, target, m)
    <2>1. m \in Nat
      OBVIOUS
    <2> HIDE DEF rows, target
    <2>2. \E e : Elimination(e, rows, target, m)
      BY <1>1, <2>1, InSpanIs
    <2> QED
      BY <2>2
  <1>2. /\ InSpan(rows, target) = e[m].solvable
        /\ e[0] = System(rows, target, TRUE)
        /\ \A c \in 1 .. m : e[c] = Eliminate(e[c - 1], c)
    BY <1>0, Zenon DEF Elimination
  <1>3. e[0] = After(cols, 0, m)
    <2>1. {c \in cols : c > 0} = cols
      <3>1. \A c \in cols : c > 0
        OBVIOUS
      <3> QED
        BY <3>1
    <2>2. rows = RowsAfter(cols, 0, m)
      BY <2>1 DEF RowsAfter
    <2>3. target = TargetAfter(0, m)
      BY DEF TargetAfter, Unit
    <2> HIDE DEF rows, target
    <2> QED
      BY <1>2, <2>2, <2>3, Zenon DEF After
  <1> DEFINE Kept(k) == e[k] = After(cols, k, m)
             lost == {k \in 0 .. m : ~Kept(k) /\ 1 .. k \subseteq cols}
  <1>4. ASSUME NEW k \in 1 .. m, k \in cols, Kept(k - 1) PROVE Kept(k)
    <2>1. e[k] = Eliminate(e[k - 1], k)
      BY <1>2
    <2>2. Eliminate(After(cols, k - 1, m), k) = After(cols, k, m)
      BY <1>4, TurnWith
    <2> QED
      BY <1>4, <2>1, <2>2, Zenon
  <1>5. lost = {}
    <2> SUFFICES ASSUME lost # {} PROVE FALSE
      OBVIOUS
    <2> HIDE DEF Kept
    <2>0. lost \in SUBSET Nat
      OBVIOUS
    <2>1. PICK k \in lost : \A j \in lost : k <= j
      BY <2>0, Smallest
    <2>2. k \in 1 .. m /\ k \in cols /\ k - 1 \in 0 .. m /\ 1 .. k - 1 \subseteq cols
      BY <1>3, <2>1 DEF Kept
    <2>3. Kept(k - 1)
      BY <2>1, <2>2
    <2> QED
      BY <1>4, <2>1, <2>2, <2>3
  <1>6. \A k \in 0 .. m : 1 .. k \subseteq cols => e[k] = After(cols, k, m)
    BY <1>5
  <1>7. ASSUME cols = 1 .. m PROVE InSpan(rows, target)
    <2>1. m \in 0 .. m /\ 1 .. m \subseteq cols
      BY <1>7
    <2>2. e[m] = After(cols, m, m)
      BY <1>6, <2>1, Zenon
    <2>3. e[m].solvable = TRUE
      BY <2>2 DEF After, System
    <2> QED
      BY <1>2, <2>3
  <1>8. ASSUME cols # 1 .. m PROVE ~InSpan(rows, target)
    <2> DEFINE absent == (1 .. m) \ cols
    <2>1. absent # {} /\ absent \in SUBSET Nat
      <3>1. absent # {}
        BY <1>8, Zenon
      <3>2. absent \subseteq 1 .. m /\ 1 .. m \subseteq Nat
        OBVIOUS
      <3> QED
        BY <3>1, <3>2
    <2>2. PICK k \in absent : \A j \in absent : k <= j
      BY <2>1, Smallest
    <2>3. k \in 1 .. m /\ k - 1 \in 0 .. m /\ 1 .. k - 1 \subseteq cols
      BY <2>2
    <2>4. Stuck(e[k])
      <3>1. e[k - 1] = After(cols, k - 1, m)
        BY <1>6, <2>3, Zenon
      <3>2. Stuck(Eliminate(After(cols, k - 1, m), k))
        BY TurnWithout
      <3>3. e[k] = Eliminate(e[k - 1], k)
        BY <1>2, <2>3, Zenon
      <3> QED
        BY <3>1, <3>2, <3>3, Zenon
    <2> DEFINE free == {j \in k .. m : ~Stuck(e[j])}
    <2>5. free = {}
      <3> SUFFICES ASSUME free # {} PROVE FALSE
        OBVIOUS
      <3>1. free \in SUBSET Nat
        BY <2>3
      <3>2. PICK j \in free : \A i \in free : j <= i
        BY <3>1, Smallest
      <3>3. j \in 1 .. m /\ j - 1 \in k .. m /\ j - 1 \notin free
        BY <2>3, <2>4, <3>2
      <3>4. Stuck(e[j - 1]) /\ e[j] = Eliminate(e[j - 1], j)
        BY <1>2, <3>3
      <3> QED
        BY <3>2, <3>4, StuckStays, Zenon
    <2>6. Stuck(e[m])
      BY <2>3, <2>5
    <2>7. e[m].solvable = FALSE
      BY <2>6 DEF Stuck, System
    <2> QED
      BY <1>2, <2>7
  <1> QED
    BY <1>7, <1>8

LEMMA ColumnsOfClauses ==
    ASSUME NEW m \in Nat \ {0}
    PROVE  /\ \A i \in 1 .. m : ClauseColumn(i, m) \in 1 .. m
           /\ \A i, j \in 1 .. m : ClauseColumn(i, m) = ClauseColumn(j, m) => i = j
           /\ \A c \in 1 .. m : \E i \in 1 .. m : ClauseColumn(i, m) = c
  <1>1. \A i \in 1 .. m : ClauseColumn(i, m) \in 1 .. m
    BY DEF ClauseColumn
  <1>2. \A i, j \in 1 .. m : ClauseColumn(i, m) = ClauseColumn(j, m) => i = j
    BY DEF ClauseColumn
  <1>3. ASSUME NEW c \in 1 .. m PROVE \E i \in 1 .. m : ClauseColumn(i, m) = c
    <2>1. CASE c = 1
      <3>1. m \in 1 .. m /\ ClauseColumn(m, m) = c
        BY <2>1 DEF ClauseColumn
      <3> QED
        BY <3>1
    <2>2. CASE c # 1
      <3>1. c - 1 \in 1 .. m /\ ClauseColumn(c - 1, m) = c
        BY <2>2 DEF ClauseColumn
      <3> QED
        BY <3>1
    <2> QED
      BY <2>1, <2>2
  <1> QED
    BY <1>1, <1>2, <1>3

\* The matrix of a CNF accepts, of the sets of its holders, those that lie in
\* none of the unqualified sets.
LEMMA CnfAccepts ==
    ASSUME NEW f, NEW sets, ToSet(f) = sets, Len(f) = Cardinality(sets), sets # {},
           IsFiniteSet(sets), \A u \in sets : u \in SUBSET Nat /\ IsFiniteSet(u),
           NEW ids \in SUBSET Holders(CnfMSP(f))
    PROVE  ids \in SUBSET UNION sets /\ (Accepts(CnfMSP(f), ids) <=> CNFQualified(sets, ids))
  <1> DEFINE m == Cardinality(sets)
             all == UNION sets
             sorted == ClauseOrder(sets)
             program == CnfMSP(f)
             Members(i) == all \ sorted[i]
             Value(i) == Brings(ClauseColumn(i, m), m)
             selected == {r \in DOMAIN program : program[r].holder \in ids}
             met == {i \in 1 .. m : \E h \in ids : h \in Members(i)}
             cols == {ClauseColumn(i, m) : i \in met}
             values == {program[r].values : r \in selected}
  <1>1. m \in Nat \ {0}
    BY FS_CardinalityType, FS_EmptySet
  <1>2. sorted \in [1 .. m -> sets] /\ ToSet(sorted) = sets
    BY ClauseOrderIs
  <1>3. /\ IsSequence(program)
        /\ ToSet(program) = UNION {{Row(h, ClauseVector(i, m)) : h \in Members(i)} : i \in 1 .. m}
    BY CnfRows
  <1>4. \A i \in 1 .. m : \A h : /\ Row(h, ClauseVector(i, m)).holder = h
                                 /\ Row(h, ClauseVector(i, m)).values = Value(i)
    BY <1>1, ClauseValues
  <1>5. DOMAIN program = 1 .. Len(program) /\ Len(program) \in Nat
    BY <1>3, SequenceIs
  <1>6. ids \subseteq {program[r].holder : r \in DOMAIN program}
    BY DEF Holders
  <1> HIDE DEF m, all, sorted, program, Members, Value
  <1>7. ASSUME NEW r \in DOMAIN program
        PROVE  \E i \in 1 .. m : program[r].holder \in Members(i) /\ program[r].values = Value(i)
    <2>1. program[r] \in ToSet(program)
      BY DEF ToSet
    <2>2. PICK i \in 1 .. m : program[r] \in {Row(h, ClauseVector(i, m)) : h \in Members(i)}
      BY <1>3, <2>1
    <2>3. PICK h \in Members(i) : program[r] = Row(h, ClauseVector(i, m))
      BY <2>2
    <2> QED
      BY <1>4, <2>3
  <1>8. ASSUME NEW i \in 1 .. m, NEW h \in Members(i)
        PROVE  \E r \in DOMAIN program : program[r].holder = h /\ program[r].values = Value(i)
    <2>1. Row(h, ClauseVector(i, m)) \in ToSet(program)
      BY <1>3
    <2>2. PICK r \in DOMAIN program : program[r] = Row(h, ClauseVector(i, m))
      BY <2>1 DEF ToSet
    <2> QED
      BY <1>4, <2>2
  <1>9. ids \subseteq all
    BY <1>6, <1>7 DEF Members
  <1>10. values = {Value(i) : i \in met}
    <2>1. ASSUME NEW r \in selected PROVE \E i \in met : program[r].values = Value(i)
      BY <1>7
    <2>2. ASSUME NEW i \in met PROVE \E r \in selected : program[r].values = Value(i)
      BY <1>8
    <2> HIDE DEF selected, met
    <2> QED
      BY <2>1, <2>2
  <1>11. values = {Brings(c, m) : c \in cols}
    <2> HIDE DEF values, met
    <2> QED
      BY <1>10 DEF Value
  <1>12. selected # {} <=> cols # {}
    <2>1. values = {} <=> selected = {}
      <3> HIDE DEF selected
      <3> QED
        OBVIOUS
    <2>2. values = {} <=> cols = {}
      <3> HIDE DEF values, cols
      <3> QED
        BY <1>11
    <2> QED
      BY <2>1, <2>2, Zenon
  <1>13. cols \in SUBSET (1 .. m)
    BY <1>1, ColumnsOfClauses
  <1>14. selected # {} => Len(program[1].values) = m
    <2> SUFFICES ASSUME selected # {} PROVE Len(program[1].values) = m
      OBVIOUS
    <2>1. 1 \in DOMAIN program
      BY <1>5
    <2>2. PICK i \in 1 .. m : program[1].values = Value(i)
      BY <1>7, <2>1
    <2> DEFINE v == Value(i)
    <2>3. v = [c \in 1 .. m |-> v[c]]
      BY DEF Value, Brings, Unit
    <2> HIDE DEF v
    <2>4. Len(v) = m
      BY <1>1, <2>3, FunctionIsSequence
    <2> QED
      BY <2>2, <2>4 DEF v
  <1>15. Accepts(program, ids) <=>
            selected # {} /\ InSpan(values, Unit(1, Len(program[1].values)))
    BY <1>6 DEF Accepts, Holders
  <1>16. InSpan({Brings(c, m) : c \in cols}, Unit(1, m)) <=> cols = 1 .. m
    <2> HIDE DEF cols
    <2> QED
      BY <1>1, <1>13, ClausesSpan
  <1>17. Accepts(program, ids) <=> cols = 1 .. m
    <2>1. 1 .. m # {}
      BY <1>1
    <2> HIDE DEF selected, values, cols
    <2> QED
      BY <1>11, <1>12, <1>14, <1>15, <1>16, <2>1, Zenon
  <1>18. cols = 1 .. m <=> met = 1 .. m
    <2>1. ASSUME cols = 1 .. m PROVE met = 1 .. m
      <3>1. ASSUME NEW i \in 1 .. m PROVE i \in met
        <4>1. ClauseColumn(i, m) \in cols
          BY <1>1, <2>1, ColumnsOfClauses
        <4>2. PICK j \in met : ClauseColumn(i, m) = ClauseColumn(j, m)
          BY <4>1
        <4>3. j \in 1 .. m
          OBVIOUS
        <4> HIDE DEF met
        <4>4. i = j
          BY <1>1, <4>2, <4>3, ColumnsOfClauses
        <4> QED
          BY <4>4
      <3> QED
        BY <3>1
    <2>2. ASSUME met = 1 .. m PROVE cols = 1 .. m
      <3> HIDE DEF met
      <3>1. ASSUME NEW c \in 1 .. m PROVE c \in cols
        BY <1>1, <2>2, ColumnsOfClauses
      <3> HIDE DEF cols
      <3> QED
        BY <1>13, <3>1
    <2> QED
      BY <2>1, <2>2
  <1>19. met = 1 .. m <=> \A u \in sets : ~(ids \subseteq u)
    <2>1. \A i \in 1 .. m : i \in met <=> ~(ids \subseteq sorted[i])
      BY <1>9 DEF Members
    <2>2. \A u \in sets : \E i \in 1 .. m : u = sorted[i]
      BY <1>2 DEF ToSet
    <2>3. \A i \in 1 .. m : sorted[i] \in sets
      BY <1>2
    <2>4. met \subseteq 1 .. m
      OBVIOUS
    <2> HIDE DEF met
    <2> QED
      BY <2>1, <2>2, <2>3, <2>4
  <1> QED
    BY <1>9, <1>17, <1>18, <1>19 DEF CNFQualified, program, all

LEMMA CnfPolicySound == CnfInv => CnfKeepsPolicy
  <1> SUFFICES ASSUME CnfInv PROVE CnfKeepsPolicy
    OBVIOUS
  <1>1. CnfKeepsSets
    BY CnfSound
  <1> SUFFICES ASSUME stage = "converted", NEW ids \in SUBSET Holders(cnfMsp)
               PROVE  Accepts(cnfMsp, ids) <=> IsQualified(ac, ids)
    BY <1>1 DEF CnfKeepsPolicy
  <1>2. WellTyped(ac) /\ muss = Maximal(ac) /\ muss # {}
    BY StructuresAssumption DEF CnfInv, SearchInv
  <1>3. NormaliseCNF(muss) = muss /\ IsFiniteSet(muss)
    BY <1>2, MaximalNormalised, MaximalFinite
  <1>4. cnf \in Orders(muss) /\ cnfMsp = CnfMSP(cnf)
    BY <1>3 DEF CnfInv
  <1>5. ToSet(cnf) = muss /\ Len(cnf) = Cardinality(muss)
    <2>1. cnf \in [1 .. Cardinality(muss) -> muss] /\ IsInjective(cnf)
      BY <1>4 DEF Orders, SetToSeqs, IsInjective
    <2> QED
      BY <1>3, <2>1, ListsAll
  <1>6. \A u \in muss : u \in SUBSET Nat /\ IsFiniteSet(u)
    <2>1. IsFiniteSet(Shareholders(ac)) /\ Shareholders(ac) \subseteq Nat
      BY <1>2, ShareholdersFinite, ShareholdersAreNumbers
    <2>2. \A u \in muss : u \in SUBSET Shareholders(ac)
      BY <1>2 DEF Maximal
    <2> QED
      BY <2>1, <2>2, FS_Subset
  <1>7. ids \in SUBSET UNION muss /\ (Accepts(cnfMsp, ids) <=> CNFQualified(muss, ids))
    BY <1>2, <1>3, <1>4, <1>5, <1>6, CnfAccepts
  <1> QED
    BY <1>1, <1>5, <1>7 DEF CnfKeepsSets

\* Whatever the structure and whatever the order of the Go map, the span
\* programme on the way over CNF accepts, of the sets of its holders, exactly
\* those that the structure qualifies, modulo every q.
THEOREM CnfKeepsPolicyHolds == Spec => []CnfKeepsPolicy
  <1>1. Init => CnfInv
    BY SearchInit DEF Init, CnfInv
  <1> QED
    BY <1>1, CnfStep, CnfPolicySound, PTL DEF Spec

-----------------------------------------------------------------------------
(***************************************************************************)
(* The same of InducedMSP where it writes down the vectors of clauses: for *)
(* a CNF as it is, for unanimity with a clause per shareholder.            *)
(***************************************************************************)
LEMMA UnanimityRows ==
    ASSUME NEW ps, NEW n \in Nat, n = Cardinality(ps)
    PROVE  /\ DOMAIN UnanimityMSP(ps) = 1 .. n
           /\ \A r \in 1 .. n : UnanimityMSP(ps)[r] = Row(Sorted(ps)[r], ClauseVector(r, n))
  <1> DEFINE Vector(r) == [c \in 1 .. n |-> IF r = n THEN (IF c = 1 THEN 1 ELSE -1)
                                            ELSE IF c = r + 1 THEN 1 ELSE 0]
  <1>1. UnanimityMSP(ps) = [r \in 1 .. n |-> Row(Sorted(ps)[r], Vector(r))]
    BY Zenon DEF UnanimityMSP
  <1>2. ASSUME NEW r \in 1 .. n PROVE Vector(r) = ClauseVector(r, n)
    <2>1. CASE r < n
      <3>1. r # n
        BY <2>1
      <3>2. Vector(r) = [c \in 1 .. n |-> IF c = r + 1 THEN 1 ELSE 0]
        BY <3>1, Zenon
      <3>3. ClauseVector(r, n) = Unit(r + 1, n)
        BY <2>1, Zenon DEF ClauseVector
      <3> QED
        BY <3>2, <3>3, Zenon DEF Unit
    <2>2. CASE ~(r < n)
      <3>1. r = n
        BY <2>2
      <3>2. Vector(r) = [c \in 1 .. n |-> IF c = 1 THEN 1 ELSE -1]
        BY <3>1, Zenon
      <3>3. ClauseVector(r, n) = [c \in 1 .. n |-> IF c = 1 THEN 1 ELSE -1]
        BY <2>2, Zenon DEF ClauseVector
      <3> QED
        BY <3>2, <3>3, Zenon
    <2> QED
      BY <2>1, <2>2
  <1> HIDE DEF Vector
  <1>3. DOMAIN UnanimityMSP(ps) = 1 .. n
    BY <1>1, Zenon
  <1>4. \A r \in 1 .. n : UnanimityMSP(ps)[r] = Row(Sorted(ps)[r], Vector(r))
    BY <1>1, Zenon
  <1> QED
    BY <1>2, <1>3, <1>4, Zenon

LEMMA UnanimityAccepts ==
    ASSUME NEW ps \in SUBSET Nat, IsFiniteSet(ps), ps # {},
           NEW ids \in SUBSET Holders(UnanimityMSP(ps))
    PROVE  Accepts(UnanimityMSP(ps), ids) <=> ids = ps
  <1> DEFINE m == Cardinality(ps)
             s == Sorted(ps)
             program == UnanimityMSP(ps)
             Value(i) == Brings(ClauseColumn(i, m), m)
             selected == {r \in DOMAIN program : program[r].holder \in ids}
             cols == {ClauseColumn(r, m) : r \in selected}
             values == {program[r].values : r \in selected}
  <1>1. m \in Nat \ {0}
    BY FS_CardinalityType, FS_EmptySet
  <1>2. s \in [1 .. m -> ps] /\ ToSet(s) = ps
    BY SortedIs
  <1>3. /\ DOMAIN program = 1 .. m
        /\ \A r \in 1 .. m : program[r] = Row(s[r], ClauseVector(r, m))
    BY <1>1, UnanimityRows
  <1>4. \A i \in 1 .. m : \A h : /\ Row(h, ClauseVector(i, m)).holder = h
                                 /\ Row(h, ClauseVector(i, m)).values = Value(i)
    BY <1>1, ClauseValues
  <1>5. ids \subseteq {program[r].holder : r \in DOMAIN program}
    BY DEF Holders
  <1>6. \A r \in 1 .. m : program[r].holder = s[r] /\ program[r].values = Value(r)
    <2> HIDE DEF m, s, program, Value
    <2> QED
      BY <1>3, <1>4
  <1> HIDE DEF m, s, program, Value
  <1>7. ids \subseteq ps
    BY <1>2, <1>3, <1>5, <1>6
  <1>8. selected = {r \in 1 .. m : s[r] \in ids}
    BY <1>3, <1>6
  <1>9. values = {Brings(c, m) : c \in cols}
    <2>1. \A r \in selected : program[r].values = Value(r)
      BY <1>6, <1>8
    <2> HIDE DEF selected
    <2>2. values = {Value(r) : r \in selected}
      BY <2>1
    <2> HIDE DEF values
    <2> QED
      BY <2>2 DEF Value
  <1>10. selected # {} <=> cols # {}
    <2> HIDE DEF selected
    <2> QED
      OBVIOUS
  <1>11. cols \in SUBSET (1 .. m)
    <2>1. selected \in SUBSET (1 .. m)
      BY <1>8
    <2> HIDE DEF selected
    <2> QED
      BY <1>1, <2>1, ColumnsOfClauses
  <1>12. Len(program[1].values) = m
    <2>1. 1 \in 1 .. m
      BY <1>1
    <2> DEFINE v == Value(1)
    <2>2. v = [c \in 1 .. m |-> v[c]]
      BY DEF Value, Brings, Unit
    <2> HIDE DEF v
    <2>3. Len(v) = m
      BY <1>1, <2>2, FunctionIsSequence
    <2> QED
      BY <1>6, <2>1, <2>3 DEF v
  <1>13. Accepts(program, ids) <=>
            selected # {} /\ InSpan(values, Unit(1, Len(program[1].values)))
    BY <1>5 DEF Accepts, Holders
  <1>14. InSpan({Brings(c, m) : c \in cols}, Unit(1, m)) <=> cols = 1 .. m
    <2> HIDE DEF cols
    <2> QED
      BY <1>1, <1>11, ClausesSpan
  <1>15. Accepts(program, ids) <=> cols = 1 .. m
    <2>1. 1 .. m # {}
      BY <1>1
    <2> HIDE DEF selected, values, cols
    <2> QED
      BY <1>9, <1>10, <1>12, <1>13, <1>14, <2>1, Zenon
  <1>16. cols = 1 .. m <=> selected = 1 .. m
    <2>0. selected \in SUBSET (1 .. m)
      BY <1>8
    <2> HIDE DEF selected
    <2>1. ASSUME cols = 1 .. m PROVE selected = 1 .. m
      <3>1. ASSUME NEW i \in 1 .. m PROVE i \in selected
        <4>1. ClauseColumn(i, m) \in cols
          BY <1>1, <2>1, ColumnsOfClauses
        <4>2. PICK j \in selected : ClauseColumn(i, m) = ClauseColumn(j, m)
          BY <4>1
        <4>3. i = j
          BY <1>1, <2>0, <4>2, ColumnsOfClauses
        <4> QED
          BY <4>3
      <3> QED
        BY <2>0, <3>1
    <2>2. ASSUME selected = 1 .. m PROVE cols = 1 .. m
      <3>1. ASSUME NEW c \in 1 .. m PROVE c \in cols
        BY <1>1, <2>2, ColumnsOfClauses
      <3> HIDE DEF cols
      <3> QED
        BY <1>11, <3>1
    <2> QED
      BY <2>1, <2>2
  <1>17. selected = 1 .. m <=> ids = ps
    <2>1. \A i \in 1 .. m : i \in selected <=> s[i] \in ids
      BY <1>8
    <2>2. \A h \in ps : \E i \in 1 .. m : h = s[i]
      BY <1>2 DEF ToSet
    <2>3. \A i \in 1 .. m : s[i] \in ps
      BY <1>2
    <2>4. selected \subseteq 1 .. m
      BY <1>8
    <2> HIDE DEF selected
    <2> QED
      BY <1>7, <2>1, <2>2, <2>3, <2>4
  <1> QED
    BY <1>15, <1>16, <1>17 DEF program

MspInv ==
    /\ SearchInv
    /\ stage = "convert" => ac.kind = "gates"
    /\ msp # Failed => Valid(ac)
    /\ ac.kind = "unanimity" => msp \in {Failed, UnanimityMSP(ac.ps)}
    /\ ac.kind = "cnf" => msp = Failed \/ \E order \in Orders(NormaliseCNF(ac.sets)) : msp = CnfMSP(order)

LEMMA MspStep == MspInv /\ [Next]_vars => MspInv'
  <1> SUFFICES ASSUME MspInv, [Next]_vars PROVE MspInv'
    OBVIOUS
  <1>1. SearchInv'
    BY SearchStep DEF MspInv
  <1>2. CASE InduceDirectly
    <2>1. ac' = ac /\ stage' = "induced" /\ Valid(ac)
      BY <1>2 DEF InduceDirectly, MspInv, SearchInv
    <2>2. PICK order \in Orders(IF ac.kind = "cnf" THEN NormaliseCNF(ac.sets) ELSE {}) :
             msp' = CASE ac.kind = "unanimity"    -> UnanimityMSP(ac.ps)
                      [] ac.kind = "threshold"    -> ThresholdMSP(ac.t, ac.ps)
                      [] ac.kind = "hierarchical" -> HierarchicalMSP(ac.levels)
                      [] ac.kind = "cnf"          -> CnfMSP(order)
      BY <1>2 DEF InduceDirectly
    <2>3. ac.kind = "unanimity" => msp' = UnanimityMSP(ac.ps)
      BY <2>2
    <2>4. ac.kind = "cnf" => order \in Orders(NormaliseCNF(ac.sets)) /\ msp' = CnfMSP(order)
      BY <2>2
    <2> QED
      BY <1>1, <2>1, <2>3, <2>4 DEF MspInv
  <1>3. CASE BeginConvert
    BY <1>1, <1>3 DEF BeginConvert, MspInv
  <1>4. CASE EndConvert
    <2>1. ac' = ac /\ stage' = "induced" /\ ac.kind = "gates" /\ Valid(ac)
      BY <1>4 DEF EndConvert, MspInv, SearchInv
    <2> QED
      BY <1>1, <2>1 DEF MspInv
  <1>5. CASE UNCHANGED vars
    BY <1>1, <1>5 DEF MspInv, vars
  <1>6. CASE ~(InduceDirectly \/ BeginConvert \/ EndConvert) /\ Next
    <2>1. ac' = ac /\ msp' = msp /\ (stage' = "convert" => stage = "convert")
      BY <1>6 DEF Next, New, Reject, ExpandGate, ListSets, BeginSearch, SearchSize, EndSearch,
                  ConvertToCNF, ConvertFails
    <2> QED
      BY <1>1, <2>1 DEF MspInv
  <1> QED
    BY <1>2, <1>3, <1>4, <1>5, <1>6

LEMMA MspSound == MspInv /\ ac.kind \in {"unanimity", "cnf"} => MspRealizesPolicy
  <1> SUFFICES ASSUME MspInv, ac.kind \in {"unanimity", "cnf"}, msp # Failed,
                      NEW ids \in SUBSET Holders(msp)
               PROVE  Accepts(msp, ids) <=> IsQualified(ac, ids)
    BY DEF MspRealizesPolicy
  <1>1. WellTyped(ac) /\ Valid(ac)
    BY StructuresAssumption DEF MspInv, SearchInv
  <1>2. CASE ac.kind = "unanimity"
    <2>1. msp = UnanimityMSP(ac.ps)
      BY <1>2 DEF MspInv
    <2>2. IsFiniteSet(ac.ps) /\ ac.ps \in SUBSET Nat /\ ac.ps # {}
      <3>1. IsFiniteSet(ac.ps) /\ ac.ps \subseteq Nat /\ ValidUnanimity(ac.ps)
        BY <1>1, <1>2, UnanimityIs
      <3>2. Cardinality(ac.ps) >= 2
        BY <3>1 DEF ValidUnanimity
      <3>3. Cardinality({}) = 0
        BY FS_EmptySet
      <3>4. ac.ps # {}
        BY <3>2, <3>3
      <3> QED
        BY <3>1, <3>4
    <2>3. IsQualified(ac, ids) = (ids = ac.ps)
      BY <1>2, UnanimityIs
    <2>4. Accepts(msp, ids) <=> ids = ac.ps
      BY <2>1, <2>2, UnanimityAccepts
    <2> QED
      BY <2>3, <2>4
  <1>3. CASE ac.kind = "cnf"
    <2> DEFINE sets == NormaliseCNF(ac.sets)
    <2>1. PICK order \in Orders(sets) : msp = CnfMSP(order)
      BY <1>3 DEF MspInv
    <2>2. /\ IsFiniteSet(ac.sets) /\ \A u \in ac.sets : IsFiniteSet(u) /\ u \in SUBSET Nat
          /\ Cardinality(UNION sets) >= 2
      BY <1>1, <1>3, CnfIs DEF ValidCNF
    <2>3. sets \in SUBSET ac.sets
      BY DEF NormaliseCNF
    <2>4. IsQualified(ac, ids) = CNFQualified(sets, ids)
      BY <1>3, CnfIs
    <2> HIDE DEF sets
    <2>5. IsFiniteSet(sets) /\ (\A u \in sets : u \in SUBSET Nat /\ IsFiniteSet(u)) /\ sets # {}
      <3>1. Cardinality({}) = 0
        BY FS_EmptySet
      <3>2. UNION sets # {}
        <4> DEFINE all == UNION sets
        <4>1. Cardinality(all) >= 2
          BY <2>2
        <4> HIDE DEF all
        <4>2. all # {}
          BY <3>1, <4>1
        <4> QED
          BY <4>2 DEF all
      <3>3. sets # {}
        BY <3>2
      <3> QED
        BY <2>2, <2>3, <3>3, FS_Subset
    <2>6. ToSet(order) = sets /\ Len(order) = Cardinality(sets)
      <3>1. order \in [1 .. Cardinality(sets) -> sets] /\ IsInjective(order)
        BY <2>1 DEF Orders, SetToSeqs, IsInjective
      <3> QED
        BY <2>5, <3>1, ListsAll
    <2>7. Accepts(msp, ids) <=> CNFQualified(sets, ids)
      BY <2>1, <2>5, <2>6, CnfAccepts
    <2> QED
      BY <2>4, <2>7
  <1> QED
    BY <1>2, <1>3

\* The span programme that InducedMSP makes of a CNF or of unanimity accepts
\* exactly the qualified sets of its holders, whatever the structure and q.
THEOREM ClausesRealizePolicy ==
    Spec => [](ac.kind \in {"unanimity", "cnf"} => MspRealizesPolicy)
  <1>1. Init => MspInv
    BY SearchInit DEF Init, MspInv
  <1>2. MspInv => (ac.kind \in {"unanimity", "cnf"} => MspRealizesPolicy)
    BY MspSound
  <1> QED
    BY <1>1, <1>2, MspStep, PTL DEF Spec
=============================================================================
