------------------------- MODULE MCAccessStructures -------------------------
(***************************************************************************)
(* Access structures over up to four shareholders, valid ones and ones the *)
(* constructors refuse: every threshold, every small family of unqualified *)
(* sets, two and three levels, trees with two layers of gates.  Two of the *)
(* hierarchies have no interpolation, one because its IDs do not grow from *)
(* level to level, the other because 503 is too small for its IDs.         *)
(***************************************************************************)
EXTENDS AccessStructures

IDs == 0 .. 4
Groups == {{1, 2}, {1, 2, 3}, {2, 3, 4}, {1, 2, 3, 4}, {0, 1, 2}, {3}}

Level(threshold, parties) == [threshold |-> threshold, parties |-> parties]

Flat ==
    {[kind |-> "unanimity", ps |-> ps] : ps \in Groups}
    \cup {[kind |-> "threshold", t |-> n, ps |-> ps] : n \in 0 .. 5, ps \in Groups}

Families ==
    {[kind |-> "cnf", sets |-> sets] :
        sets \in UNION {kSubset(n, SUBSET (1 .. 3)) : n \in 0 .. 3}
                 \cup kSubset(3, kSubset(2, 1 .. 4))
                 \cup {{{0, 1}, {2}}}}

Levels ==
    {[kind |-> "hierarchical", levels |-> levels] :
        levels \in {<< >>}
           \cup {<<Level(n, ps)>> : n \in 0 .. 3, ps \in Groups}
           \cup {<<Level(a, ps), Level(b, rest)>> :
                    a \in 1 .. 2, b \in 1 .. 3,
                    ps \in {{1}, {1, 2}, {3}}, rest \in {{2}, {2, 3}, {3, 4}, {1, 2}, {}}}
           \cup {<<Level(1, {1}), Level(2, {2}), Level(3, {3})>>,
                 <<Level(1, {1}), Level(2, {2, 3}), Level(3, {4})>>,
                 <<Level(1, {1, 3}), Level(3, {2})>>,
                 <<Level(1, {2, 4}), Level(4, {5, 15})>>}}

Leaf == {Attribute(id) : id \in 1 .. 3}
Inner ==
    {Gate(n, <<Attribute(a), Attribute(b)>>) : n \in 1 .. 2, a \in 1 .. 2, b \in 2 .. 4}
    \cup {Gate(n, <<Attribute(3), Attribute(1), Attribute(4)>>) : n \in 1 .. 4}
    \cup {Gate(1, << >>), Attribute(0)}

Trees ==
    {[kind |-> "gates", nodes |-> nodes] :
        nodes \in Leaf \cup Inner
           \cup {Gate(n, <<a, b>>) : n \in 1 .. 2, a \in Leaf \cup Inner, b \in Inner}
           \cup {Gate(n, <<a, b, c>>) : n \in 2 .. 3, a \in Leaf,
                    b \in {Gate(2, <<Attribute(2), Attribute(4)>>)}, c \in Inner}
           \cup {Gate(n, <<Gate(1, <<a, Attribute(4)>>), Attribute(2)>>) :
                    n \in 1 .. 2, a \in Inner}}

AllStructures == Flat \cup Families \cup Levels \cup Trees
=============================================================================
