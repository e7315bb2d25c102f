--------------------------- MODULE MCKeyProtocols ---------------------------
(***************************************************************************)
(* Four parties, a three-out-of-four access structure, the second corrupt. *)
(***************************************************************************)
EXTENDS KeyProtocols

\* The three variants; the sum of everybody's nonces is even or odd, and a sum
\* that holds the first party's nonce twice has the other parity.
AllSchemes ==
    {[variant |-> "schnorr", odd |-> {}]}
        \cup [variant : {"bip340", "mina"},
              odd : {{nonce \in [Quorum -> 0 .. 2] : nonce[1] = n} : n \in {1, 2}}]

PlainSchnorr == {[variant |-> "schnorr", odd |-> {}]}

ThreeOfFour == {s \in SUBSET Quorum : Cardinality(s) >= 3}
=============================================================================
