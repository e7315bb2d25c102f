-------------------------------- MODULE HJKY --------------------------------
(***************************************************************************)
(* pkg/mpc/zero/hjky, the zero sharing that redistribution and Lindell22   *)
(* run as a subprotocol: every holder deals a Feldman sharing of zero and  *)
(* adds up what the others dealt.  Vectors go over the consistent          *)
(* broadcast, shares are private and may be right for one holder and wrong *)
(* for another.  The calling protocol owns the steps; blamed is its        *)
(* record of the parties it named.                                         *)
(***************************************************************************)
EXTENDS Dealings

CONSTANT Holders   \* ctx.Quorum() of the zero participants, a part of Quorum

\* A vector is malformed, commits to something other than zero or to zero, or
\* commits to zero and makes its dealer's share of the caller's key vanish.
ZeroKinds == {"malformed", "nonzero", "zero", "cancelling"}

VARIABLES
    zeroRound,     \* Participant.round
    zeroDealt,     \* kind of each Round1Broadcast, None before it
    zeroVectors,   \* the dealers in state.verificationVectors
    zeroSum,       \* what Round2 returned, share and vector, None before
    blamed         \* <<accuser, culprit>> of every error tagged with a party

zeroVars == <<zeroRound, zeroDealt, zeroVectors, zeroSum>>

HonestHolders == Holders \ Corrupt
OtherHolders(p) == Holders \ {p}

ZeroInit ==
    /\ zeroRound = [p \in HonestHolders |-> 1]
    /\ zeroDealt = [q \in Holders |-> None]
    /\ zeroVectors = [p \in HonestHolders |-> {}]
    /\ zeroSum = [p \in HonestHolders |-> None]

ZeroRound1(p) ==
    /\ zeroRound[p] = 1
    /\ zeroDealt' = [zeroDealt EXCEPT ![p] = "zero"]
    /\ zeroVectors' = [zeroVectors EXCEPT ![p] = {p}]
    /\ zeroRound' = [zeroRound EXCEPT ![p] = 2]
    /\ UNCHANGED zeroSum

\* A corrupt holder deals.  To cancel its own share it has to know what the
\* others dealt it.
ZeroCorruptDeal(c, kind) ==
    /\ zeroDealt[c] = None
    /\ kind = "cancelling" => \A q \in HonestHolders : zeroDealt[q] # None
    /\ zeroDealt' = [zeroDealt EXCEPT ![c] = kind]
    /\ UNCHANGED <<zeroRound, zeroVectors, zeroSum>>

ZeroAllDealt(p) == \A q \in OtherHolders(p) : zeroDealt[q] # None

\* What p makes of the zero shares it is handed, which may differ from call to call.
ZeroHanded(p) ==
    {[q \in OtherHolders(p) |-> IF q \in Corrupt THEN forged[q] ELSE "right"]
        : forged \in [Corrupt \cap Holders -> {"malformed", "wrong", "right"}]}

ZeroMalformed(p, shares) ==
    LET vectors == {q \in OtherHolders(p) : zeroDealt[q] = "malformed"}
    IN  IF vectors # {} THEN vectors ELSE With(shares, "malformed")

\* Mutated form: the constant term of a vector is not looked at.
ZeroRefuted_AnyConstant(p, shares) == With(shares, "wrong")

ZeroRefuted(p, shares) ==
    With(shares, "wrong") \cup {q \in OtherHolders(p) : zeroDealt[q] = "nonzero"}

\* The vectors seen before a refuted one stay in the state; the sums are local.
ZeroRound2Fails(p, shares) ==
    /\ zeroRound[p] = 2
    /\ \/ /\ ZeroMalformed(p, shares) # {}
          /\ blamed' = blamed \cup {<<p, First(ZeroMalformed(p, shares))>>}
          /\ UNCHANGED zeroVectors
       \/ /\ ZeroMalformed(p, shares) = {}
          /\ ZeroRefuted(p, shares) # {}
          /\ LET culprit == First(ZeroRefuted(p, shares))
             IN  /\ blamed' = blamed \cup {<<p, culprit>>}
                 /\ zeroVectors' = [zeroVectors EXCEPT
                       ![p] = @ \cup (Before(p, culprit) \cap Holders)]
    /\ UNCHANGED <<zeroRound, zeroDealt, zeroSum>>

\* Mutated form: what an earlier call stored is taken as already added.
ZeroStart_Stored(p) == Add(Nothing, zeroVectors[p])

\* Every call starts from the holder's own share and vector.
ZeroStart(p) == Add(Nothing, {p})

ZeroRound2Returns(p, shares) ==
    /\ zeroRound[p] = 2
    /\ ZeroMalformed(p, shares) \cup ZeroRefuted(p, shares) = {}
    /\ zeroSum' = [zeroSum EXCEPT ![p] = Add(ZeroStart(p), OtherHolders(p))]
    /\ zeroVectors' = [zeroVectors EXCEPT ![p] = Holders]
    /\ zeroRound' = [zeroRound EXCEPT ![p] = 3]
    /\ UNCHANGED <<zeroDealt, blamed>>

-----------------------------------------------------------------------------
ZeroTypeOK ==
    /\ zeroRound \in [HonestHolders -> 1 .. 3]
    /\ zeroDealt \in [Holders -> ZeroKinds \cup {None}]
    /\ zeroVectors \in [HonestHolders -> SUBSET Holders]
    /\ zeroSum \in [HonestHolders -> [Quorum -> Nat] \cup {None}]

\* README of hjky: all parties end up with shares of a common sharing of zero.
\* Whatever failed before, what Round2 returns counts every dealer once, and
\* every dealer's vector commits to zero: the parties' shifts add up to zero.
ZeroSharesCancel ==
    \A p \in HonestHolders : zeroSum[p] # None =>
        /\ zeroSum[p] = Add(Nothing, Holders)
        /\ \A q \in Holders : zeroDealt[q] \in {"zero", "cancelling"}
=============================================================================
