----------------------------- MODULE Lindell22 ------------------------------
(***************************************************************************)
(* pkg/mpc/signatures/schnorr/lindell22/signing: the three rounds of the   *)
(* cosigners and the aggregation of their partial signatures, for plain    *)
(* Schnorr, BIP-340 and Mina signatures.  The latter two negate the nonces *)
(* when their sum has an odd y-coordinate, and compute a challenge from    *)
(* the x-coordinate alone, which a nonce and its opposite share.           *)
(*                                                                         *)
(* bigR is a formal sum of the cosigners' nonces, and a challenge is the   *)
(* nonce it was computed from (message and key are the same everywhere).   *)
(* A partial signature says whether its nonce is negated; how far its      *)
(* nonce commitment and response are from that nonce and its response is   *)
(* counted modulo the group order.  Key shares are negated according to    *)
(* the public key, by everybody alike, which needs no model.               *)
(*                                                                         *)
(* A round that returns an error leaves the round counter alone, and the   *)
(* caller may call it again with other messages.                           *)
(***************************************************************************)
EXTENDS HJKY, Integers, Functions

CONSTANTS
    Order,       \* of the group
    Schemes      \* a variant, and the nonce sums that are odd

VARIABLES
    scheme,      \* the signature scheme of the session, which the code is generic in
    round,       \* Cosigner.round
    committed,   \* BigRCommitment of each Round1Broadcast: "none", "empty" or "sealed"
    opened,      \* honest parties whose Round2Broadcast is out
    bigR,        \* state.bigR
    psig,        \* what Round3 returned
    calls,       \* calls of Round2 and of Round3 made
    untagged     \* parties that met an error without a culprit

vars == <<scheme, round, committed, opened, bigR, psig, calls, untagged, blamed, zeroVars>>

Scalars == 0 .. Order - 1

Init ==
    /\ ZeroInit
    /\ scheme \in Schemes
    /\ round = [p \in Honest |-> 1]
    /\ committed = [q \in Quorum |-> "none"]
    /\ opened = {}
    /\ bigR = [p \in Honest |-> Nothing]
    /\ psig = [p \in Honest |-> None]
    /\ calls = [p \in Honest |-> [r \in {2, 3} |-> 0]]
    /\ untagged = {}
    /\ blamed = {}

Round1(p) ==
    /\ round[p] = 1
    /\ ZeroRound1(p)
    /\ committed' = [committed EXCEPT ![p] = "sealed"]
    /\ bigR' = [bigR EXCEPT ![p] = Add(Nothing, {p})]
    /\ round' = [round EXCEPT ![p] = 2]
    /\ UNCHANGED <<opened, psig, calls, untagged, blamed>>

CorruptRound1(c, digest, kind) ==
    /\ committed[c] = "none"
    /\ committed' = [committed EXCEPT ![c] = digest]
    /\ ZeroCorruptDeal(c, kind)
    /\ UNCHANGED <<round, opened, bigR, psig, calls, untagged, blamed>>

-----------------------------------------------------------------------------
Empty(p) == {q \in Others(p) : committed[q] = "empty"}

\* Round1Broadcast.Validate
Round2Reject(p) ==
    /\ Empty(p) # {}
    /\ blamed' = blamed \cup {<<p, First(Empty(p))>>}
    /\ UNCHANGED <<round, opened, untagged, zeroVars>>

Round2Abort(p, shares) ==
    /\ Empty(p) = {}
    /\ ZeroRound2Fails(p, shares)
    /\ UNCHANGED <<round, opened, untagged>>

\* Some party's share of the key, after the shift, is the identity.
Vanishes == \E q \in Quorum : zeroDealt[q] = "cancelling"

\* The zero participant is through with its rounds, the cosigner is not.
Round2Identity(p, shares) ==
    /\ Empty(p) = {}
    /\ ZeroRound2Returns(p, shares)
    /\ Vanishes
    /\ untagged' = untagged \cup {p}
    /\ UNCHANGED <<round, opened>>

\* Called again after that, the zero participant refuses.
Round2Stuck(p) ==
    /\ Empty(p) = {}
    /\ zeroRound[p] = 3
    /\ untagged' = untagged \cup {p}
    /\ UNCHANGED <<round, opened, blamed, zeroVars>>

Round2Open(p, shares) ==
    /\ Empty(p) = {}
    /\ ZeroRound2Returns(p, shares)
    /\ ~Vanishes
    /\ opened' = opened \cup {p}
    /\ round' = [round EXCEPT ![p] = 3]
    /\ UNCHANGED untagged

Round2(p) ==
    /\ round[p] = 2
    /\ calls[p][2] < MaxCalls
    /\ \A q \in Others(p) : committed[q] # "none"
    /\ \/ Round2Reject(p)
       \/ Round2Stuck(p)
       \/ \E shares \in ZeroHanded(p) :
             Round2Abort(p, shares) \/ Round2Identity(p, shares) \/ Round2Open(p, shares)
    /\ calls' = [calls EXCEPT ![p][2] = @ + 1]
    /\ UNCHANGED <<committed, bigR, psig>>

-----------------------------------------------------------------------------
\* What p makes of the Round2Broadcast of a party: not well formed, an opening
\* or a proof that does not verify, or right.  A proof is verified under a fresh
\* clone of the context as it was before the verifier's own proof.
Handed3(p) ==
    {[q \in Others(p) |-> IF q \in Corrupt THEN forged[q] ELSE "right"]
        : forged \in [Corrupt -> {"malformed", "refuted", "right"}]}

Round3Reject(p, found) ==
    /\ With(found, "malformed") # {}
    /\ blamed' = blamed \cup {<<p, First(With(found, "malformed"))>>}
    /\ UNCHANGED <<round, bigR, psig>>

\* The loop stops at the first party it refutes; bigR keeps what was added.
Round3Abort(p, found) ==
    LET culprit == First(With(found, "refuted"))
    IN  /\ With(found, "malformed") = {}
        /\ With(found, "refuted") # {}
        /\ bigR' = [bigR EXCEPT ![p] = Add(@, Before(p, culprit))]
        /\ blamed' = blamed \cup {<<p, culprit>>}
        /\ UNCHANGED <<round, psig>>

Minus(nonce) == [q \in DOMAIN nonce |-> -nonce[q]]

\* A point and its opposite have different parities.  Sums with both signs fit
\* no challenge, so that theirs does not matter.
IsOdd(nonce) ==
    IF nonce \in [Quorum -> Nat] THEN nonce \in scheme.odd ELSE Minus(nonce) \notin scheme.odd

\* CorrectPartialNonceParity, CorrectPartialNonceCommitmentParity
Negates(nonce) == scheme.variant # "schnorr" /\ IsOdd(nonce)

Part(challenge, negated, r, s) == [e |-> challenge, negated |-> negated, r |-> r, s |-> s]

\* Mutated form: the cosigner's own nonce decides whether it is negated.
Round3Sign_OwnParity(p, found) ==
    /\ With(found, "malformed") \cup With(found, "refuted") = {}
    /\ bigR' = [bigR EXCEPT ![p] = Add(@, Others(p))]
    /\ psig' = [psig EXCEPT ![p] = Part(bigR'[p], Negates(Add(Nothing, {p})), 0, 0)]
    /\ round' = [round EXCEPT ![p] = 4]
    /\ UNCHANGED blamed

\* The partial signature is for the nonce sum as it is in the state, and so is
\* the parity.
Round3Sign(p, found) ==
    /\ With(found, "malformed") \cup With(found, "refuted") = {}
    /\ bigR' = [bigR EXCEPT ![p] = Add(@, Others(p))]
    /\ psig' = [psig EXCEPT ![p] = Part(bigR'[p], Negates(bigR'[p]), 0, 0)]
    /\ round' = [round EXCEPT ![p] = 4]
    /\ UNCHANGED blamed

Round3(p) ==
    /\ round[p] = 3
    /\ calls[p][3] < MaxCalls
    /\ Honest \ {p} \subseteq opened
    /\ \E found \in Handed3(p) :
          Round3Reject(p, found) \/ Round3Abort(p, found) \/ Round3Sign(p, found)
    /\ calls' = [calls EXCEPT ![p][3] = @ + 1]
    /\ UNCHANGED <<committed, opened, untagged, zeroVars>>

Next ==
    /\ \/ \E p \in Honest : Round1(p) \/ Round2(p) \/ Round3(p)
       \/ \E c \in Corrupt, digest \in {"empty", "sealed"}, kind \in ZeroKinds :
             CorruptRound1(c, digest, kind)
    /\ UNCHANGED scheme

Spec == Init /\ [][Next]_vars

-----------------------------------------------------------------------------
(***************************************************************************)
(* Aggregate.  a is the cosigner that aggregates, None for a third party.  *)
(* Partial signatures of honest cosigners are what Round3 returned; those  *)
(* of corrupt ones may be missing, or off in every part.                   *)
(***************************************************************************)
Aggregators == {p \in Honest : round[p] = 4} \cup {None}
Signed == {p \in Honest : psig[p] # None}

\* A corrupt party's challenge: an honest one's, the right one, or another.
Forgeries ==
    {Part(challenge, negated, r, s)
        : challenge \in {psig[p].e : p \in Signed} \cup {Once, Nothing},
          negated \in BOOLEAN, r \in Scalars, s \in Scalars} \cup {None}

\* The partial signatures of some parties.
PartialSignatures ==
    UNION {{[q \in senders |-> IF q \in Corrupt THEN forged[q] ELSE psig[q]]
               : forged \in [senders \cap Corrupt -> Forgeries]}
           : senders \in SUBSET (Signed \cup Corrupt)}

\* The response fits nonce commitment and challenge as they are in the signature.
VerifiesAlone(sig) == sig.s = sig.r

\* Mutated form: the nonce commitment is not compared with that of round 2.
Refuted_AnyNonce(a, sigs) == {q \in DOMAIN sigs : ~VerifiesAlone(sigs[q])}

\* Whose nonce commitment or response a cosigning aggregator finds wrong.  It
\* negates the commitments of round 2 by the parity of its own nonce sum.
Refuted(a, sigs) ==
    {q \in DOMAIN sigs : \/ sigs[q].negated # Negates(bigR[a]) \/ sigs[q].r # 0
                         \/ ~VerifiesAlone(sigs[q])}

Sum(sigs, part) == SumFunction([q \in DOMAIN sigs |-> sigs[q][part]]) % Order

\* The nonces as the partial signatures have them.
Nonces(sigs) ==
    [q \in Quorum |-> IF q \notin DOMAIN sigs THEN 0 ELSE IF sigs[q].negated THEN -1 ELSE 1]

\* The nonce of the aggregate, and what it is off by.  A cosigning aggregator
\* takes its nonce sum as it is, not negated.
AggregateNonce(a, sigs) ==
    IF a # None THEN <<bigR[a], 0>> ELSE <<Nonces(sigs), Sum(sigs, "r")>>

\* The same x-coordinate, or for plain Schnorr the same point.
SameNonce(nonce, other) ==
    nonce = other \/ (scheme.variant # "schnorr" /\ nonce = Minus(other))

SameChallenge(a, sigs) ==
    /\ AggregateNonce(a, sigs)[2] = 0
    /\ \A q \in DOMAIN sigs : SameNonce(AggregateNonce(a, sigs)[1], sigs[q].e)

\* The aggregate verifies: it is made of everybody's nonce and part of the key.
\* BIP-340 looks at the x-coordinate of the nonce and asks that the responses
\* have an even one; the others compare points.
Verifies(a, sigs) ==
    /\ DOMAIN sigs = Quorum
    /\ AggregateNonce(a, sigs)[2] = Sum(sigs, "s")
    /\ IF scheme.variant = "bip340"
       THEN SameNonce(AggregateNonce(a, sigs)[1], Nonces(sigs)) /\ ~IsOdd(Nonces(sigs))
       ELSE AggregateNonce(a, sigs)[1] = Nonces(sigs)

Error(kind, parties) == [kind |-> kind, parties |-> parties]

\* What Aggregate returns: a signature, an error that names parties, or one that does not.
Aggregate(a, sigs) ==
    IF DOMAIN sigs \notin Qualified THEN Error("unnamed", {})
    ELSE IF With(sigs, None) # {} THEN Error("named", With(sigs, None))
    ELSE IF a # None /\ DOMAIN sigs # Quorum THEN Error("unnamed", {})
    ELSE IF a # None /\ Refuted(a, sigs) # {} THEN Error("named", Refuted(a, sigs))
    ELSE IF ~SameChallenge(a, sigs) \/ ~Verifies(a, sigs) THEN Error("unnamed", {})
    ELSE [kind |-> "signature", parties |-> {}]

Outcomes ==
    {[by |-> a, of |-> sigs, is |-> Aggregate(a, sigs)]
        : a \in Aggregators, sigs \in PartialSignatures}

-----------------------------------------------------------------------------
\* Types of the state.
TypeOK ==
    /\ ZeroTypeOK
    /\ scheme \in Schemes
    /\ round \in [Honest -> 1 .. 4]
    /\ committed \in [Quorum -> {"none", "empty", "sealed"}]
    /\ opened \subseteq Honest
    /\ bigR \in [Honest -> [Quorum -> Nat]]
    /\ psig \in [Honest -> [e : [Quorum -> Nat], negated : BOOLEAN, r : Scalars, s : Scalars]
                         \cup {None}]
    /\ calls \in [Honest -> [{2, 3} -> 0 .. MaxCalls]]
    /\ untagged \subseteq Honest
    /\ blamed \subseteq Honest \X Quorum

\* README of lindell22: "malicious parties can be identified".  The rounds name
\* corrupt parties only, also after repeated calls, and a round fails without
\* naming one only when a share of the key vanished.  So does an aggregator, but
\* for this: state.bigR keeps what a failed Round3 added, and the parity of the
\* wrong sum decides which nonces are negated.  With BIP-340 or Mina a cosigning
\* aggregator then names an honest party, if it or that party called Round3 twice.
BlameIsJust ==
    /\ \A b \in blamed : b[2] \in Corrupt
    /\ \A o \in Outcomes : \A q \in o.is.parties \ Corrupt :
          /\ o.by # None
          /\ scheme.variant # "schnorr"
          /\ calls[q][3] > 1 \/ calls[o.by][3] > 1
    /\ untagged # {} => Vanishes

\* Nobody called Round3 twice.
NotRepeated == \A p \in Honest : calls[p][3] <= 1

\* What a cosigner makes of everybody's nonces.
RightPart == Part(Once, Negates(Once), 0, 0)

\* README of signing: a cosigning aggregator catches "any party that
\* substituted a different nonce" and "parties that used an incorrect secret key
\* share".  When everybody called Round3 once and all partial signatures are
\* there and for the right challenge, right ones add up to a signature for every
\* aggregator, and a cosigning one returns a signature of right parts or names
\* whose part is not.  The exception is Mina with an odd nonce sum: its verifier
\* compares the points, the cosigning aggregator has the sum without the
\* correction, and so right parts fail and nobody is named.
AggregatesRightParts ==
    NotRepeated => \A o \in Outcomes :
        LET right == {q \in Quorum : o.of[q] = RightPart}
            ofRight == IF o.by # None /\ scheme.variant = "mina" /\ Negates(Once)
                       THEN "unnamed" ELSE "signature"
        IN  DOMAIN o.of = Quorum =>
            /\ right = Quorum => o.is.kind = ofRight
            /\ o.by # None /\ (\A q \in Quorum : o.of[q] # None => o.of[q].e = Once)
               => o.is.kind = (IF right = Quorum THEN ofRight ELSE "named")

\* Comment on Aggregate: "Returns an identifiable abort error if any partial
\* signature is invalid."  A cosigning aggregator that has everybody's partial
\* signature names a party when it fails.
FailuresAreNamed ==
    NotRepeated => \A o \in Outcomes :
        o.by # None /\ DOMAIN o.of = Quorum => o.is.kind # "unnamed"
=============================================================================
