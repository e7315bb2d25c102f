---------------------------- MODULE Redistribute ----------------------------
(***************************************************************************)
(* pkg/mpc/redistribute: the previous shareholders blind their additive    *)
(* shares of the key with a zero sharing, deal them anew under the next    *)
(* access structure, and the next shareholders add up what they get.       *)
(*                                                                         *)
(* Keys are counted from the true ones, modulo the group order: the key,   *)
(* each holder's part of it and each holder's zero shift are 0, and what a *)
(* corrupt party publishes may be off by something.  PrevMSP and           *)
(* PrevVerificationVector together fix one part of the key per holder, and *)
(* the old key as their sum.                                               *)
(*                                                                         *)
(* Every round advances by a deferred increment, also when it fails, so no *)
(* round can be called twice; the next one can, with what a failed one     *)
(* left behind.                                                            *)
(***************************************************************************)
EXTENDS HJKY, Integers, Functions

CONSTANTS
    NextShareholders,   \* shareholders of the next access structure; with Holders, Quorum
    Order               \* of the group

VARIABLES
    round,             \* state.round
    trustedAnchorID,   \* of the parties that are no previous shareholders, 0 for none
    published,         \* each Round2Broadcast, None before it
    share,             \* state.share and state.shareVerificationVector
    shard,             \* key of the shard Round3 returned, and the contributions in it
    untagged           \* <<party, check>> of every error without a culprit

vars == <<round, trustedAnchorID, published, share, shard, untagged, blamed, zeroVars>>

IsPrev(p) == p \in Holders
IsNext(p) == p \in NextShareholders
NextOnly == NextShareholders \ Holders

Scalars == 0 .. Order - 1
Truth == [q \in Holders |-> 0]

\* A claim about all holders that is true, or false for one of them.
Claims == {[Truth EXCEPT ![q] = off] : q \in Holders, off \in Scalars}

\* PrevMSP and PrevVerificationVector, ZeroVerificationVector, and the constant
\* term of NextVerificationVectorContribution.  The claimed MSP may also be one
\* that does not accept the previous shareholders.
Broadcasts ==
    [msp : {"true", "other", "unfit"}, prev : Claims, zero : Claims, head : Scalars]

Honestly == [msp |-> "true", prev |-> Truth, zero |-> Truth, head |-> 0]

Malformed == [Honestly EXCEPT !.msp = "malformed"]

Init ==
    /\ ZeroInit
    /\ round = [p \in Honest |-> 1]
    /\ trustedAnchorID \in [NextOnly \ Corrupt -> Holders \cup {0}]
    /\ published = [q \in Holders |-> None]
    /\ share = [p \in Honest |-> Nothing]
    /\ shard = [p \in Honest |-> None]
    /\ untagged = {}
    /\ blamed = {}

Round1(p) ==
    /\ round[p] = 1
    /\ round' = [round EXCEPT ![p] = 2]
    /\ IF IsPrev(p) THEN ZeroRound1(p) ELSE UNCHANGED zeroVars
    /\ UNCHANGED <<trustedAnchorID, published, share, shard, untagged, blamed>>

\* HJKY's Round2 fails: nothing is published, and nothing is stored for Round3.
Round2Abort(p) ==
    /\ IsPrev(p)
    /\ ZeroAllDealt(p)
    /\ \E shares \in ZeroHanded(p) : ZeroRound2Fails(p, shares)
    /\ UNCHANGED <<published, share>>

Round2Publish(p) ==
    /\ IsPrev(p)
    /\ ZeroAllDealt(p)
    /\ \E shares \in ZeroHanded(p) : ZeroRound2Returns(p, shares)
    /\ published' = [published EXCEPT ![p] = Honestly]
    /\ share' = IF IsNext(p) THEN [share EXCEPT ![p] = Add(Nothing, {p})] ELSE share

Round2(p) ==
    /\ round[p] = 2
    /\ round' = [round EXCEPT ![p] = 3]
    /\ \/ Round2Abort(p)
       \/ Round2Publish(p)
       \/ ~IsPrev(p) /\ UNCHANGED <<published, share, blamed, zeroVars>>
    /\ UNCHANGED <<trustedAnchorID, shard, untagged>>

CorruptPublish(c, broadcast) ==
    /\ published[c] = None
    /\ published' = [published EXCEPT ![c] = broadcast]
    /\ UNCHANGED <<round, trustedAnchorID, share, shard, untagged, blamed, zeroVars>>

-----------------------------------------------------------------------------
\* The largest ID, for the mutated forms.
Last(S) == CHOOSE q \in S : \A other \in S : other <= q

\* Mutated form: a previous shareholder goes by what it received last.
Reference_Received(p) ==
    IF IsPrev(p) THEN published[Last(OtherHolders(p))] ELSE published[trustedAnchorID[p]]

\* The metadata p holds all the others' against: its own, or its anchor's.
Reference(p) ==
    IF IsPrev(p) THEN Honestly ELSE published[trustedAnchorID[p]]

HasReference(p) == IsPrev(p) \/ trustedAnchorID[p] # 0

SameMetadata(a, b) == a.msp = b.msp /\ a.prev = b.prev /\ a.zero = b.zero

ExpectedHead(reference, q) == (reference.prev[q] + reference.zero[q]) % Order

\* What the loop over the other holders finds wrong with q.
Inconsistent(p, q) == ~SameMetadata(published[q], Reference(p))
Unusable(p, q) == ~Inconsistent(p, q) /\ Reference(p).msp = "unfit"

WrongHead(p, q) == published[q].head # ExpectedHead(Reference(p), q)

Stops(p) ==
    IF ~HasReference(p) THEN {}
    ELSE {q \in OtherHolders(p) : Inconsistent(p, q) \/ Unusable(p, q) \/ WrongHead(p, q)}

\* The constant term of the aggregated vector, and those of the claimed old ones.
NewPk(p) ==
    SumFunction([q \in Holders |-> IF q \in OtherHolders(p) THEN published[q].head ELSE 0])
        % Order

OldPk(q) == SumFunction(published[q].prev) % Order

\* Mutated form: one holder's old key is enough.
KeyChanged_OneFits(p) == \A q \in OtherHolders(p) : OldPk(q) # NewPk(p)

KeyChanged(p) == \E q \in OtherHolders(p) : OldPk(q) # NewPk(p)

\* What p makes of the shares it is handed.
Handed(p) ==
    {[q \in OtherHolders(p) |-> IF q \in Corrupt THEN forged[q] ELSE "right"]
        : forged \in [Corrupt \cap Holders -> {"malformed", "wrong", "right"}]}

Malformed3(p, shares) ==
    LET broadcasts == {q \in OtherHolders(p) : published[q].msp = "malformed"}
    IN  IF broadcasts # {} THEN broadcasts ELSE With(shares, "malformed")

Blame(p, q) == blamed' = blamed \cup {<<p, q>>} /\ UNCHANGED <<shard, untagged>>
Fail(p, check) == untagged' = untagged \cup {<<p, check>>} /\ UNCHANGED <<shard, blamed>>

Round3Reject(p, shares) ==
    /\ Malformed3(p, shares) # {}
    /\ Blame(p, First(Malformed3(p, shares)))
    /\ UNCHANGED share

\* The checks in their order, once everything is well formed and added up.
Round3Aggregate(p, shares) ==
    /\ Malformed3(p, shares) = {}
    /\ share' = [share EXCEPT ![p] = Add(@, OtherHolders(p))]
    /\ IF With(shares, "wrong") # {} THEN Blame(p, First(With(shares, "wrong")))
       ELSE IF IsPrev(p) /\ zeroSum[p] = None THEN Fail(p, "no zero vector")
       ELSE IF Stops(p) # {}
       THEN IF Unusable(p, First(Stops(p))) THEN Fail(p, "MSP")
            ELSE Blame(p, First(Stops(p)))
       ELSE IF KeyChanged(p) THEN Fail(p, "key")
       ELSE /\ shard' = [shard EXCEPT ![p] = [key |-> NewPk(p), of |-> share'[p]]]
            /\ UNCHANGED <<blamed, untagged>>

Round3(p) ==
    /\ round[p] = 3
    /\ round' = [round EXCEPT ![p] = 4]
    /\ IF IsNext(p)
       THEN /\ \A q \in OtherHolders(p) : published[q] # None
            /\ \E shares \in Handed(p) : Round3Reject(p, shares) \/ Round3Aggregate(p, shares)
       ELSE UNCHANGED <<share, shard, untagged, blamed>>
    /\ UNCHANGED <<trustedAnchorID, published, zeroVars>>

Next ==
    \/ \E p \in Honest : Round1(p) \/ Round2(p) \/ Round3(p)
    \/ \E c \in Corrupt \cap Holders :
          \/ \E broadcast \in Broadcasts \cup {Malformed} : CorruptPublish(c, broadcast)
          \/ \E kind \in ZeroKinds \ {"cancelling"} :
                /\ ZeroCorruptDeal(c, kind)
                /\ UNCHANGED <<round, trustedAnchorID, published, share, shard, untagged, blamed>>

Spec == Init /\ [][Next]_vars

-----------------------------------------------------------------------------
\* Types of the state.
TypeOK ==
    /\ ZeroTypeOK
    /\ round \in [Honest -> 1 .. 4]
    /\ trustedAnchorID \in [NextOnly \ Corrupt -> Holders \cup {0}]
    /\ published \in [Holders -> Broadcasts \cup {Malformed, None}]
    /\ share \in [Honest -> [Quorum -> Nat]]
    /\ shard \in [Honest -> [key : Scalars, of : [Quorum -> Nat]] \cup {None}]
    /\ untagged \subseteq Honest \X {"no zero vector", "MSP", "key"}
    /\ blamed \subseteq Honest \X Quorum

\* README of redistribute: "The resulting verification vector must preserve the
\* original secret commitment".  As long as one previous shareholder is honest,
\* a returned shard belongs to the old key and holds every previous
\* shareholder's contribution, whatever the anchor claims and also when Round3
\* is called after a failed Round2.
KeyPreserved ==
    HonestHolders # {} =>
        \A p \in Honest : shard[p] # None =>
            shard[p] = [key |-> 0, of |-> Add(Nothing, Holders)]

\* README of redistribute, identifiable abort: an honest party is named only
\* by a party without a previous share whose trusted anchor is corrupt.  The
\* aggregate check, which names nobody and "should never fail if all per-sender
\* checks above are correct" (comment in Round3), fails only for parties that
\* had nothing to hold the senders' metadata against.  That takes one honest
\* previous shareholder: Round2Broadcast.Validate does not look at the constant
\* term of ZeroVerificationVector, so previous shareholders that are all corrupt
\* may agree on zero shares that do not add up to zero.
BlameIsJust ==
    /\ \A b \in blamed : b[2] \in Honest =>
          b[1] \in NextOnly /\ trustedAnchorID[b[1]] \in Corrupt
    /\ \A p \in Honest : <<p, "key">> \in untagged => ~HasReference(p)
=============================================================================
