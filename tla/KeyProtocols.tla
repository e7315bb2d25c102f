---------------------------- MODULE KeyProtocols ----------------------------
(***************************************************************************)
(* The protocols that make key shards (Canetti's and Gennaro's DKG), move  *)
(* them to other shareholders (redistribution) and sign with them          *)
(* (Lindell22, DKLS23 in two variants), one of which runs over a session,  *)
(* and what they promise.                                                  *)
(* Redistribution and signing run the same zero sharing, among all         *)
(* previous shareholders or all cosigners.                                 *)
(*                                                                         *)
(* State that several protocols keep is shared; a variable that the        *)
(* running protocol does not have is None.                                 *)
(***************************************************************************)
EXTENDS Dealings

CONSTANTS
    PrevShareholders, NextShareholders,   \* of the redistribution
    Order,                                \* of the group
    Schemes,                              \* for Schnorr signatures
    Messages,                             \* that a DKLS23 cosigner is asked to sign
    MaxSigningCalls                       \* bound on the calls of a signing round

ASSUME KeyProtocolsAssumption ==
    /\ Quorum = PrevShareholders \cup NextShareholders
    /\ 0 \notin Quorum                    \* the anchor 0 is nobody's
    /\ Order \in Nat \ {0, 1}
    /\ MaxSigningCalls \in Nat
    \* NewCosigner refuses a quorum that cannot sign, NewContext one of a single party.
    /\ Quorum \in Qualified
    /\ Quorum # {} /\ \A p \in Quorum : Quorum \ {p} # {}
    \* Nothing sent is none of the messages.
    /\ None \notin {"malformed", "nonzero", "zero", "cancelling"}
    /\ None \notin [e : [Quorum -> Nat], negated : BOOLEAN, r : Nat, s : Nat]

ASSUME SchemesAssumption ==
    Schemes \subseteq [variant : {"schnorr", "bip340", "mina"}, odd : SUBSET [Quorum -> Nat]]

VARIABLES
    protocol,
    round, shard, share, calls, committed, opened, blamed, untagged,
    verificationVector, rho, proof, spent,                    \* Canetti
    pedersen, feldman, receivedShares, summedShareValue,      \* Gennaro
    zeroRound, zeroDealt, zeroVectors, zeroSum,               \* HJKY
    trustedAnchorID, published,                               \* redistribution
    scheme, bigR, psig,                                       \* Lindell22
    aliceRound, bobRound, pk, signed, otRound, skewed         \* DKLS23

Canetti == INSTANCE CanettiDKG
Gennaro == INSTANCE GennaroDKG
Redistribution == INSTANCE Redistribute WITH Holders <- PrevShareholders
Signing == INSTANCE Lindell22 WITH Holders <- Quorum, MaxCalls <- MaxSigningCalls
Bbot == INSTANCE SigningBBOT
Softspoken == INSTANCE SigningSoftspoken

canettiOnly == <<verificationVector, rho, proof, spent>>
gennaroOnly == <<pedersen, feldman, receivedShares, summedShareValue>>
zeroOnly == <<zeroRound, zeroDealt, zeroVectors, zeroSum>>
redistributeOnly == <<trustedAnchorID, published>>
signingOnly == <<scheme, bigR, psig>>
ecdsaOnly == <<aliceRound, bobRound, pk, signed, otRound, skewed>>

vars == <<protocol, round, shard, share, calls, committed, opened, blamed, untagged,
          canettiOnly, gennaroOnly, zeroOnly, redistributeOnly, signingOnly,
          ecdsaOnly>>

NoCanetti == verificationVector = None /\ rho = None /\ proof = None /\ spent = None
NoGennaro ==
    pedersen = None /\ feldman = None /\ receivedShares = None /\ summedShareValue = None
NoZero == zeroRound = None /\ zeroDealt = None /\ zeroVectors = None /\ zeroSum = None
NoRedistribution == trustedAnchorID = None /\ published = None
NoSigning == scheme = None /\ bigR = None /\ psig = None
NoOt == otRound = None /\ skewed = None
NoEcdsa ==
    aliceRound = None /\ bobRound = None /\ pk = None /\ signed = None /\ NoOt
NoCommitments == committed = None /\ opened = None

Init ==
    \/ /\ protocol = "canetti"
       /\ Canetti!Init
       /\ NoGennaro /\ NoZero /\ NoRedistribution /\ NoSigning /\ NoEcdsa
    \/ /\ protocol = "gennaro"
       /\ Gennaro!Init
       /\ share = None
       /\ NoCommitments /\ NoCanetti /\ NoZero /\ NoRedistribution /\ NoSigning /\ NoEcdsa
    \/ /\ protocol = "redistribute"
       /\ Redistribution!Init
       /\ calls = None
       /\ NoCommitments /\ NoCanetti /\ NoGennaro /\ NoSigning /\ NoEcdsa
    \/ /\ protocol = "lindell22"
       /\ Signing!Init
       /\ share = None /\ shard = None
       /\ NoCanetti /\ NoGennaro /\ NoRedistribution /\ NoEcdsa
    \/ /\ \/ protocol = "bbot" /\ Bbot!Init /\ NoOt
          \/ protocol = "softspoken" /\ Softspoken!Init
       /\ share = None /\ shard = None /\ calls = None /\ opened = None
       /\ NoCanetti /\ NoGennaro /\ NoZero /\ NoRedistribution /\ NoSigning

Next ==
    \/ /\ protocol = "canetti"
       /\ Canetti!Next
       /\ UNCHANGED <<protocol, gennaroOnly, zeroOnly, redistributeOnly, signingOnly, ecdsaOnly>>
    \/ /\ protocol = "gennaro"
       /\ Gennaro!Next
       /\ UNCHANGED <<protocol, share, committed, opened, canettiOnly, zeroOnly,
                      redistributeOnly, signingOnly, ecdsaOnly>>
    \/ /\ protocol = "redistribute"
       /\ Redistribution!Next
       /\ UNCHANGED <<protocol, calls, committed, opened, canettiOnly, gennaroOnly, signingOnly,
                      ecdsaOnly>>
    \/ /\ protocol = "lindell22"
       /\ Signing!Next
       /\ UNCHANGED <<protocol, share, shard, canettiOnly, gennaroOnly, redistributeOnly,
                      ecdsaOnly>>
    \/ /\ \/ protocol = "bbot" /\ Bbot!Next /\ UNCHANGED <<otRound, skewed>>
          \/ protocol = "softspoken" /\ Softspoken!Next
       /\ UNCHANGED <<protocol, share, shard, calls, opened, canettiOnly, gennaroOnly,
                      zeroOnly, redistributeOnly, signingOnly>>

Spec == Init /\ [][Next]_vars

-----------------------------------------------------------------------------
\* Types of the state of the protocol that runs.
TypeOK ==
    CASE protocol = "canetti" -> Canetti!TypeOK
      [] protocol = "gennaro" -> Gennaro!TypeOK
      [] protocol = "redistribute" -> Redistribution!TypeOK
      [] protocol = "lindell22" -> Signing!TypeOK
      [] protocol = "bbot" -> Bbot!TypeOK
      [] protocol = "softspoken" -> Softspoken!TypeOK

\* Canetti: a shard holds every dealer's contribution exactly once, whatever
\* calls failed and were repeated on the way.
OutputIsSum == protocol = "canetti" => Canetti!OutputIsSum

\* Canetti: honest parties are named, and nobody is named, only after somebody
\* repeated a failed round, since rho, the vector and the transcripts are changed
\* before all is verified.
MisleadsOnlyAfterRepeat == protocol = "canetti" => Canetti!BlameIsJust

\* Gennaro: a key that can be reconstructed is the one committed to in round 1.
KeyIsCommitted == protocol = "gennaro" => Gennaro!KeyIsCommitted

\* Gennaro: every abort names a corrupt party, repeated calls included.
AbortsAreIdentifiable == protocol = "gennaro" => Gennaro!AbortsAreIdentifiable

\* HJKY, in both protocols that run it: what Round2 returns counts every
\* dealer's sharing of zero once, although failed calls are repeated.
ZeroSharesCancel ==
    /\ protocol = "redistribute" => Redistribution!ZeroSharesCancel
    /\ protocol = "lindell22" => Signing!ZeroSharesCancel

\* Redistribution: the key stays the same while one previous shareholder is honest.
KeyPreserved == protocol = "redistribute" => Redistribution!KeyPreserved

\* Redistribution: honest parties are named only on a corrupt anchor's word, and
\* a wrong key names nobody only where there was no reference.
BlameFollowsAnchor == protocol = "redistribute" => Redistribution!BlameIsJust

\* The two variants of DKLS23.
IsEcdsa == protocol \in {"bbot", "softspoken"}

\* Signing: the rounds of all protocols name corrupt parties only, in repeated
\* calls too.  So do Lindell22's aggregators for plain Schnorr signatures; for
\* BIP-340 and Mina a cosigning one names an honest party only if one of the two
\* repeated Round3, which skews the nonce sum whose parity both correct by.
SignersBlamedJustly ==
    /\ protocol = "lindell22" => Signing!BlameIsJust
    /\ IsEcdsa => Bbot!BlameIsJust

\* Lindell22: right partial signatures add up to a signature, except for a
\* cosigning aggregator of Mina signatures when the nonces add up to an odd
\* point; a cosigning aggregator names whose nonce or response is wrong.
AggregatesRightParts == protocol = "lindell22" => Signing!AggregatesRightParts

\* Lindell22: a cosigning aggregator that fails names a party.
FailuresAreNamed == protocol = "lindell22" => Signing!FailuresAreNamed

\* DKLS23: a nonce signs one message at most, although the last round can be
\* repeated, also after it returned a signature.
NonceSignsOnce == IsEcdsa => Bbot!NonceSignsOnce

\* DKLS23: a cosigner that failed half-way never signs in this session: cross
\* terms of different calls do not meet in one partial signature.  Nor does any
\* after Round3 of signing_softspoken was repeated.
FailureIsFinal ==
    [][IsEcdsa => \A p \in Honest :
          Bbot!Halfway(p) \/ (protocol = "softspoken" /\ Softspoken!OutOfStep)
              => signed'[p] = signed[p]]_vars
=============================================================================
