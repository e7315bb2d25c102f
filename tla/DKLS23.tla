------------------------------- MODULE DKLS23 -------------------------------
(***************************************************************************)
(* pkg/mpc/signatures/ecdsa/dkls23: what both ways of signing have in      *)
(* common (SigningBBOT, SigningSoftspoken).  A cosigner runs two           *)
(* multiplications (pkg/mpc/rvole) with every other cosigner, as Alice and *)
(* as Bob.  Each has a round number of its own and takes every message     *)
(* once.                                                                   *)
(*                                                                         *)
(* A round that fails leaves the cosigner's own round number alone: the    *)
(* caller may call it again, with other messages of the peers or another   *)
(* message to sign.  A corrupt peer knows what its earlier message left in *)
(* the transcript of a multiplication that failed, and may fit its next    *)
(* one to it; so what is found in corrupt parties' messages is chosen anew *)
(* for every call.                                                         *)
(*                                                                         *)
(* Nonces and key parts are counted from the right ones, modulo the group  *)
(* order.  Broadcasts are consistent, commitments ideal.                   *)
(***************************************************************************)
EXTENDS Dealings, Integers, Functions

CONSTANTS
    Messages,   \* what a cosigner may be asked to sign
    Order       \* of the group

VARIABLES
    round,       \* state.round
    committed,   \* each broadcast BigRCommitment: "none", "empty" or "sealed"
    aliceRound,  \* round of each aliceMul
    bobRound,    \* round of each bobMul
    pk,          \* each broadcast Pk, None before it
    signed,      \* messages for which the last round returned a partial signature
    blamed,      \* <<accuser, culprit>> of every error tagged with a party
    untagged     \* <<party, check>> of every error without a culprit

cosignerVars == <<round, committed, aliceRound, bobRound, pk, signed, blamed, untagged>>

Scalars == 0 .. Order - 1

CosignerInit(alice, bob) ==
    /\ round = [p \in Honest |-> 1]
    /\ committed = [q \in Quorum |-> "none"]
    /\ aliceRound = [p \in Honest |-> [q \in Others(p) |-> alice]]
    /\ bobRound = [p \in Honest |-> [q \in Others(p) |-> bob]]
    /\ pk = [q \in Quorum |-> None]
    /\ signed = [p \in Honest |-> {}]
    /\ blamed = {}
    /\ untagged = {}

\* The multiplications with ids have taken their message.
Advance(rounds, p, ids) ==
    [rounds EXCEPT ![p] = [q \in Others(p) |-> IF q \in ids THEN @[q] + 2 ELSE @[q]]]

NextRound(p) == round' = [round EXCEPT ![p] = @ + 1]

\* The messages of round r of the honest parties are out.
PeersPast(p, r) == \A q \in Honest \ {p} : round[q] > r

CorruptCommit(c, digest) ==
    /\ committed[c] = "none"
    /\ committed' = [committed EXCEPT ![c] = digest]
    /\ UNCHANGED <<round, aliceRound, bobRound, pk, signed, blamed, untagged>>

CorruptKeyPart(c, shift) ==
    /\ pk[c] = None
    /\ pk' = [pk EXCEPT ![c] = shift]
    /\ UNCHANGED <<round, committed, aliceRound, bobRound, signed, blamed, untagged>>

-----------------------------------------------------------------------------
\* What is found in the messages of a round: those of honest parties are right.
Handed(p, kinds) ==
    {[q \in Others(p) |-> IF q \in Corrupt THEN forged[q] ELSE "right"]
        : forged \in [Corrupt -> kinds \cup {"malformed unicast", "right"}]}

\* The same for a round that is handed the commitments, too.
HandedCommitments(p, kinds) ==
    {[q \in Others(p) |-> IF committed[q] = "empty" THEN "malformed broadcast" ELSE found[q]]
        : found \in Handed(p, kinds)}

\* All broadcasts are validated before the first unicast is.
Malformed(found) ==
    IF With(found, "malformed broadcast") # {} THEN With(found, "malformed broadcast")
    ELSE With(found, "malformed unicast")

Reject(p, found) ==
    /\ Malformed(found) # {}
    /\ blamed' = blamed \cup {<<p, First(Malformed(found))>>}
    /\ UNCHANGED <<round, committed, aliceRound, bobRound, pk, signed, untagged>>

\* The key parts of all cosigners must add up to the key; p's own does its share.
KeyAddsUp(p) == FoldFunctionOnSet(LAMBDA x, y : (x + y) % Order, 0, pk, Others(p)) = 0

-----------------------------------------------------------------------------
\* Types of the state.
CosignerTypeOK(rounds, alices, bobs) ==
    /\ round \in [Honest -> rounds]
    /\ committed \in [Quorum -> {"none", "empty", "sealed"}]
    /\ \A p \in Honest : aliceRound[p] \in [Others(p) -> alices]
    /\ \A p \in Honest : bobRound[p] \in [Others(p) -> bobs]
    /\ pk \in [Quorum -> Scalars \cup {None}]
    /\ signed \in [Honest -> SUBSET Messages]
    /\ blamed \subseteq Honest \X Quorum
    /\ untagged \subseteq Honest \X {"invalid round", "unusable", "key"}

\* A nonce signs one message at most, although the last round can be called again
\* with another one: Bob's sides of the multiplications have moved on.
NonceSignsOnce == \A p \in Honest : Cardinality(signed[p]) <= 1

\* Named are corrupt parties only, also in calls after a failed one, where the
\* multiplications with honest parties fail first.
BlameIsJust == \A b \in blamed : b[2] \in Corrupt

\* A call that failed half-way has left the multiplications in different rounds.
Halfway(p) ==
    \E q, other \in Others(p) :
        aliceRound[p][q] # aliceRound[p][other] \/ bobRound[p][q] # bobRound[p][other]
=============================================================================
