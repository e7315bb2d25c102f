-------------------------- MODULE SigningSoftspoken --------------------------
(***************************************************************************)
(* pkg/mpc/signatures/ecdsa/dkls23/signing_softspoken: the five rounds of  *)
(* a cosigner.  The first three run a base OT (pkg/ot/base/ecbbot) with    *)
(* every peer, whose outputs seed the multiplications (rvole/softspoken)   *)
(* made in Round3, in which Bob speaks first.  Nonces are drawn in Round3, *)
(* anew in every call, and opened together with the key parts in Round4.   *)
(*                                                                         *)
(* Round3 also draws the commitment key from the session's transcript,     *)
(* before anything in it can fail.  A failed call has moved the transcript *)
(* on, so a repeated one keys the OT outputs and the multiplications       *)
(* differently from the other cosigners.                                   *)
(***************************************************************************)
EXTENDS DKLS23

VARIABLES
    otRound,   \* round of each of baseOtSenders
    skewed     \* cosigners whose transcript a failed Round3 has moved on

otVars == <<otRound, skewed>>
vars == <<cosignerVars, otVars>>

\* Of the multiplications there is nothing before Round3 makes them.
Init ==
    /\ CosignerInit(2, 1)
    /\ otRound = [p \in Honest |-> [q \in Others(p) |-> 1]]
    /\ skewed = {}

Round1(p) ==
    /\ round[p] = 1
    /\ otRound' = Advance(otRound, p, Others(p))
    /\ NextRound(p)
    /\ UNCHANGED <<committed, aliceRound, bobRound, pk, signed, blamed, untagged, skewed>>

\* Nothing in the loop can fail: the receivers' input has been validated.
Round2(p) ==
    /\ round[p] = 2
    /\ PeersPast(p, 1)
    /\ \E found \in Handed(p, {}) :
          \/ Reject(p, found)
          \/ /\ Malformed(found) = {}
             /\ NextRound(p)
             /\ UNCHANGED <<committed, aliceRound, bobRound, pk, signed, blamed, untagged>>
    /\ UNCHANGED otVars

-----------------------------------------------------------------------------
\* Messages that cannot be used and peers whose message has been taken.
Unusable(p, found, taken) ==
    With(found, "unusable") \cup {q \in Others(p) : taken[p][q]}

\* Errors of Alice and of the base OT name nobody, whoever caused them.
FailsUntagged(p, stop, taken) ==
    untagged' = untagged \cup {<<p, IF taken[p][stop] THEN "invalid round" ELSE "unusable">>}

OtDone == [p \in Honest |-> [q \in Others(p) |-> otRound[p][q] # 3]]
AliceDone == [p \in Honest |-> [q \in Others(p) |-> aliceRound[p][q] # 2]]

\* For every peer the OT ends, new multiplications are made and Bob's starts.
SetUp(p, ids) ==
    /\ otRound' = [otRound EXCEPT ![p] = [q \in Others(p) |-> IF q \in ids THEN 4 ELSE @[q]]]
    /\ bobRound' = [bobRound EXCEPT ![p] = [q \in Others(p) |-> IF q \in ids THEN 3 ELSE @[q]]]

Round3Fails(p, found) ==
    LET stops == Unusable(p, found, OtDone)
    IN  /\ Malformed(found) = {}
        /\ stops # {}
        /\ SetUp(p, Before(p, First(stops)))
        /\ skewed' = skewed \cup {p}
        /\ FailsUntagged(p, First(stops), OtDone)
        /\ UNCHANGED <<round, committed, aliceRound, pk, signed, blamed>>

Round3Returns(p, found) ==
    /\ Malformed(found) = {}
    /\ Unusable(p, found, OtDone) = {}
    /\ SetUp(p, Others(p))
    /\ committed' = [committed EXCEPT ![p] = "sealed"]
    /\ NextRound(p)
    /\ UNCHANGED <<aliceRound, pk, signed, blamed, untagged, skewed>>

Round3(p) ==
    /\ round[p] = 3
    /\ PeersPast(p, 2)
    /\ \E found \in Handed(p, {"unusable"}) :
          \/ Reject(p, found) /\ UNCHANGED otVars
          \/ Round3Fails(p, found)
          \/ Round3Returns(p, found)

\* Alice's check also fails if one of two honest cosigners has repeated Round3.
Stops4(p, found) ==
    Unusable(p, found, AliceDone) \cup {q \in Honest \ {p} : {p, q} \cap skewed # {}}

Round4Fails(p, found) ==
    LET stops == Stops4(p, found)
    IN  /\ Malformed(found) = {}
        /\ stops # {}
        /\ aliceRound' = Advance(aliceRound, p, Before(p, First(stops)))
        /\ FailsUntagged(p, First(stops), AliceDone)
        /\ UNCHANGED <<round, committed, bobRound, pk, signed, blamed>>

Round4Returns(p, found) ==
    /\ Malformed(found) = {}
    /\ Stops4(p, found) = {}
    /\ aliceRound' = Advance(aliceRound, p, Others(p))
    /\ pk' = [pk EXCEPT ![p] = 0]
    /\ NextRound(p)
    /\ UNCHANGED <<committed, bobRound, signed, blamed, untagged>>

Round4(p) ==
    /\ round[p] = 4
    /\ \A q \in Others(p) : committed[q] # "none"
    /\ \E found \in HandedCommitments(p, {"unusable"}) :
          Reject(p, found) \/ Round4Fails(p, found) \/ Round4Returns(p, found)
    /\ UNCHANGED otVars

-----------------------------------------------------------------------------
\* An opening is refuted before Bob is asked; then his round number or his check
\* stops the loop, or what came out of it does not fit.
Stops5(p, found) ==
    With(found, "refuted") \cup With(found, "cheated") \cup With(found, "inconsistent")
    \cup {q \in Others(p) : bobRound[p][q] # 3}

Round5Fails(p, found) ==
    LET stop  == First(Stops5(p, found))
        taken == found[stop] # "refuted" /\ bobRound[p][stop] # 3
        done  == IF found[stop] = "inconsistent" /\ ~taken THEN {stop} ELSE {}
    IN  /\ Malformed(found) = {}
        /\ Stops5(p, found) # {}
        /\ bobRound' = Advance(bobRound, p, Before(p, stop) \cup done)
        /\ blamed' = IF taken THEN blamed ELSE blamed \cup {<<p, stop>>}
        /\ untagged' = IF taken THEN untagged \cup {<<p, "invalid round">>} ELSE untagged
        /\ UNCHANGED <<round, committed, aliceRound, pk, signed>>

Round5Returns(p, found, message) ==
    /\ Malformed(found) = {}
    /\ Stops5(p, found) = {}
    /\ bobRound' = Advance(bobRound, p, Others(p))
    /\ \/ /\ KeyAddsUp(p)
          /\ signed' = [signed EXCEPT ![p] = @ \cup {message}]
          /\ NextRound(p)
          /\ UNCHANGED untagged
       \/ /\ ~KeyAddsUp(p)
          /\ untagged' = untagged \cup {<<p, "key">>}
          /\ UNCHANGED <<round, signed>>
    /\ UNCHANGED <<committed, aliceRound, pk, blamed>>

Round5(p, message) ==
    /\ round[p] = 5
    /\ \A q \in Others(p) : pk[q] # None
    /\ \E found \in Handed(p, {"malformed broadcast", "refuted", "cheated", "inconsistent"}) :
          Reject(p, found) \/ Round5Fails(p, found) \/ Round5Returns(p, found, message)
    /\ UNCHANGED otVars

Next ==
    \/ \E p \in Honest :
          Round1(p) \/ Round2(p) \/ Round3(p) \/ Round4(p) \/ \E message \in Messages : Round5(p, message)
    \/ \E c \in Corrupt, digest \in {"empty", "sealed"} : CorruptCommit(c, digest) /\ UNCHANGED otVars
    \/ \E c \in Corrupt, shift \in Scalars : CorruptKeyPart(c, shift) /\ UNCHANGED otVars

Spec == Init /\ [][Next]_vars

-----------------------------------------------------------------------------
\* Types of the state.
TypeOK ==
    /\ CosignerTypeOK(1 .. 6, {2, 4}, {1, 3, 5})
    /\ \A p \in Honest : otRound[p] \in [Others(p) -> {1, 3, 4}]
    /\ skewed \subseteq Honest

\* Two honest cosigners have keyed their multiplications differently.
OutOfStep == skewed # {} /\ Cardinality(Honest) > 1
=============================================================================
