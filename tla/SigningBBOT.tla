----------------------------- MODULE SigningBBOT -----------------------------
(***************************************************************************)
(* pkg/mpc/signatures/ecdsa/dkls23/signing_bbot: the four rounds of a      *)
(* cosigner.  Round4 returns a partial signature and leaves the cosigner's *)
(* round number alone.                                                     *)
(***************************************************************************)
EXTENDS DKLS23

vars == cosignerVars

Init == CosignerInit(1, 2)

Round1(p) ==
    /\ round[p] = 1
    /\ committed' = [committed EXCEPT ![p] = "sealed"]
    /\ aliceRound' = Advance(aliceRound, p, Others(p))
    /\ NextRound(p)
    /\ UNCHANGED <<bobRound, pk, signed, blamed, untagged>>

\* Nothing in the loop can fail: Bob's first message has been validated.
Round2(p) ==
    /\ round[p] = 2
    /\ \A q \in Others(p) : committed[q] # "none"
    /\ \E found \in HandedCommitments(p, {}) :
          \/ Reject(p, found)
          \/ /\ Malformed(found) = {}
             /\ bobRound' = Advance(bobRound, p, Others(p))
             /\ NextRound(p)
             /\ UNCHANGED <<committed, aliceRound, pk, signed, blamed, untagged>>

-----------------------------------------------------------------------------
\* Where the loop of Round3 stops: an opening is refuted, the multiplication has
\* taken its message in an earlier call, or Alice cannot use it.
Stops3(p, found) ==
    With(found, "refuted") \cup With(found, "unusable")
    \cup {q \in Others(p) : aliceRound[p][q] # 3}

\* Mutated form: the round ends when its call does.
Round3Fails_Advances(p, found) ==
    LET stop == First(Stops3(p, found))
    IN  /\ Malformed(found) = {}
        /\ Stops3(p, found) # {}
        /\ aliceRound' = Advance(aliceRound, p, Before(p, stop))
        /\ IF found[stop] = "refuted"
           THEN blamed' = blamed \cup {<<p, stop>>} /\ UNCHANGED untagged
           ELSE /\ untagged' = untagged \cup
                      {<<p, IF aliceRound[p][stop] # 3 THEN "invalid round" ELSE "unusable">>}
                /\ UNCHANGED blamed
        /\ NextRound(p)
        /\ UNCHANGED <<committed, bobRound, pk, signed>>

Round3Fails(p, found) ==
    LET stop == First(Stops3(p, found))
    IN  /\ Malformed(found) = {}
        /\ Stops3(p, found) # {}
        /\ aliceRound' = Advance(aliceRound, p, Before(p, stop))
        /\ IF found[stop] = "refuted"
           THEN blamed' = blamed \cup {<<p, stop>>} /\ UNCHANGED untagged
           ELSE /\ untagged' = untagged \cup
                      {<<p, IF aliceRound[p][stop] # 3 THEN "invalid round" ELSE "unusable">>}
                /\ UNCHANGED blamed
        /\ UNCHANGED <<round, committed, bobRound, pk, signed>>

Round3Returns(p, found) ==
    /\ Malformed(found) = {}
    /\ Stops3(p, found) = {}
    /\ aliceRound' = Advance(aliceRound, p, Others(p))
    /\ pk' = [pk EXCEPT ![p] = 0]
    /\ NextRound(p)
    /\ UNCHANGED <<committed, bobRound, signed, blamed, untagged>>

Round3(p) ==
    /\ round[p] = 3
    /\ PeersPast(p, 2)
    /\ \E found \in Handed(p, {"malformed broadcast", "refuted", "unusable"}) :
          Reject(p, found) \/ Round3Fails(p, found) \/ Round3Returns(p, found)

-----------------------------------------------------------------------------
\* Bob's check of the multiplication fails, or what came out of it is no multiple
\* of the nonce and the key part that Alice broadcast.
Stops4(p, found) ==
    With(found, "cheated") \cup With(found, "inconsistent")
    \cup {q \in Others(p) : bobRound[p][q] # 4}

\* Only a failed check names the peer.
Round4Fails(p, found) ==
    LET stop == First(Stops4(p, found))
        done == IF found[stop] = "inconsistent" THEN {stop} ELSE {}
    IN  /\ Malformed(found) = {}
        /\ Stops4(p, found) # {}
        /\ IF bobRound[p][stop] = 4
           THEN /\ bobRound' = Advance(bobRound, p, Before(p, stop) \cup done)
                /\ blamed' = blamed \cup {<<p, stop>>}
                /\ UNCHANGED untagged
           ELSE /\ bobRound' = Advance(bobRound, p, Before(p, stop))
                /\ untagged' = untagged \cup {<<p, "invalid round">>}
                /\ UNCHANGED blamed
        /\ UNCHANGED <<round, committed, aliceRound, pk, signed>>

\* Mutated form: Bob's last round leaves his round number alone, too.
BobsAfterRound4_SameRound(p) == bobRound

BobsAfterRound4(p) == Advance(bobRound, p, Others(p))

Round4Returns(p, found, message) ==
    /\ Malformed(found) = {}
    /\ Stops4(p, found) = {}
    /\ bobRound' = BobsAfterRound4(p)
    /\ IF KeyAddsUp(p)
       THEN signed' = [signed EXCEPT ![p] = @ \cup {message}] /\ UNCHANGED untagged
       ELSE untagged' = untagged \cup {<<p, "key">>} /\ UNCHANGED signed
    /\ UNCHANGED <<round, committed, aliceRound, pk, blamed>>

Round4(p, message) ==
    /\ round[p] = 4
    /\ \A q \in Others(p) : pk[q] # None
    /\ \E found \in Handed(p, {"malformed broadcast", "cheated", "inconsistent"}) :
          Reject(p, found) \/ Round4Fails(p, found) \/ Round4Returns(p, found, message)

Next ==
    \/ \E p \in Honest : Round1(p) \/ Round2(p) \/ Round3(p) \/ \E message \in Messages : Round4(p, message)
    \/ \E c \in Corrupt, digest \in {"empty", "sealed"} : CorruptCommit(c, digest)
    \/ \E c \in Corrupt, shift \in Scalars : CorruptKeyPart(c, shift)

Spec == Init /\ [][Next]_vars

-----------------------------------------------------------------------------
\* Types of the state.
TypeOK == CosignerTypeOK(1 .. 4, {1, 3, 5}, {2, 4, 6})
=============================================================================
