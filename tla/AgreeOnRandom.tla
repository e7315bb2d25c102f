---------------------------- MODULE AgreeOnRandom ----------------------------
(***************************************************************************)
(* pkg/mpc/aor: every party commits to a random word, opens it, and the    *)
(* parties output the XOR of all the words.                                *)
(*                                                                         *)
(* A hash commitment is ideal: it opens to the word it was made for, and a *)
(* corrupt party may also broadcast one that opens to nothing.  Round 1    *)
(* goes over the consistent broadcast of pkg/network/echo: a corrupt       *)
(* party's commitment is one value for everybody.  Openings need no such   *)
(* help; each Round3 call may be handed a different one by its caller.     *)
(***************************************************************************)
EXTENDS Naturals, FiniteSets

CONSTANTS
    Quorum,
    Corrupt,
    Bits,         \* bit positions of the sample, size * 8 of them in the code
    Unopenable,   \* a commitment that opens to no word
    ZeroDigest,   \* the all-zero commitment, which Validate rejects
    None,         \* not yet sent, not yet output
    MaxAttempts   \* bound on the Round3 calls of one participant

ASSUME AorAssumption ==
    /\ IsFiniteSet(Quorum)
    /\ Corrupt \subseteq Quorum
    /\ MaxAttempts \in Nat
    /\ Unopenable \notin [Bits -> {0, 1}]
    /\ ZeroDigest \notin [Bits -> {0, 1}] \cup {Unopenable}
    /\ None \notin [Bits -> {0, 1}] \cup {Unopenable, ZeroDigest}

Honest == Quorum \ Corrupt
Others(p) == Quorum \ {p}
Words == [Bits -> {0, 1}]
Zero == [b \in Bits |-> 0]
Commitments == Words \cup {Unopenable, ZeroDigest}

\* A Round2Broadcast: the message and whether its witness is the committed one.
Openings == [message : Words, genuine : BOOLEAN]

\* XOR of the words f assigns to its domain.
Xor(f) == [b \in Bits |-> Cardinality({id \in DOMAIN f : f[id][b] = 1}) % 2]

VARIABLES
    round,         \* Participant.round
    r,             \* State.r, overwritten in place by Round3
    rCommitments,  \* State.rCommitments
    tape,          \* the commitments each party appended to its transcript
    broadcast,     \* the commitment delivered for each party, None before
    opened,        \* the message of each honest party's Round2Broadcast
    attempts,      \* Round3 calls made
    output,
    blamed         \* <<accuser, culprit>> of every error tagged with a party

vars == <<round, r, rCommitments, tape, broadcast, opened, attempts, output, blamed>>

Init ==
    /\ round = [p \in Honest |-> 1]
    /\ r = [p \in Honest |-> Zero]
    /\ rCommitments = [p \in Honest |-> [q \in Quorum |-> None]]
    /\ tape = [p \in Honest |-> None]
    /\ broadcast = [q \in Quorum |-> None]
    /\ opened = [p \in Honest |-> None]
    /\ attempts = [p \in Honest |-> 0]
    /\ output = [p \in Honest |-> None]
    /\ blamed = {}

Round1(p, word) ==
    /\ round[p] = 1
    /\ r' = [r EXCEPT ![p] = word]
    /\ rCommitments' = [rCommitments EXCEPT ![p][p] = word]
    /\ broadcast' = [broadcast EXCEPT ![p] = word]
    /\ round' = [round EXCEPT ![p] = 2]
    /\ UNCHANGED <<tape, opened, attempts, output, blamed>>

\* A corrupt party's commitment is fixed by the first delivery of it.
CorruptCommit(c, commitment) ==
    /\ broadcast[c] = None
    /\ broadcast' = [broadcast EXCEPT ![c] = commitment]
    /\ UNCHANGED <<round, r, rCommitments, tape, opened, attempts, output, blamed>>

\* Mutated form: the opening does not wait for the commitments.
Round2_Eager(p) ==
    /\ round[p] = 2
    /\ \A q \in Others(p) : broadcast[q] # ZeroDigest
    /\ rCommitments' = [rCommitments EXCEPT ![p] =
           [q \in Quorum |-> IF q = p THEN @[p] ELSE broadcast[q]]]
    /\ tape' = [tape EXCEPT ![p] = rCommitments'[p]]
    /\ opened' = [opened EXCEPT ![p] = r[p]]
    /\ round' = [round EXCEPT ![p] = 3]
    /\ UNCHANGED <<r, broadcast, attempts, output, blamed>>

\* Mutated form: the transcript is written before the commitments are stored.
Round2_TapeBeforeStore(p) ==
    /\ round[p] = 2
    /\ \A q \in Others(p) : broadcast[q] \notin {None, ZeroDigest}
    /\ rCommitments' = [rCommitments EXCEPT ![p] =
           [q \in Quorum |-> IF q = p THEN @[p] ELSE broadcast[q]]]
    /\ tape' = [tape EXCEPT ![p] = rCommitments[p]]
    /\ opened' = [opened EXCEPT ![p] = r[p]]
    /\ round' = [round EXCEPT ![p] = 3]
    /\ UNCHANGED <<r, broadcast, attempts, output, blamed>>

Round2(p) ==
    /\ round[p] = 2
    /\ \A q \in Others(p) : broadcast[q] \notin {None, ZeroDigest}
    /\ rCommitments' = [rCommitments EXCEPT ![p] =
           [q \in Quorum |-> IF q = p THEN @[p] ELSE broadcast[q]]]
    /\ tape' = [tape EXCEPT ![p] = rCommitments'[p]]
    /\ opened' = [opened EXCEPT ![p] = r[p]]
    /\ round' = [round EXCEPT ![p] = 3]
    /\ UNCHANGED <<r, broadcast, attempts, output, blamed>>

\* Validate rejects the all-zero digest before anything is stored.
Round2Reject(p) ==
    /\ round[p] = 2
    /\ \A q \in Others(p) : broadcast[q] # None
    /\ \E q \in Others(p) :
          /\ broadcast[q] = ZeroDigest
          /\ blamed' = blamed \cup {<<p, q>>}
    /\ UNCHANGED <<round, r, rCommitments, tape, broadcast, opened, attempts, output>>

-----------------------------------------------------------------------------
\* The openings p may be handed: those of honest parties are what they sent.
HandedOpenings(p) ==
    {[q \in Others(p) |-> IF q \in Corrupt THEN forged[q]
                          ELSE [message |-> opened[q], genuine |-> TRUE]]
        : forged \in [Corrupt -> Openings]}

\* Mutated form: an opening is compared by its witness only.
Opens_WitnessOnly(commitment, opening) == opening.genuine

\* hashcom Open
Opens(commitment, opening) == opening.genuine /\ commitment = opening.message

\* r after XORing in the messages of ids.
Mix(p, ids, openings) ==
    Xor([id \in ids \cup {p} |-> IF id = p THEN r[p] ELSE openings[id].message])

Round3Ready(p) ==
    /\ round[p] = 3
    /\ attempts[p] < MaxAttempts
    /\ \A q \in Honest \ {p} : opened[q] # None

Invalid(openings) == {q \in DOMAIN openings : openings[q].message = Zero}

\* Mutated form: openings are checked against the party's own commitment.
BadOpenings_OwnCommitment(p, openings) ==
    {q \in Others(p) : ~Opens(rCommitments[p][p], openings[q])}

BadOpenings(p, openings) ==
    {q \in Others(p) : ~Opens(rCommitments[p][q], openings[q])}

\* All messages are validated before the first one is used.
Round3Reject(p, openings) ==
    /\ Invalid(openings) # {}
    /\ \E q \in Invalid(openings) : blamed' = blamed \cup {<<p, q>>}
    /\ UNCHANGED <<round, r, output>>

\* The loop stops at a bad opening; r keeps what was mixed in before it.
Round3Abort(p, openings) ==
    /\ Invalid(openings) = {}
    /\ BadOpenings(p, openings) # {}
    /\ \E before \in SUBSET (Others(p) \ BadOpenings(p, openings)) :
          r' = [r EXCEPT ![p] = Mix(p, before, openings)]
    /\ \E q \in BadOpenings(p, openings) : blamed' = blamed \cup {<<p, q>>}
    /\ UNCHANGED <<round, output>>

Round3Output(p, openings) ==
    /\ Invalid(openings) = {}
    /\ BadOpenings(p, openings) = {}
    /\ r' = [r EXCEPT ![p] = Mix(p, Others(p), openings)]
    /\ output' = [output EXCEPT ![p] = r'[p]]
    /\ round' = [round EXCEPT ![p] = 4]
    /\ UNCHANGED blamed

Round3(p) ==
    /\ Round3Ready(p)
    /\ \E openings \in HandedOpenings(p) :
          \/ Round3Reject(p, openings)
          \/ Round3Abort(p, openings)
          \/ Round3Output(p, openings)
    /\ attempts' = [attempts EXCEPT ![p] = @ + 1]
    /\ UNCHANGED <<rCommitments, tape, broadcast, opened>>

Next ==
    \/ \E p \in Honest :
          \/ \E word \in Words : Round1(p, word)
          \/ Round2(p)
          \/ Round2Reject(p)
          \/ Round3(p)
    \/ \E c \in Corrupt, commitment \in Commitments : CorruptCommit(c, commitment)

Spec == Init /\ [][Next]_vars

-----------------------------------------------------------------------------
\* Types of the state; no commitment on a transcript is missing.
TypeOK ==
    /\ round \in [Honest -> 1 .. 4]
    /\ r \in [Honest -> Words]
    /\ rCommitments \in [Honest -> [Quorum -> Commitments \cup {None}]]
    /\ tape \in [Honest -> [Quorum -> Commitments] \cup {None}]
    /\ broadcast \in [Quorum -> Commitments \cup {None}]
    /\ opened \in [Honest -> Words \cup {None}]
    /\ attempts \in [Honest -> 0 .. MaxAttempts]
    /\ output \in [Honest -> Words \cup {None}]
    /\ blamed \subseteq Honest \X Quorum

\* README of pkg/mpc/aor: "everyone outputs the XOR if and only if all openings
\* verify".  What the first call of Round3 returns is the XOR of the words the
\* commitments of round 1 were made for, so it is the same everywhere and was
\* fixed before any honest word was revealed.  A call after a failed one starts
\* from what that one mixed in, and may return something else.
OutputIsXor ==
    \A p \in Honest : output[p] # None /\ attempts[p] = 1 =>
        broadcast \in [Quorum -> Words] /\ output[p] = Xor(broadcast)

\* Parties that are past Round2 hold the same transcript, whoever was corrupt:
\* what they derive from it next agrees.
TapesAgree ==
    \A p, q \in Honest : round[p] > 2 /\ round[q] > 2 => tape[p] = tape[q]

\* A party is named in an abort only if it is corrupt or sampled the all-zero
\* word, which Validate takes for a missing message.
BlameIsJust ==
    \A b \in blamed : b[2] \in Corrupt \/ opened[b[2]] = Zero

\* No commitment an output depends on is made after an honest word was opened.
CommitBeforeOpen ==
    [][\A p \in Honest : opened[p] # None => broadcast' = broadcast]_vars
=============================================================================
