-------------------------- MODULE AgreeOnRandom_proofs --------------------------
(***************************************************************************)
(* Agree-on-random for every quorum, every set of corrupt parties and      *)
(* every sample size: transcripts agree and blame is just however often    *)
(* Round3 is called, and the output is the XOR of the committed words      *)
(* wherever Round3 is called once, as the runner does.                     *)
(*                                                                         *)
(* The invariant ties everything a party keeps to the commitments as they  *)
(* were broadcast, which do not change once made.                          *)
(***************************************************************************)
EXTENDS AgreeOnRandom, FiniteSetTheorems, TLAPS

\* A commitment is there from Round1 on, and is to the party's own word.
Committed ==
    \A p \in Honest :
        /\ round[p] = 1 <=> broadcast[p] = None
        /\ round[p] > 1 => broadcast[p] \in Words /\ rCommitments[p][p] = broadcast[p]
        /\ opened[p] # None => opened[p] = broadcast[p]

\* r is the party's own word until its first Round3.
OwnWord ==
    \A p \in Honest :
        /\ attempts[p] > 0 => round[p] > 2
        /\ round[p] \in {2, 3} /\ attempts[p] = 0 => r[p] = broadcast[p]
        /\ round[p] = 4 => attempts[p] > 0
        /\ output[p] # None => round[p] = 4

\* From Round2 on a party holds everybody's commitment, as broadcast.
Recorded ==
    \A p \in Honest : round[p] > 2 =>
        /\ \A q \in Quorum : broadcast[q] # None /\ rCommitments[p][q] = broadcast[q]
        /\ tape[p] = broadcast

IInv == TypeOK /\ Committed /\ OwnWord /\ Recorded /\ BlameIsJust

-----------------------------------------------------------------------------
LEMMA InitIInv == Init => IInv
  <1> SUFFICES ASSUME Init PROVE IInv
    OBVIOUS
  <1>1. TypeOK
    BY AorAssumption DEF Init, TypeOK, Words, Zero
  <1>2. Committed /\ OwnWord /\ Recorded /\ BlameIsJust
    BY DEF Init, Committed, OwnWord, Recorded, BlameIsJust, Honest
  <1> QED
    BY <1>1, <1>2 DEF IInv

LEMMA WordFacts ==
    /\ None \notin Words /\ ZeroDigest \notin Words /\ Unopenable \notin Words
    /\ None \notin Commitments /\ Words \subseteq Commitments
    /\ Zero \in Words
    /\ Honest \subseteq Quorum
  BY AorAssumption DEF Words, Commitments, Zero, Honest

\* A value that is already committed to is not changed by any step.
LEMMA Round1Step ==
    ASSUME IInv, NEW p \in Honest, NEW word \in Words, Round1(p, word)
    PROVE  IInv'
  <1> USE WordFacts
  <1>1. /\ round[p] = 1 /\ round'[p] = 2 /\ r'[p] = word /\ broadcast'[p] = word
        /\ rCommitments'[p][p] = word /\ broadcast[p] = None
        /\ \A q \in Honest \ {p} : /\ round'[q] = round[q] /\ r'[q] = r[q]
                                   /\ rCommitments'[q] = rCommitments[q]
        /\ \A q \in Quorum \ {p} : broadcast'[q] = broadcast[q]
        /\ tape' = tape /\ opened' = opened /\ attempts' = attempts
        /\ output' = output /\ blamed' = blamed
    BY DEF Round1, IInv, TypeOK, Committed
  <1>2. TypeOK'
    BY DEF Round1, IInv, TypeOK
  <1>3. Committed' /\ OwnWord' /\ BlameIsJust'
    BY <1>1 DEF IInv, TypeOK, Committed, OwnWord, BlameIsJust
  <1>4. Recorded'
    BY <1>1 DEF IInv, TypeOK, Recorded
  <1> QED
    BY <1>2, <1>3, <1>4 DEF IInv

LEMMA CorruptCommitStep ==
    ASSUME IInv, NEW c \in Corrupt, NEW commitment \in Commitments,
           CorruptCommit(c, commitment)
    PROVE  IInv'
  <1> USE WordFacts
  <1>1. /\ \A q \in Quorum \ {c} : broadcast'[q] = broadcast[q]
        /\ broadcast[c] = None /\ c \notin Honest /\ c \in Quorum
    BY AorAssumption DEF CorruptCommit, IInv, TypeOK, Honest
  <1>2. TypeOK'
    BY AorAssumption DEF CorruptCommit, IInv, TypeOK
  <1>3. Committed' /\ OwnWord' /\ BlameIsJust'
    BY <1>1 DEF CorruptCommit, IInv, TypeOK, Committed, OwnWord, BlameIsJust
  <1>4. Recorded'
    BY <1>1 DEF CorruptCommit, IInv, Recorded
  <1> QED
    BY <1>2, <1>3, <1>4 DEF IInv

LEMMA Round2Step ==
    ASSUME IInv, NEW p \in Honest, Round2(p)
    PROVE  IInv'
  <1> USE WordFacts
  <1>1. /\ round[p] = 2 /\ round'[p] = 3 /\ attempts[p] = 0
        /\ broadcast[p] \in Words /\ rCommitments[p][p] = broadcast[p]
        /\ r[p] = broadcast[p] /\ opened'[p] = broadcast[p]
        /\ \A q \in Honest \ {p} :
              /\ round'[q] = round[q] /\ opened'[q] = opened[q] /\ tape'[q] = tape[q]
              /\ rCommitments'[q] = rCommitments[q]
        /\ r' = r /\ broadcast' = broadcast /\ attempts' = attempts
        /\ output' = output /\ blamed' = blamed
    BY DEF Round2, IInv, TypeOK, Committed, OwnWord
  <1>2. \A q \in Quorum : broadcast[q] # None /\ rCommitments'[p][q] = broadcast[q]
    BY <1>1 DEF Round2, IInv, TypeOK, Others
  <1>3. rCommitments' \in [Honest -> [Quorum -> Commitments \cup {None}]]
    BY DEF Round2, IInv, TypeOK, Others
  <1>4. tape'[p] = broadcast /\ broadcast \in [Quorum -> Commitments]
    <2>1. tape'[p] = rCommitments'[p]
      BY DEF Round2, IInv, TypeOK
    <2> QED
      BY <1>2, <1>3, <2>1 DEF IInv, TypeOK
  <1>5. TypeOK'
    <2>1. tape' \in [Honest -> [Quorum -> Commitments] \cup {None}]
      <3>1. tape' = [tape EXCEPT ![p] = rCommitments'[p]]
        BY DEF Round2
      <3>2. rCommitments'[p] \in [Quorum -> Commitments]
        BY <1>2, <1>3, <1>4
      <3> QED
        BY <3>1, <3>2 DEF IInv, TypeOK
    <2> QED
      BY <1>3, <2>1 DEF Round2, IInv, TypeOK
  <1>6. Committed' /\ OwnWord'
    BY <1>1, <1>2 DEF IInv, TypeOK, Committed, OwnWord
  <1>7. BlameIsJust'
    <2>1. opened[p] \in {None, opened'[p]}
      BY <1>1 DEF IInv, Committed
    <2>2. \A b \in blamed : b[2] \in Quorum
      BY DEF IInv, TypeOK
    <2> QED
      BY <1>1, <2>1, <2>2 DEF IInv, BlameIsJust, Honest
  <1>8. Recorded'
    BY <1>1, <1>2, <1>4 DEF IInv, TypeOK, Recorded
  <1> QED
    BY <1>5, <1>6, <1>7, <1>8 DEF IInv

LEMMA Round2RejectStep ==
    ASSUME IInv, NEW p \in Honest, Round2Reject(p)
    PROVE  IInv'
  <1>1. PICK q \in Others(p) : broadcast[q] = ZeroDigest /\ blamed' = blamed \cup {<<p, q>>}
    BY DEF Round2Reject
  <1>2. q \in Corrupt /\ q \in Quorum
    <2>1. q \in Honest => broadcast[q] # ZeroDigest
      BY WordFacts, AorAssumption DEF IInv, TypeOK, Committed
    <2> QED
      BY <1>1, <2>1 DEF Others, Honest
  <1> QED
    BY <1>1, <1>2
    DEF Round2Reject, IInv, TypeOK, Committed, OwnWord, Recorded, BlameIsJust

\* What an honest party is handed as the opening of another honest party.
LEMMA HandedHonest ==
    ASSUME IInv, NEW p \in Honest, Round3Ready(p),
           NEW openings \in HandedOpenings(p), NEW q \in Honest \ {p}
    PROVE  /\ openings[q].message = opened[q] /\ openings[q].genuine = TRUE
           /\ q \notin BadOpenings(p, openings)
  <1>1. /\ openings[q] = [message |-> opened[q], genuine |-> TRUE]
    BY DEF HandedOpenings, Others, Honest
  <1>2. opened[q] = broadcast[q] /\ rCommitments[p][q] = broadcast[q]
    BY DEF Round3Ready, IInv, Committed, Recorded, Honest
  <1> QED
    BY <1>1, <1>2 DEF BadOpenings, Opens

\* Every opening Round3 is handed carries a word.
LEMMA MessageType ==
    ASSUME IInv, NEW p \in Honest, Round3Ready(p), NEW openings \in HandedOpenings(p),
           NEW q \in Others(p)
    PROVE  openings[q].message \in Words
  <1>1. CASE q \in Corrupt
    BY <1>1 DEF HandedOpenings, Openings
  <1>2. CASE q \in Honest \ {p}
    <2>1. opened[q] \in Words
      BY <1>2 DEF Round3Ready, IInv, TypeOK
    <2> QED
      BY <1>2, <2>1, HandedHonest
  <1> QED
    BY <1>1, <1>2 DEF Others, Honest

LEMMA MixType ==
    ASSUME NEW p, NEW ids, NEW openings,
           IsFiniteSet(Quorum), ids \cup {p} \subseteq Quorum
    PROVE  Mix(p, ids, openings) \in Words
  <1> DEFINE f == [id \in ids \cup {p} |-> IF id = p THEN r[p] ELSE openings[id].message]
  <1>1. \A b \in Bits : Cardinality({id \in DOMAIN f : f[id][b] = 1}) \in Nat
    <2> SUFFICES ASSUME NEW b \in Bits
                 PROVE  Cardinality({id \in DOMAIN f : f[id][b] = 1}) \in Nat
      OBVIOUS
    <2>1. {id \in DOMAIN f : f[id][b] = 1} \subseteq Quorum
      OBVIOUS
    <2> QED
      BY <2>1, FS_Subset, FS_CardinalityType
  <1>2. \A n \in Nat : n % 2 \in {0, 1}
    OBVIOUS
  <1> QED
    BY <1>1, <1>2 DEF Mix, Xor, Words

LEMMA Round3Step ==
    ASSUME IInv, NEW p \in Honest, Round3(p)
    PROVE  IInv'
  <1> USE WordFacts
  <1>1. PICK openings \in HandedOpenings(p) :
           \/ Round3Reject(p, openings)
           \/ Round3Abort(p, openings)
           \/ Round3Output(p, openings)
    BY DEF Round3
  <1>2. /\ round[p] = 3 /\ attempts'[p] = attempts[p] + 1 /\ attempts[p] \in Nat
        /\ attempts' \in [Honest -> 0 .. MaxAttempts]
        /\ \A q \in Honest \ {p} : attempts'[q] = attempts[q]
        /\ rCommitments' = rCommitments /\ tape' = tape
        /\ broadcast' = broadcast /\ opened' = opened
    BY AorAssumption DEF Round3, Round3Ready, IInv, TypeOK
  <1>3. /\ \A ids \in SUBSET Others(p) : Mix(p, ids, openings) \in Words
    BY MixType, AorAssumption DEF Others, Honest
  <1>4. /\ r' \in [Honest -> Words] /\ output' \in [Honest -> Words \cup {None}]
        /\ \A q \in Honest \ {p} : /\ r'[q] = r[q] /\ output'[q] = output[q]
                                   /\ round'[q] = round[q]
        /\ \/ round' = round /\ output' = output
           \/ round'[p] = 4 /\ round' \in [Honest -> 1 .. 4]
    <2>1. CASE Round3Reject(p, openings)
      BY <2>1 DEF Round3Reject, IInv, TypeOK
    <2>2. CASE Round3Abort(p, openings)
      BY <1>3, <2>2 DEF Round3Abort, IInv, TypeOK
    <2>3. CASE Round3Output(p, openings)
      BY <1>3, <2>3 DEF Round3Output, IInv, TypeOK
    <2> QED
      BY <1>1, <2>1, <2>2, <2>3
  <1>5. \A q \in Invalid(openings) \cup BadOpenings(p, openings) :
           q \in Quorum /\ (q \in Corrupt \/ opened[q] = Zero)
    <2> SUFFICES ASSUME NEW q \in Invalid(openings) \cup BadOpenings(p, openings)
                 PROVE  q \in Quorum /\ (q \in Corrupt \/ opened[q] = Zero)
      OBVIOUS
    <2>1. q \in Others(p)
      BY DEF Invalid, BadOpenings, HandedOpenings
    <2>2. CASE q \in Honest
      BY <2>1, <2>2, HandedHonest DEF Round3, Invalid, Others
    <2> QED
      BY <2>1, <2>2 DEF Others, Honest
  <1>6. blamed' = blamed \/ \E q \in Invalid(openings) \cup BadOpenings(p, openings) :
                               blamed' = blamed \cup {<<p, q>>}
    BY <1>1 DEF Round3Reject, Round3Abort, Round3Output
  <1>7. TypeOK'
    BY <1>2, <1>4, <1>5, <1>6 DEF IInv, TypeOK
  <1>8. BlameIsJust'
    BY <1>2, <1>5, <1>6 DEF IInv, BlameIsJust
  <1>9. Committed'
    BY <1>2, <1>4 DEF IInv, Committed
  <1>10. OwnWord'
    BY <1>2, <1>4 DEF IInv, OwnWord
  <1>11. Recorded'
    BY <1>2, <1>4 DEF IInv, Recorded
  <1> QED
    BY <1>7, <1>8, <1>9, <1>10, <1>11 DEF IInv

LEMMA IInvStep == IInv /\ [Next]_vars => IInv'
  <1> SUFFICES ASSUME IInv, [Next]_vars PROVE IInv'
    OBVIOUS
  <1>1. CASE UNCHANGED vars
    BY <1>1 DEF vars, IInv, TypeOK, Committed, OwnWord, Recorded, BlameIsJust
  <1> QED
    BY <1>1, Round1Step, CorruptCommitStep, Round2Step, Round2RejectStep, Round3Step
    DEF Next

LEMMA IInvHolds == Spec => []IInv
  BY InitIInv, IInvStep, PTL DEF Spec

-----------------------------------------------------------------------------
\* Parties past Round2 wrote the same commitments to their transcripts,
\* whoever is corrupt and however often Round3 is called.
THEOREM TapesAgreeHolds == Spec => []TapesAgree
  <1>1. IInv => TapesAgree
    BY DEF IInv, TapesAgree, Recorded
  <1> QED
    BY <1>1, IInvHolds, PTL

\* Every party named in an abort is corrupt, or drew the all-zero word.
THEOREM BlameIsJustHolds == Spec => []BlameIsJust
  <1>1. IInv => BlameIsJust
    BY DEF IInv
  <1> QED
    BY <1>1, IInvHolds, PTL

\* Commitments are final once somebody holds all of them.
LEMMA BroadcastFinal ==
    ASSUME IInv, [Next]_vars, NEW p \in Honest, round[p] > 2
    PROVE  broadcast' = broadcast
  <1>1. \A q \in Quorum : broadcast[q] # None
    BY DEF IInv, Recorded
  <1>2. \A q \in Honest : round[q] # 1
    BY <1>1, WordFacts DEF IInv, Committed
  <1>3. \A c \in Corrupt : broadcast[c] # None
    BY <1>1, AorAssumption
  <1> QED
    BY <1>2, <1>3
    DEF Next, vars, Round1, CorruptCommit, Round2, Round2Reject, Round3

LEMMA OutputStep ==
    ASSUME IInv, OutputIsXor, [Next]_vars
    PROVE  OutputIsXor'
  <1> SUFFICES ASSUME NEW p \in Honest, output'[p] # None, attempts'[p] = 1
               PROVE  broadcast' \in [Quorum -> Words] /\ output'[p] = Xor(broadcast')
    BY DEF OutputIsXor
  <1>1. CASE output'[p] = output[p]
    <2>1. round[p] = 4
      BY <1>1 DEF IInv, OwnWord
    <2>2. attempts[p] = 1
      BY <2>1 DEF Next, vars, Round1, CorruptCommit, Round2, Round2Reject, Round3, Round3Ready,
                  IInv, TypeOK
    <2>3. broadcast \in [Quorum -> Words] /\ output[p] = Xor(broadcast)
      BY <1>1, <2>2 DEF OutputIsXor
    <2>4. broadcast' = broadcast
      BY <2>1, BroadcastFinal
    <2> QED
      BY <1>1, <2>3, <2>4
  <1>2. CASE output'[p] # output[p]
    <2>1. PICK q \in Honest : Round3(q)
      BY <1>2 DEF Next, vars, Round1, CorruptCommit, Round2, Round2Reject
    <2>2. PICK openings \in HandedOpenings(q) : Round3Output(q, openings)
      BY <1>2, <2>1 DEF Round3, Round3Reject, Round3Abort
    <2>3. p = q /\ output'[p] = Mix(p, Others(p), openings)
      BY <1>2, <2>2 DEF Round3Output, IInv, TypeOK
    <2>4. attempts[p] = 0
      <3>1. attempts' = [attempts EXCEPT ![p] = @ + 1]
        BY <2>1, <2>3 DEF Round3
      <3>2. attempts \in [Honest -> 0 .. MaxAttempts]
        BY DEF IInv, TypeOK
      <3>3. attempts[p] \in Nat /\ attempts'[p] = attempts[p] + 1
        BY <3>1, <3>2, AorAssumption
      <3> QED
        BY <3>3
    <2>5. /\ r[p] = broadcast[p]
          /\ \A id \in Quorum : rCommitments[p][id] = broadcast[id]
          /\ broadcast' = broadcast
      BY <2>1, <2>3, <2>4
      DEF Round3, Round3Ready, IInv, TypeOK, OwnWord, Recorded
    <2>6. \A id \in Others(p) : openings[id].message = broadcast[id]
      BY <2>2, <2>3, <2>5 DEF Round3Output, BadOpenings, Opens, Others
    <2>7. Others(p) \cup {p} = Quorum
      BY DEF Others, Honest
    <2>8. [id \in Quorum |-> IF id = p THEN r[p] ELSE openings[id].message] = broadcast
      BY <2>5, <2>6 DEF IInv, TypeOK, Others
    <2>9. broadcast \in [Quorum -> Words]
      <3>1. /\ r[p] \in Words
            /\ \A id \in Others(p) : openings[id].message \in Words
        BY <2>1, <2>3, MessageType DEF IInv, TypeOK, Round3
      <3> QED
        BY <2>5, <2>6, <2>7, <3>1 DEF IInv, TypeOK
    <2> QED
      BY <2>3, <2>5, <2>7, <2>8, <2>9 DEF Mix
  <1> QED
    BY <1>1, <1>2

\* Where Round3 was called once, which is what the runner does, the output is the
\* XOR of the words committed to in round 1, whoever is corrupt.
THEOREM OutputIsXorHolds == Spec => []OutputIsXor
  <1>1. Init => OutputIsXor
    BY DEF Init, OutputIsXor
  <1>2. IInv /\ OutputIsXor /\ [Next]_vars => OutputIsXor'
    BY OutputStep
  <1> QED
    BY <1>1, <1>2, IInvHolds, PTL DEF Spec

-----------------------------------------------------------------------------
\* Only Round2 opens, and by then every commitment has been delivered.
OpenedPastRound2 == \A p \in Honest : opened[p] # None => round[p] > 2

LEMMA OpenedPastRound2Holds == Spec => [](IInv /\ OpenedPastRound2)
  <1>1. Init => OpenedPastRound2
    BY DEF Init, OpenedPastRound2
  <1>2. IInv /\ OpenedPastRound2 /\ [Next]_vars => OpenedPastRound2'
    <2> SUFFICES ASSUME IInv, OpenedPastRound2, [Next]_vars
                 PROVE  OpenedPastRound2'
      OBVIOUS
    <2> USE DEF IInv, TypeOK, OpenedPastRound2
    <2>1. ASSUME NEW p \in Honest, NEW word \in Words, Round1(p, word)
          PROVE  OpenedPastRound2'
      BY <2>1 DEF Round1
    <2>2. ASSUME NEW p \in Honest, Round2(p)
          PROVE  OpenedPastRound2'
      BY <2>2 DEF Round2
    <2>3. ASSUME NEW p \in Honest, Round2Reject(p)
          PROVE  OpenedPastRound2'
      BY <2>3 DEF Round2Reject
    <2>4. ASSUME NEW p \in Honest, Round3(p)
          PROVE  OpenedPastRound2'
      <3>1. opened' = opened /\ \A q \in Honest : round'[q] = round[q] \/ round'[q] = 4
        BY <2>4 DEF Round3, Round3Reject, Round3Abort, Round3Output
      <3> QED
        BY <3>1
    <2>5. ASSUME NEW c \in Corrupt, NEW commitment \in Commitments,
                 CorruptCommit(c, commitment)
          PROVE  OpenedPastRound2'
      BY <2>5 DEF CorruptCommit
    <2>6. CASE UNCHANGED vars
      BY <2>6 DEF vars
    <2> QED
      BY <2>1, <2>2, <2>3, <2>4, <2>5, <2>6 DEF Next
  <1> QED
    BY <1>1, <1>2, IInvHolds, PTL DEF Spec

\* No commitment is made after an honest word was opened: Round2 waits for all
\* of them, so no contribution can be chosen with knowledge of an honest one.
THEOREM CommitBeforeOpenHolds == Spec => CommitBeforeOpen
  <1>1. ASSUME IInv, OpenedPastRound2, [Next]_vars, NEW p \in Honest, opened[p] # None
        PROVE  broadcast' = broadcast
    <2>1. \A q \in Quorum : broadcast[q] # None
      BY <1>1 DEF OpenedPastRound2, IInv, Recorded
    <2>2. ASSUME NEW q \in Honest, NEW word \in Words, Round1(q, word)
          PROVE  FALSE
      BY <1>1, <2>1, <2>2 DEF IInv, Committed, Round1, Honest
    <2>3. ASSUME NEW c \in Corrupt, NEW commitment \in Commitments,
                 CorruptCommit(c, commitment)
          PROVE  FALSE
      BY <2>1, <2>3, AorAssumption DEF CorruptCommit
    <2> QED
      BY <1>1, <2>2, <2>3 DEF Next, Round2, Round2Reject, Round3, vars
  <1>2. IInv /\ OpenedPastRound2 /\ [Next]_vars =>
            [\A p \in Honest : opened[p] # None => broadcast' = broadcast]_vars
    BY <1>1
  <1> QED
    BY <1>2, OpenedPastRound2Holds, PTL DEF Spec, CommitBeforeOpen
=============================================================================
