------------------------- MODULE KeyProtocols_proofs -------------------------
(***************************************************************************)
(* The protocols on keys, for every quorum, every set of corrupt parties,  *)
(* every monotone access structure and every bound on the calls of a       *)
(* round.  Canetti's DKG outputs the sum of all contributions, and a wrong *)
(* party is named only after a repeated call; Gennaro's DKG outputs the    *)
(* key committed to in round 1 and names a corrupt party in every abort.   *)
(* The zero sharings cancel, and redistribution keeps the key.  Who names  *)
(* an honest party in a redistribution has it from a corrupt anchor; who   *)
(* names one in a signing repeated a round, or its victim did.  What a     *)
(* DKLS23 cosigner signs, it signs once.                                   *)
(*                                                                         *)
(* Each protocol has an inductive invariant of its own; a step of the      *)
(* composition is a step of the protocol that runs.                        *)
(***************************************************************************)
EXTENDS KeyProtocols, Integers, FiniteSetTheorems, WellFoundedInduction, TLAPS


\* A loop over the other parties stops at a member of the set it looks for.
LEMMA FirstIsMember ==
    ASSUME NEW S \in SUBSET Quorum, S # {}
    PROVE  (CHOOSE q \in S : \A other \in S : q <= other) \in S
  <1> DEFINE less == {pair \in Nat \X Nat : pair[1] < pair[2]}
  <1>1. IsWellFoundedOn(less, Nat)
    BY NatLessThanWellFounded DEF OpToRel
  <1>2. S \subseteq Nat
    BY DealingsAssumption
  <1>3. \E q \in S : \A other \in S : <<other, q>> \notin less
    <2> HIDE DEF less
    <2> QED
      BY <1>1, <1>2, WFMin
  <1>4. PICK q \in S : \A other \in S : <<other, q>> \notin less
    BY <1>3
  <1>5. ASSUME NEW other \in S PROVE q <= other
    <2>1. <<other, q>> \in Nat \X Nat /\ <<other, q>> \notin less
      BY <1>2, <1>4
    <2>2. ~(other < q)
      BY <2>1
    <2> QED
      BY <1>2, <2>2
  <1> QED
    BY <1>5

-----------------------------------------------------------------------------
(***************************************************************************)
(* Canetti's DKG.                                                          *)
(***************************************************************************)
\* A digest of an honest party is never the empty one.
CanettiDigests == \A p \in Honest : committed[p] \in {"none", "sealed"}

\* A share is complete once Round3 returned, however often it was called.
CanettiShares ==
    \A p \in Honest :
        /\ round[p] >= 4 => share[p] = Once
        /\ shard[p] # None => round[p] = 5 /\ shard[p] = Once

\* What p alone contributes.
Alone(p) == [q \in Quorum |-> IF q = p THEN 1 ELSE 0]

\* Until Round3 is called again, rho and the vector hold each party once.
CanettiSums ==
    \A p \in Honest :
        /\ round[p] \in {2, 3} /\ calls[p][3] = 0 =>
              verificationVector[p] = Alone(p) /\ rho[p] = Alone(p)
        /\ round[p] >= 4 /\ calls[p][3] <= 1 =>
              verificationVector[p] = Once /\ rho[p] = Once
        /\ round[p] <= 2 => calls[p][3] = 0
        /\ round[p] >= 4 => calls[p][3] >= 1

\* A proof is made under the rho its maker keeps; a verifier's transcript is
\* written to by Round4 only.
CanettiProofs ==
    \A p \in Honest :
        /\ proof[p] # None => round[p] >= 4 /\ proof[p] = rho[p]
        /\ spent[p] # {} => calls[p][4] >= 1

CanettiInv ==
    /\ Canetti!TypeOK
    /\ CanettiDigests
    /\ CanettiShares
    /\ CanettiSums
    /\ CanettiProofs
    /\ Canetti!BlameIsJust

LEMMA CanettiInit == Canetti!Init => CanettiInv
  <1> SUFFICES ASSUME Canetti!Init PROVE CanettiInv
    OBVIOUS
  <1> USE DealingsAssumption DEF Canetti!Init, Canetti!Honest, Honest, Canetti!Nothing
  <1>1. Canetti!TypeOK
    BY DEF Canetti!TypeOK
  <1>2. CanettiDigests /\ CanettiShares /\ CanettiSums /\ CanettiProofs
    BY DEF CanettiDigests, CanettiShares, CanettiSums, CanettiProofs
  <1>3. Canetti!BlameIsJust
    BY DEF Canetti!BlameIsJust
  <1> QED
    BY <1>1, <1>2, <1>3 DEF CanettiInv
\* What an honest party sends to Round3 and Round4 is found right, except for a
\* proof that does not verify.
LEMMA CanettiHanded ==
    ASSUME NEW p \in Honest
    PROVE  /\ \A found \in Canetti!Handed3(p) :
                 /\ DOMAIN found = Quorum \ {p}
                 /\ \A q \in Honest \ {p} : found[q] = "right"
           /\ \A found \in Canetti!Handed4(p) :
                 /\ DOMAIN found = Quorum \ {p}
                 /\ \A q \in Honest \ {p} :
                       found[q] = IF Canetti!Verifies(p, q) THEN "right" ELSE "refuted"
  BY DEF Canetti!Handed3, Canetti!Handed4, Canetti!Others, Honest

\* Whoever is named for a fault that honest parties do not have is corrupt.
LEMMA CulpritIsCorrupt ==
    ASSUME NEW p \in Honest, NEW found, DOMAIN found = Quorum \ {p}, NEW fault,
           \A q \in Honest \ {p} : found[q] # fault,
           Canetti!With(found, fault) # {}
    PROVE  /\ Canetti!First(Canetti!With(found, fault)) \in Corrupt
           /\ Canetti!First(Canetti!With(found, fault)) \in Quorum
  <1>1. Canetti!With(found, fault) \in SUBSET (Corrupt \cap Quorum)
    BY DEF Canetti!With, Honest
  <1>2. Canetti!First(Canetti!With(found, fault)) \in Canetti!With(found, fault)
    BY <1>1, FirstIsMember DEF Canetti!First
  <1> QED
    BY <1>1, <1>2

\* Formal sums stay formal sums.
LEMMA CanettiSumTypes ==
    /\ \A sum \in [Quorum -> Nat] : \A ids : Canetti!Add(sum, ids) \in [Quorum -> Nat]
    /\ \A sum \in [Quorum -> {0, 1}] : \A ids : Canetti!Xor(sum, ids) \in [Quorum -> {0, 1}]
  BY DEF Canetti!Add, Canetti!Xor

\* A party's own contribution and those of all others make everybody's.
LEMMA CanettiCompletes ==
    ASSUME NEW p \in Quorum
    PROVE  /\ Canetti!Add(Alone(p), Canetti!Others(p)) = Once
           /\ Canetti!Xor(Alone(p), Canetti!Others(p)) = Once
           /\ Canetti!Add(Canetti!Nothing, {p}) = Alone(p)
           /\ Canetti!Xor(Canetti!Nothing, {p}) = Alone(p)
           /\ Alone(p) \in [Quorum -> Nat] /\ Alone(p) \in [Quorum -> {0, 1}]
  BY DEF Alone, Canetti!Add, Canetti!Xor, Canetti!Nothing, Canetti!Others, Once

LEMMA CanettiRound1 ==
    ASSUME CanettiInv, NEW p \in Honest, Canetti!Round1(p)
    PROVE  CanettiInv'
  <1> USE DealingsAssumption DEF CanettiInv, Canetti!TypeOK, Honest, Canetti!Honest
  <1>1. Alone(p) \in [Quorum -> Nat] /\ Alone(p) \in [Quorum -> {0, 1}]
    BY CanettiCompletes
  <1>2. /\ round[p] = 1 /\ round' = [round EXCEPT ![p] = 2]
        /\ verificationVector' = [verificationVector EXCEPT ![p] = Alone(p)]
        /\ rho' = [rho EXCEPT ![p] = Alone(p)]
        /\ committed' = [committed EXCEPT ![p] = "sealed"]
        /\ UNCHANGED <<opened, share, proof, spent, shard, calls, blamed, untagged>>
    BY CanettiCompletes DEF Canetti!Round1
  <1>3. Canetti!TypeOK'
    BY <1>1, <1>2
  <1>4. CanettiDigests' /\ CanettiShares' /\ CanettiProofs'
    BY <1>2 DEF CanettiDigests, CanettiShares, CanettiProofs
  <1>5. CanettiSums'
    <2>1. /\ round'[p] = 2 /\ verificationVector'[p] = Alone(p) /\ rho'[p] = Alone(p)
          /\ calls' = calls /\ calls[p][3] = 0
          /\ \A q \in Honest \ {p} :
                /\ round'[q] = round[q] /\ rho'[q] = rho[q]
                /\ verificationVector'[q] = verificationVector[q]
      BY <1>2 DEF CanettiSums
    <2> QED
      BY <2>1 DEF CanettiSums
  <1>6. Canetti!BlameIsJust'
    BY <1>2 DEF Canetti!BlameIsJust
  <1> QED
    BY <1>3, <1>4, <1>5, <1>6

LEMMA CanettiCorruptCommit ==
    ASSUME CanettiInv, NEW c \in Corrupt, NEW digest \in {"empty", "sealed"},
           Canetti!CorruptCommit(c, digest)
    PROVE  CanettiInv'
  <1> USE DealingsAssumption
          DEF CanettiInv, Canetti!TypeOK, Canetti!CorruptCommit, Honest, Canetti!Honest
  <1>1. Canetti!TypeOK'
    OBVIOUS
  <1>2. CanettiDigests' /\ CanettiShares' /\ CanettiProofs' /\ CanettiSums'
    BY DEF CanettiDigests, CanettiShares, CanettiProofs, CanettiSums
  <1>3. Canetti!BlameIsJust'
    BY DEF Canetti!BlameIsJust
  <1> QED
    BY <1>1, <1>2, <1>3

LEMMA CanettiRound2 ==
    ASSUME CanettiInv, NEW p \in Honest, Canetti!Round2(p) \/ Canetti!Round2Reject(p)
    PROVE  CanettiInv'
  <1> USE DealingsAssumption DEF CanettiInv, Canetti!TypeOK, Honest, Canetti!Honest
  <1>1. CASE Canetti!Round2(p)
    <2> USE <1>1 DEF Canetti!Round2
    <2>1. Canetti!TypeOK'
      OBVIOUS
    <2>2. CanettiDigests' /\ CanettiShares' /\ CanettiProofs' /\ CanettiSums'
      BY DEF CanettiDigests, CanettiShares, CanettiProofs, CanettiSums
    <2>3. Canetti!BlameIsJust'
      BY DEF Canetti!BlameIsJust
    <2> QED
      BY <2>1, <2>2, <2>3
  <1>2. CASE Canetti!Round2Reject(p)
    <2> DEFINE empty == {q \in Canetti!Others(p) : committed[q] = "empty"}
    <2>1. /\ empty # {}
          /\ blamed' = blamed \cup {<<p, Canetti!First(empty)>>}
          /\ UNCHANGED <<round, committed, opened, verificationVector, rho, share, proof,
                         spent, shard, calls, untagged>>
      BY <1>2 DEF Canetti!Round2Reject
    <2>2. empty \in SUBSET (Corrupt \cap Quorum)
      BY DEF CanettiDigests, Canetti!Others
    <2>3. Canetti!First(empty) \in empty
      BY <2>1, <2>2, FirstIsMember DEF Canetti!First
    <2>4. PICK culprit \in Corrupt : blamed' = blamed \cup {<<p, culprit>>}
      BY <2>1, <2>2, <2>3
    <2>5. Canetti!TypeOK'
      BY <2>1, <2>4
    <2>6. CanettiDigests' /\ CanettiShares' /\ CanettiProofs' /\ CanettiSums'
      BY <2>1 DEF CanettiDigests, CanettiShares, CanettiProofs, CanettiSums
    <2>7. Canetti!BlameIsJust'
      BY <2>1, <2>4 DEF Canetti!BlameIsJust
    <2> QED
      BY <2>5, <2>6, <2>7
  <1> QED
    BY <1>1, <1>2
\* Round3 returns or fails; the sums are extended either way.
LEMMA CanettiRound3 ==
    ASSUME CanettiInv, NEW p \in Honest, Canetti!Round3(p)
    PROVE  CanettiInv'
  <1> USE DealingsAssumption DEF CanettiInv, Canetti!TypeOK, Honest, Canetti!Honest
  <1>1. PICK found \in Canetti!Handed3(p) :
           \/ Canetti!Round3Reject(p, found)
           \/ Canetti!Round3Abort(p, found)
           \/ Canetti!Round3Respond(p, found)
    BY DEF Canetti!Round3
  <1>2. /\ round[p] = 3 /\ calls[p][3] < MaxCalls
        /\ calls' = [calls EXCEPT ![p][3] = @ + 1]
        /\ UNCHANGED <<committed, opened, spent, shard, untagged>>
    BY DEF Canetti!Round3, Canetti!Ready3
  <1>3. /\ calls'[p][3] = calls[p][3] + 1 /\ calls'[p][4] = calls[p][4]
        /\ \A q \in Honest \ {p} : calls'[q] = calls[q]
        /\ calls' \in [Honest -> [{3, 4} -> 0 .. MaxCalls]]
    BY <1>2
  <1>4. ASSUME NEW culprit \in Corrupt, blamed' = blamed \cup {<<p, culprit>>},
               UNCHANGED <<round, share, proof>>,
               verificationVector' \in [Honest -> [Quorum -> Nat]],
               rho' \in [Honest -> [Quorum -> {0, 1}]],
               \A q \in Honest \ {p} : /\ verificationVector'[q] = verificationVector[q]
                                       /\ rho'[q] = rho[q]
        PROVE  CanettiInv'
    <2>1. Canetti!TypeOK'
      BY <1>2, <1>3, <1>4
    <2>2. CanettiDigests' /\ CanettiShares'
      BY <1>2, <1>4 DEF CanettiDigests, CanettiShares
    <2>3. CanettiSums'
      BY <1>2, <1>3, <1>4 DEF CanettiSums
    <2>4. CanettiProofs'
      BY <1>2, <1>3, <1>4 DEF CanettiProofs
    <2>5. Canetti!BlameIsJust'
      BY <1>2, <1>3, <1>4 DEF Canetti!BlameIsJust
    <2> QED
      BY <2>1, <2>2, <2>3, <2>4, <2>5
  <1>5. CASE Canetti!Round3Reject(p, found)
    <2>1. PICK culprit \in Corrupt : blamed' = blamed \cup {<<p, culprit>>}
      BY <1>5, CanettiHanded, CulpritIsCorrupt DEF Canetti!Round3Reject
    <2>2. UNCHANGED <<round, verificationVector, rho, share, proof>>
      BY <1>5 DEF Canetti!Round3Reject
    <2> QED
      BY <1>4, <2>1, <2>2
  <1>6. CASE Canetti!Round3Abort(p, found)
    <2> DEFINE culprit == Canetti!First(Canetti!With(found, "refuted"))
    <2>1. culprit \in Corrupt
      BY <1>6, CanettiHanded, CulpritIsCorrupt DEF Canetti!Round3Abort
    <2>2. /\ verificationVector' = [verificationVector EXCEPT
                ![p] = Canetti!Add(verificationVector[p], Canetti!Before(p, culprit))]
          /\ rho' = [rho EXCEPT ![p] = Canetti!Xor(rho[p], Canetti!Before(p, culprit))]
          /\ blamed' = blamed \cup {<<p, culprit>>}
          /\ UNCHANGED <<round, share, proof>>
      BY <1>6 DEF Canetti!Round3Abort
    <2>3. /\ Canetti!Add(verificationVector[p], Canetti!Before(p, culprit)) \in [Quorum -> Nat]
          /\ Canetti!Xor(rho[p], Canetti!Before(p, culprit)) \in [Quorum -> {0, 1}]
      BY CanettiSumTypes
    <2>4. /\ verificationVector' \in [Honest -> [Quorum -> Nat]]
          /\ rho' \in [Honest -> [Quorum -> {0, 1}]]
          /\ \A q \in Honest \ {p} : /\ verificationVector'[q] = verificationVector[q]
                                     /\ rho'[q] = rho[q]
      BY <2>2, <2>3
    <2> QED
      BY <1>4, <2>1, <2>2, <2>4
  <1>7. CASE Canetti!Round3Respond(p, found)
    <2>1. /\ verificationVector' = [verificationVector EXCEPT
                ![p] = Canetti!Add(verificationVector[p], Canetti!Others(p))]
          /\ rho' = [rho EXCEPT ![p] = Canetti!Xor(rho[p], Canetti!Others(p))]
          /\ share' = [share EXCEPT
                ![p] = Canetti!Add(Canetti!Add(Canetti!Nothing, {p}), Canetti!Others(p))]
          /\ proof' = [proof EXCEPT ![p] = rho'[p]]
          /\ round' = [round EXCEPT ![p] = 4]
          /\ blamed' = blamed
      BY <1>7 DEF Canetti!Round3Respond
    <2>2. /\ Canetti!Add(verificationVector[p], Canetti!Others(p)) \in [Quorum -> Nat]
          /\ Canetti!Xor(rho[p], Canetti!Others(p)) \in [Quorum -> {0, 1}]
      BY CanettiSumTypes
    <2>3. Canetti!Add(Canetti!Add(Canetti!Nothing, {p}), Canetti!Others(p)) = Once
      BY CanettiCompletes
    <2>4. /\ share'[p] = Once /\ round'[p] = 4 /\ proof'[p] = rho'[p]
          /\ verificationVector'[p] \in [Quorum -> Nat] /\ rho'[p] \in [Quorum -> {0, 1}]
          /\ \A q \in Honest \ {p} :
                /\ round'[q] = round[q] /\ share'[q] = share[q] /\ proof'[q] = proof[q]
                /\ verificationVector'[q] = verificationVector[q] /\ rho'[q] = rho[q]
          /\ DOMAIN verificationVector' = Honest /\ DOMAIN rho' = Honest
          /\ blamed' = blamed
      BY <2>1, <2>2, <2>3
    <2>5. calls[p][3] = 0 => verificationVector'[p] = Once /\ rho'[p] = Once
      BY <1>2, <2>1, CanettiCompletes DEF CanettiSums
    <2>6. /\ verificationVector' \in [Honest -> [Quorum -> Nat]]
          /\ rho' \in [Honest -> [Quorum -> {0, 1}]]
          /\ share' \in [Honest -> [Quorum -> Nat]]
          /\ proof' \in [Honest -> [Quorum -> {0, 1}] \cup {None}]
          /\ round' \in [Honest -> 1 .. 5]
      <3>1. Once \in [Quorum -> Nat]
        BY DEF Once
      <3>2. share' \in [Honest -> [Quorum -> Nat]]
        BY <2>1, <2>3, <3>1
      <3>3. /\ verificationVector' \in [Honest -> [Quorum -> Nat]]
            /\ rho' \in [Honest -> [Quorum -> {0, 1}]]
        BY <2>1, <2>2
      <3>4. proof' \in [Honest -> [Quorum -> {0, 1}] \cup {None}]
        BY <2>1, <2>4
      <3>5. round' \in [Honest -> 1 .. 5]
        BY <2>1
      <3> QED
        BY <3>2, <3>3, <3>4, <3>5
    <2>7. Canetti!TypeOK'
      BY <1>2, <1>3, <2>4, <2>6
    <2>8. CanettiDigests' /\ CanettiShares'
      BY <1>2, <2>4 DEF CanettiDigests, CanettiShares
    <2>9. CanettiSums'
      BY <1>2, <1>3, <2>4, <2>5 DEF CanettiSums
    <2>10. CanettiProofs'
      BY <1>2, <1>3, <2>4 DEF CanettiProofs
    <2>11. Canetti!BlameIsJust'
      BY <1>2, <1>3, <2>4 DEF Canetti!BlameIsJust
    <2> QED
      BY <2>7, <2>8, <2>9, <2>10, <2>11
  <1> QED
    BY <1>1, <1>5, <1>6, <1>7

\* An honest party's proof fails in Round4 only if one of the two repeated Round3
\* or the verifier repeats Round4.
LEMMA CanettiRefuted ==
    ASSUME CanettiInv, NEW p \in Honest, NEW q \in Honest \ {p},
           round[p] = 4, proof[q] # None, ~Canetti!Verifies(p, q)
    PROVE  calls[p][3] > 1 \/ calls[p][4] >= 1 \/ calls[q][3] > 1
  <1> USE DealingsAssumption DEF CanettiInv, Canetti!TypeOK, Honest, Canetti!Honest
  <1>1. CASE q \in spent[p]
    BY <1>1 DEF CanettiProofs
  <1>2. CASE proof[q] # rho[p]
    <2>1. round[q] >= 4 /\ proof[q] = rho[q]
      BY DEF CanettiProofs
    <2>2. calls[p][3] <= 1 => rho[p] = Once
      BY DEF CanettiSums
    <2>3. calls[q][3] <= 1 => rho[q] = Once
      BY <2>1 DEF CanettiSums
    <2>4. calls[p][3] \in Nat /\ calls[q][3] \in Nat
      OBVIOUS
    <2> QED
      BY <1>2, <2>1, <2>2, <2>3, <2>4
  <1> QED
    BY <1>1, <1>2 DEF Canetti!Verifies

LEMMA CanettiRound4 ==
    ASSUME CanettiInv, NEW p \in Honest, Canetti!Round4(p)
    PROVE  CanettiInv'
  <1> USE DealingsAssumption DEF CanettiInv, Canetti!TypeOK, Honest, Canetti!Honest
  <1>1. PICK found \in Canetti!Handed4(p) :
           \/ Canetti!Round4Reject(p, found)
           \/ Canetti!Round4Abort(p, found)
           \/ Canetti!Round4Output(p, found)
    BY DEF Canetti!Round4
  <1>2. /\ DOMAIN found = Quorum \ {p}
         /\ \A q \in Honest \ {p} :
               found[q] = IF Canetti!Verifies(p, q) THEN "right" ELSE "refuted"
    BY CanettiHanded
  <1>3. /\ round[p] = 4 /\ calls[p][4] < MaxCalls
        /\ \A q \in Honest \ {p} : proof[q] # None
        /\ calls' = [calls EXCEPT ![p][4] = @ + 1]
        /\ UNCHANGED <<committed, opened, verificationVector, rho, share, proof>>
    BY DEF Canetti!Round4, Canetti!Ready4
  <1>4. /\ calls'[p][4] = calls[p][4] + 1 /\ calls'[p][3] = calls[p][3]
        /\ \A q \in Honest \ {p} : calls'[q] = calls[q]
        /\ calls' \in [Honest -> [{3, 4} -> 0 .. MaxCalls]]
        /\ \A q \in Honest : /\ calls'[q][3] = calls[q][3] /\ calls'[q][4] >= calls[q][4]
                             /\ calls[q][3] \in Nat /\ calls[q][4] \in Nat
                             /\ calls'[q][4] \in Nat
    BY <1>3
  <1> DEFINE excused(q, r) == calls[q][3] > 1 \/ calls[q][4] > 1 \/ calls[r][3] > 1
  <1>5. \A q, r \in Honest : excused(q, r) => excused(q, r)'
    BY <1>4
  <1>6. \A b \in blamed : b[2] \in Honest => b[1] \in Honest /\ excused(b[1], b[2])'
    BY <1>5 DEF Canetti!BlameIsJust
  <1>7. ASSUME NEW culprit \in Quorum, blamed' = blamed \cup {<<p, culprit>>},
               culprit \in Honest =>
                  calls[p][3] > 1 \/ calls[p][4] >= 1 \/ calls[culprit][3] > 1,
               spent' \in [Honest -> SUBSET Quorum],
               \A q \in Honest \ {p} : spent'[q] = spent[q],
               UNCHANGED <<round, shard, untagged>>
        PROVE  CanettiInv'
    <2>1. Canetti!TypeOK'
      BY <1>3, <1>4, <1>7
    <2>2. CanettiDigests' /\ CanettiShares'
      BY <1>3, <1>7 DEF CanettiDigests, CanettiShares
    <2>3. CanettiSums'
      BY <1>3, <1>4, <1>7 DEF CanettiSums
    <2>4. CanettiProofs'
      BY <1>3, <1>4, <1>7 DEF CanettiProofs
    <2>5. Canetti!BlameIsJust'
      <3>1. culprit \in Honest => excused(p, culprit)'
        BY <1>4, <1>7
      <3>2. \A b \in blamed' : b[2] \in Honest => excused(b[1], b[2])'
        BY <1>7, <1>6, <3>1
      <3>3. \A q \in untagged' : calls'[q][3] > 1
        BY <1>4, <1>7 DEF Canetti!BlameIsJust
      <3> QED
        BY <3>2, <3>3 DEF Canetti!BlameIsJust
    <2> QED
      BY <2>1, <2>2, <2>3, <2>4, <2>5
  <1>8. CASE Canetti!Round4Reject(p, found)
    <2>1. PICK culprit \in Corrupt : blamed' = blamed \cup {<<p, culprit>>}
      BY <1>8, CanettiHanded, CulpritIsCorrupt DEF Canetti!Round4Reject
    <2>2. UNCHANGED <<round, spent, shard, untagged>>
      BY <1>8 DEF Canetti!Round4Reject
    <2> QED
      BY <1>7, <2>1, <2>2
  <1>9. CASE Canetti!Round4Abort(p, found)
    <2> DEFINE culprit == Canetti!First(Canetti!With(found, "refuted"))
    <2>1. culprit \in Canetti!With(found, "refuted")
      <3>1. Canetti!With(found, "refuted") \in SUBSET Quorum
        BY <1>2 DEF Canetti!With
      <3> QED
        BY <1>9, <3>1, FirstIsMember DEF Canetti!First, Canetti!Round4Abort
    <2>2. culprit \in Quorum \ {p} /\ found[culprit] = "refuted"
      BY <2>1, <1>2 DEF Canetti!With
    <2>3. /\ spent' = [spent EXCEPT ![p] = @ \cup Canetti!UpTo(p, culprit)]
          /\ blamed' = blamed \cup {<<p, culprit>>}
          /\ UNCHANGED <<round, shard, untagged>>
      BY <1>9 DEF Canetti!Round4Abort
    <2>4. Canetti!UpTo(p, culprit) \in SUBSET Quorum
      BY DEF Canetti!UpTo, Canetti!Others
    <2> HIDE DEF culprit
    <2>5. culprit \in Honest =>
             calls[p][3] > 1 \/ calls[p][4] >= 1 \/ calls[culprit][3] > 1
      BY <1>3, <1>2, <2>2, CanettiRefuted
    <2>6. /\ spent' \in [Honest -> SUBSET Quorum]
          /\ \A q \in Honest \ {p} : spent'[q] = spent[q]
      BY <2>3, <2>4
    <2> QED
      BY <1>7, <2>2, <2>3, <2>5, <2>6
  <1>10. CASE Canetti!Round4Output(p, found)
    <2>1. /\ spent' = [spent EXCEPT ![p] = Quorum \ {p}] /\ blamed' = blamed
          /\ IF share[p] = verificationVector[p]
             THEN /\ shard' = [shard EXCEPT ![p] = verificationVector[p]]
                  /\ round' = [round EXCEPT ![p] = 5]
                  /\ untagged' = untagged
             ELSE /\ untagged' = untagged \cup {p}
                  /\ UNCHANGED <<round, shard>>
      BY <1>10 DEF Canetti!Round4Output, Canetti!NewBaseShardAccepts, Canetti!Others
    <2>2. share[p] = Once
      BY <1>3 DEF CanettiShares
    <2>3. Canetti!TypeOK'
      <3>1. spent' \in [Honest -> SUBSET Quorum] /\ blamed' = blamed
        BY <2>1
      <3>2. shard' \in [Honest -> [Quorum -> Nat] \cup {None}]
        BY <2>1
      <3>3. round' \in [Honest -> 1 .. 5]
        BY <2>1
      <3>4. untagged' \subseteq Honest
        <4>1. untagged' \in {untagged, untagged \cup {p}}
          BY <2>1
        <4> QED
          BY <4>1
      <3> QED
        BY <1>3, <1>4, <3>1, <3>2, <3>3, <3>4
    <2>4. CanettiDigests' /\ CanettiShares'
      BY <1>3, <2>1, <2>2 DEF CanettiDigests, CanettiShares
    <2>5. CanettiSums'
      BY <1>3, <1>4, <2>1 DEF CanettiSums
    <2>6. CanettiProofs'
      BY <1>3, <1>4, <2>1 DEF CanettiProofs
    <2>7. share[p] # verificationVector[p] => calls[p][3] > 1
      BY <1>3, <2>2 DEF CanettiSums
    <2>8. Canetti!BlameIsJust'
      <3>1. \A q \in untagged : calls[q][3] > 1
        BY DEF Canetti!BlameIsJust
      <3>2. \A q \in untagged' : q \in Honest /\ calls[q][3] > 1
        <4>1. CASE share[p] = verificationVector[p]
          BY <2>1, <3>1, <4>1
        <4>2. CASE share[p] # verificationVector[p]
          <5>1. untagged' = untagged \cup {p} /\ calls[p][3] > 1
            BY <2>1, <2>7, <4>2
          <5> QED
            BY <3>1, <5>1
        <4> QED
          BY <4>1, <4>2
      <3>3. \A q \in untagged' : calls'[q][3] > 1
        BY <1>4, <3>2
      <3>4. \A b \in blamed' : b[2] \in Honest => excused(b[1], b[2])'
        BY <1>6, <2>1
      <3> QED
        BY <3>3, <3>4 DEF Canetti!BlameIsJust
    <2> QED
      BY <2>3, <2>4, <2>5, <2>6, <2>8
  <1> QED
    BY <1>1, <1>8, <1>9, <1>10

LEMMA CanettiStep == CanettiInv /\ [Canetti!Next]_(Canetti!vars) => CanettiInv'
  <1> SUFFICES ASSUME CanettiInv, [Canetti!Next]_(Canetti!vars) PROVE CanettiInv'
    OBVIOUS
  <1>1. CASE UNCHANGED Canetti!vars
    <2>1. CanettiDigests' /\ CanettiShares' /\ CanettiSums' /\ CanettiProofs'
      BY <1>1 DEF Canetti!vars, CanettiInv, CanettiDigests, CanettiShares, CanettiSums,
                  CanettiProofs
    <2>2. Canetti!TypeOK' /\ Canetti!BlameIsJust'
      BY <1>1 DEF Canetti!vars, CanettiInv, Canetti!TypeOK, Canetti!BlameIsJust
    <2> QED
      BY <2>1, <2>2 DEF CanettiInv
  <1>2. Canetti!Honest = Honest
    BY DEF Canetti!Honest, Honest
  <1> QED
    BY <1>1, <1>2, CanettiRound1, CanettiCorruptCommit, CanettiRound2, CanettiRound3,
       CanettiRound4
    DEF Canetti!Next

\* The invariant of the protocol that runs holds throughout.
LEMMA CanettiHolds == Spec => [](protocol = "canetti" => CanettiInv)
  <1>1. Init => (protocol = "canetti" => CanettiInv)
    BY CanettiInit DEF Init
  <1>2. protocol = "canetti" /\ [Next]_vars =>
           protocol' = "canetti" /\ [Canetti!Next]_(Canetti!vars)
    BY DEF Next, vars, canettiOnly, Canetti!vars
  <1>3. protocol' = "canetti" /\ [Next]_vars => protocol = "canetti"
    BY DEF Next, vars
  <1>4. (protocol = "canetti" => CanettiInv) /\ [Next]_vars =>
           (protocol = "canetti" => CanettiInv)'
    BY <1>2, <1>3, CanettiStep
  <1> QED
    BY <1>1, <1>4, PTL DEF Spec

\* Whatever calls of its rounds failed and were repeated, a shard that Round4
\* of Canetti's DKG returns holds every dealer's contribution exactly once.
THEOREM OutputIsSumHolds == Spec => []OutputIsSum
  <1>1. (protocol = "canetti" => CanettiInv) => OutputIsSum
    BY DEF CanettiInv, CanettiShares, OutputIsSum, Canetti!OutputIsSum, Canetti!Honest,
           Honest, Canetti!Once, Once
  <1> QED
    BY <1>1, CanettiHolds, PTL

\* Canetti's DKG names an honest party, or nobody, only after a repeated round.
THEOREM MisleadsOnlyAfterRepeatHolds == Spec => []MisleadsOnlyAfterRepeat
  <1>1. (protocol = "canetti" => CanettiInv) => MisleadsOnlyAfterRepeat
    BY DEF CanettiInv, MisleadsOnlyAfterRepeat
  <1> QED
    BY <1>1, CanettiHolds, PTL

-----------------------------------------------------------------------------
(***************************************************************************)
(* Gennaro's DKG.                                                          *)
(***************************************************************************)
Committed1 == [kind |-> "proved", fits |-> Quorum]

\* What honest parties broadcast verifies, and their Feldman vector is the one of
\* the committed column, published when the sum of the shares was complete.
GennaroDealings ==
    \A p \in Honest :
        /\ pedersen[p] \in {None, "proved"}
        /\ round[p] <= 2 => feldman[p] = None
        /\ round[p] >= 3 => feldman[p] = Committed1 /\ summedShareValue[p] = Once

\* A shard sums up the vectors as they were broadcast, all of them fit its
\* holder's shares, and none of them can change.
GennaroShards ==
    \A p \in Honest : shard[p] # None =>
        /\ round[p] >= 3
        /\ \A q \in Honest : round[q] >= 3
        /\ \A q \in Corrupt : feldman[q] # None
        /\ \A q \in Quorum : shard[p][q] = feldman[q].fits /\ p \in feldman[q].fits

GennaroInv ==
    /\ Gennaro!TypeOK
    /\ GennaroDealings
    /\ GennaroShards
    /\ Gennaro!AbortsAreIdentifiable

LEMMA GennaroInit == Gennaro!Init => GennaroInv
  <1> SUFFICES ASSUME Gennaro!Init PROVE GennaroInv
    OBVIOUS
  <1> USE DealingsAssumption DEF Gennaro!Init, Gennaro!Honest, Honest, Gennaro!Nothing
  <1>1. Gennaro!TypeOK
    BY DEF Gennaro!TypeOK
  <1>2. GennaroDealings /\ GennaroShards /\ Gennaro!AbortsAreIdentifiable
    BY DEF GennaroDealings, GennaroShards, Gennaro!AbortsAreIdentifiable
  <1> QED
    BY <1>1, <1>2 DEF GennaroInv

LEMMA GennaroBroadcasts ==
    ASSUME GennaroInv,
           \/ \E p \in Honest : Gennaro!Round1(p)
           \/ \E c \in Corrupt, kind \in Gennaro!Kinds : Gennaro!CorruptDeal(c, kind)
           \/ \E c \in Corrupt, vector \in Gennaro!Feldman : Gennaro!CorruptPublish(c, vector)
    PROVE  GennaroInv'
  <1> USE DealingsAssumption DEF GennaroInv, Gennaro!TypeOK, Honest, Gennaro!Honest
  <1>1. ASSUME NEW p \in Honest, Gennaro!Round1(p) PROVE GennaroInv'
    <2> USE <1>1 DEF Gennaro!Round1
    <2>1. Gennaro!TypeOK'
      BY DEF Gennaro!Kinds
    <2>2. GennaroDealings'
      BY DEF GennaroDealings
    <2>3. GennaroShards'
      BY DEF GennaroShards
    <2>4. Gennaro!AbortsAreIdentifiable'
      BY DEF Gennaro!AbortsAreIdentifiable
    <2> QED
      BY <2>1, <2>2, <2>3, <2>4
  <1>2. ASSUME NEW c \in Corrupt, NEW kind \in Gennaro!Kinds, Gennaro!CorruptDeal(c, kind)
        PROVE  GennaroInv'
    <2> USE <1>2 DEF Gennaro!CorruptDeal
    <2>1. Gennaro!TypeOK'
      OBVIOUS
    <2>2. GennaroDealings'
      BY DEF GennaroDealings
    <2>3. GennaroShards' /\ Gennaro!AbortsAreIdentifiable'
      BY DEF GennaroShards, Gennaro!AbortsAreIdentifiable
    <2> QED
      BY <2>1, <2>2, <2>3
  <1>3. ASSUME NEW c \in Corrupt, NEW vector \in Gennaro!Feldman,
               Gennaro!CorruptPublish(c, vector)
        PROVE  GennaroInv'
    <2> USE <1>3 DEF Gennaro!CorruptPublish
    <2>1. Gennaro!TypeOK'
      OBVIOUS
    <2>2. GennaroDealings'
      BY DEF GennaroDealings
    <2>3. GennaroShards' /\ Gennaro!AbortsAreIdentifiable'
      BY DEF GennaroShards, Gennaro!AbortsAreIdentifiable
    <2> QED
      BY <2>1, <2>2, <2>3
  <1> QED
    BY <1>1, <1>2, <1>3

\* The dealers whom Round2 rejects or refutes are corrupt.
LEMMA GennaroRefuted2 ==
    ASSUME GennaroInv, NEW p \in Honest, NEW shares \in Gennaro!HandedShares(p),
           \A q \in Quorum \ {p} : pedersen[q] # None
    PROVE  /\ Gennaro!Malformed2(p, shares) \in SUBSET (Corrupt \cap Quorum)
           /\ Gennaro!Refuted2(p, shares) \in SUBSET (Corrupt \cap Quorum)
  <1> USE DealingsAssumption DEF Honest, Gennaro!Others
  <1>1. DOMAIN shares = Quorum \ {p} /\ \A q \in Honest \ {p} : shares[q] = "right"
    BY DEF Gennaro!HandedShares
  <1>2. /\ DOMAIN Gennaro!Dealt(p) = Quorum \ {p}
        /\ \A q \in Honest \ {p} : Gennaro!Dealt(p)[q] = "proved"
    BY DEF Gennaro!Dealt, GennaroInv, GennaroDealings
  <1> QED
    BY <1>1, <1>2 DEF Gennaro!Malformed2, Gennaro!Refuted2, Gennaro!With

LEMMA FirstIsCorrupt ==
    ASSUME NEW S \in SUBSET (Corrupt \cap Quorum), S # {}
    PROVE  Gennaro!First(S) \in Corrupt
  BY FirstIsMember DEF Gennaro!First

LEMMA GennaroSums ==
    /\ \A sum \in [Quorum -> Nat] : \A ids : Gennaro!Add(sum, ids) \in [Quorum -> Nat]
    /\ Gennaro!Nothing \in [Quorum -> Nat]
    /\ \A p \in Quorum :
          Gennaro!Add(Gennaro!Add(Gennaro!Nothing, {p}), Gennaro!Others(p)) = Once
  BY DEF Gennaro!Add, Gennaro!Nothing, Gennaro!Others, Once

LEMMA GennaroRound2 ==
    ASSUME GennaroInv, NEW p \in Honest, Gennaro!Round2(p)
    PROVE  GennaroInv'
  <1> USE DealingsAssumption DEF GennaroInv, Gennaro!TypeOK, Honest, Gennaro!Honest
  <1>1. PICK shares \in Gennaro!HandedShares(p) :
           \/ Gennaro!Round2Reject(p, shares)
           \/ Gennaro!Round2Abort(p, shares)
           \/ Gennaro!Round2Publish(p, shares)
    BY DEF Gennaro!Round2
  <1>2. /\ round[p] = 2 /\ calls[p][2] < MaxCalls
        /\ calls' = [calls EXCEPT ![p][2] = @ + 1]
        /\ UNCHANGED <<pedersen, shard, untagged>>
        /\ \A q \in Quorum \ {p} : pedersen[q] # None
    BY DEF Gennaro!Round2, Gennaro!Others
  <1>3. /\ Gennaro!Malformed2(p, shares) \in SUBSET (Corrupt \cap Quorum)
        /\ Gennaro!Refuted2(p, shares) \in SUBSET (Corrupt \cap Quorum)
    BY <1>2, GennaroRefuted2
  <1>4. calls' \in [Honest -> [{2, 3} -> 0 .. MaxCalls]]
    <2>1. calls' = [calls EXCEPT ![p] = [calls[p] EXCEPT ![2] = calls[p][2] + 1]]
      BY <1>2
    <2>2. [calls[p] EXCEPT ![2] = calls[p][2] + 1] \in [{2, 3} -> 0 .. MaxCalls]
      BY <1>2
    <2> QED
      BY <2>1, <2>2
  <1>5. \A q \in Honest : shard[q] = None
    BY <1>2 DEF GennaroShards
  <1>6. ASSUME NEW culprit \in Corrupt, blamed' = blamed \cup {<<p, culprit>>},
               UNCHANGED <<round, feldman>>,
               receivedShares' \in [Honest -> SUBSET Quorum],
               summedShareValue' \in [Honest -> [Quorum -> Nat]],
               \A q \in Honest \ {p} : summedShareValue'[q] = summedShareValue[q]
        PROVE  GennaroInv'
    <2>1. Gennaro!TypeOK'
      BY <1>2, <1>4, <1>6
    <2>2. GennaroDealings'
      BY <1>2, <1>6 DEF GennaroDealings
    <2>3. GennaroShards'
      BY <1>2, <1>5 DEF GennaroShards
    <2>4. Gennaro!AbortsAreIdentifiable'
      BY <1>2, <1>6 DEF Gennaro!AbortsAreIdentifiable
    <2> QED
      BY <2>1, <2>2, <2>3, <2>4
  <1>7. CASE Gennaro!Round2Reject(p, shares)
    <2>1. /\ blamed' = blamed \cup {<<p, Gennaro!First(Gennaro!Malformed2(p, shares))>>}
          /\ UNCHANGED <<round, feldman, receivedShares, summedShareValue>>
          /\ Gennaro!First(Gennaro!Malformed2(p, shares)) \in Corrupt
      BY <1>3, <1>7, FirstIsCorrupt DEF Gennaro!Round2Reject
    <2> QED
      BY <1>6, <2>1
  <1>8. CASE Gennaro!Round2Abort(p, shares)
    <2> DEFINE culprit == Gennaro!First(Gennaro!Refuted2(p, shares))
               sum == Gennaro!Add(Gennaro!StartOfSum(p), Gennaro!Before(p, culprit))
    <2>1. culprit \in Corrupt
      BY <1>3, <1>8, FirstIsCorrupt DEF Gennaro!Round2Abort
    <2>2. /\ receivedShares' = [receivedShares EXCEPT ![p] = @ \cup Gennaro!Before(p, culprit)]
          /\ summedShareValue' = [summedShareValue EXCEPT ![p] = sum]
          /\ blamed' = blamed \cup {<<p, culprit>>}
          /\ UNCHANGED <<round, feldman>>
      BY <1>8 DEF Gennaro!Round2Abort
    <2>3. sum \in [Quorum -> Nat] /\ Gennaro!Before(p, culprit) \in SUBSET Quorum
      BY GennaroSums DEF Gennaro!StartOfSum, Gennaro!Before, Gennaro!Others
    <2> HIDE DEF sum, culprit
    <2>4. /\ receivedShares' \in [Honest -> SUBSET Quorum]
          /\ summedShareValue' \in [Honest -> [Quorum -> Nat]]
          /\ \A q \in Honest \ {p} : summedShareValue'[q] = summedShareValue[q]
      BY <2>2, <2>3
    <2> QED
      BY <1>6, <2>1, <2>2, <2>4
  <1>9. CASE Gennaro!Round2Publish(p, shares)
    <2>1. /\ receivedShares' = [receivedShares EXCEPT ![p] = Quorum \ {p}]
          /\ summedShareValue' = [summedShareValue EXCEPT ![p] = Once]
          /\ feldman' = [feldman EXCEPT ![p] = Committed1]
          /\ round' = [round EXCEPT ![p] = 3]
          /\ blamed' = blamed
      BY <1>9, GennaroSums
      DEF Gennaro!Round2Publish, Gennaro!Others, Gennaro!StartOfSum, Committed1
    <2>2. Once \in [Quorum -> Nat] /\ Committed1 \in Gennaro!Feldman
      BY DEF Once, Committed1, Gennaro!Feldman, Gennaro!Kinds
    <2>3. Gennaro!TypeOK'
      <3>1. feldman' \in [Quorum -> Gennaro!Feldman \cup {None}]
        BY <2>1, <2>2
      <3>2. summedShareValue' \in [Honest -> [Quorum -> Nat]]
        BY <2>1, <2>2
      <3>3. /\ receivedShares' \in [Honest -> SUBSET Quorum]
            /\ round' \in [Honest -> 1 .. 4]
            /\ blamed' = blamed
        BY <2>1
      <3> QED
        BY <1>2, <1>4, <3>1, <3>2, <3>3
    <2>4. GennaroDealings'
      BY <1>2, <2>1 DEF GennaroDealings
    <2>5. GennaroShards'
      BY <1>2, <1>5 DEF GennaroShards
    <2>6. Gennaro!AbortsAreIdentifiable'
      BY <1>2, <2>1 DEF Gennaro!AbortsAreIdentifiable
    <2> QED
      BY <2>3, <2>4, <2>5, <2>6
  <1> QED
    BY <1>1, <1>7, <1>8, <1>9

LEMMA GennaroRound3 ==
    ASSUME GennaroInv, NEW p \in Honest, Gennaro!Round3(p)
    PROVE  GennaroInv'
  <1> USE DealingsAssumption DEF GennaroInv, Gennaro!TypeOK, Honest, Gennaro!Honest
  <1>1. /\ round[p] = 3 /\ calls[p][3] < MaxCalls
        /\ \A q \in Quorum \ {p} : feldman[q] # None
        /\ calls' = [calls EXCEPT ![p][3] = @ + 1]
        /\ UNCHANGED <<pedersen, feldman, receivedShares, summedShareValue>>
    BY DEF Gennaro!Round3, Gennaro!Others
  <1>2. calls' \in [Honest -> [{2, 3} -> 0 .. MaxCalls]]
    BY <1>1
  <1>3. /\ \A q \in Honest : round[q] >= 3 /\ feldman[q] = Committed1
        /\ \A q \in Corrupt : feldman[q] # None
        /\ summedShareValue[p] = Once
    BY <1>1 DEF GennaroDealings
  <1>4. Gennaro!Malformed3(p) \cup Gennaro!Refuted3(p) \in SUBSET (Corrupt \cap Quorum)
    BY <1>3 DEF Gennaro!Malformed3, Gennaro!Refuted3, Gennaro!Others, Committed1
  <1>5. CASE Gennaro!Round3Abort(p)
    <2>1. PICK culprit \in Corrupt : blamed' = blamed \cup {<<p, culprit>>}
      BY <1>4, <1>5, FirstIsCorrupt DEF Gennaro!Round3Abort
    <2>2. UNCHANGED <<round, shard, untagged>>
      BY <1>5 DEF Gennaro!Round3Abort
    <2>3. Gennaro!TypeOK'
      BY <1>1, <1>2, <2>1, <2>2
    <2>4. GennaroDealings'
      BY <1>1, <2>2 DEF GennaroDealings
    <2>5. GennaroShards'
      BY <1>1, <2>2 DEF GennaroShards
    <2>6. Gennaro!AbortsAreIdentifiable'
      BY <2>1, <2>2 DEF Gennaro!AbortsAreIdentifiable
    <2> QED
      BY <2>3, <2>4, <2>5, <2>6
  <1>6. CASE Gennaro!Round3Output(p)
    <2>1. \A q \in Quorum : p \in feldman[q].fits
      BY <1>3, <1>6
      DEF Gennaro!Round3Output, Gennaro!Refuted3, Gennaro!Others, Committed1
    <2>2. Gennaro!NewBaseShardAccepts(p)
      BY <1>3, <2>1 DEF Gennaro!NewBaseShardAccepts, Gennaro!Once, Once
    <2> DEFINE fits == [q \in Quorum |-> feldman[q].fits]
    <2>3. /\ shard' = [shard EXCEPT ![p] = fits]
          /\ round' = [round EXCEPT ![p] = 4]
          /\ untagged' = untagged /\ blamed' = blamed
      BY <1>6, <2>2 DEF Gennaro!Round3Output
    <2>4. fits \in [Quorum -> SUBSET Quorum]
      BY <1>1, <1>3 DEF Gennaro!Feldman, Committed1
    <2>5. \A q \in Quorum : fits[q] = feldman[q].fits
      OBVIOUS
    <2> HIDE DEF fits
    <2>6. Gennaro!TypeOK'
      BY <1>1, <1>2, <2>3, <2>4
    <2>7. GennaroDealings'
      BY <1>1, <2>3 DEF GennaroDealings
    <2>8. GennaroShards'
      BY <1>1, <1>3, <2>1, <2>3, <2>5 DEF GennaroShards
    <2>9. Gennaro!AbortsAreIdentifiable'
      BY <2>3 DEF Gennaro!AbortsAreIdentifiable
    <2> QED
      BY <2>6, <2>7, <2>8, <2>9
  <1> QED
    BY <1>5, <1>6 DEF Gennaro!Round3

LEMMA GennaroStep == GennaroInv /\ [Gennaro!Next]_(Gennaro!vars) => GennaroInv'
  <1> SUFFICES ASSUME GennaroInv, [Gennaro!Next]_(Gennaro!vars) PROVE GennaroInv'
    OBVIOUS
  <1>1. CASE UNCHANGED Gennaro!vars
    BY <1>1 DEF Gennaro!vars, GennaroInv, Gennaro!TypeOK, GennaroDealings, GennaroShards,
                Gennaro!AbortsAreIdentifiable
  <1>2. Gennaro!Honest = Honest
    BY DEF Gennaro!Honest, Honest
  <1> QED
    BY <1>1, <1>2, GennaroBroadcasts, GennaroRound2, GennaroRound3 DEF Gennaro!Next

LEMMA GennaroHolds == Spec => [](protocol = "gennaro" => GennaroInv)
  <1>1. Init => (protocol = "gennaro" => GennaroInv)
    BY GennaroInit DEF Init
  <1>2. protocol = "gennaro" /\ [Next]_vars =>
           protocol' = "gennaro" /\ [Gennaro!Next]_(Gennaro!vars)
    BY DEF Next, vars, gennaroOnly, Gennaro!vars
  <1>3. protocol' = "gennaro" /\ [Next]_vars => protocol = "gennaro"
    BY DEF Next, vars
  <1>4. (protocol = "gennaro" => GennaroInv) /\ [Next]_vars =>
           (protocol = "gennaro" => GennaroInv)'
    BY <1>2, <1>3, GennaroStep
  <1> QED
    BY <1>1, <1>4, PTL DEF Spec

\* A vector that fits the shares of a set that can reconstruct is the committed
\* one, since the access structure is monotone.
LEMMA FitsIsEverybody ==
    ASSUME NEW vector \in Gennaro!Feldman, NEW holders \in Qualified,
           holders \subseteq vector.fits
    PROVE  vector.fits = Quorum
  <1> DEFINE fits == vector.fits
  <1>1. fits \in {Quorum} \cup ((SUBSET Quorum) \ Qualified)
    BY DEF Gennaro!Feldman
  <1> HIDE DEF fits
  <1>2. fits = Quorum \/ (fits \in SUBSET Quorum /\ fits \notin Qualified)
    BY <1>1
  <1>3. holders \cup fits \in Qualified
    BY <1>2, DealingsAssumption
  <1>4. fits \in Qualified
    <2>1. holders \cup fits = fits
      BY Zenon DEF fits
    <2> QED
      BY <1>3, <2>1
  <1> QED
    BY <1>2, <1>4 DEF fits

\* All shards of Gennaro's DKG hold the same vectors, and if their holders can
\* reconstruct, the key is the one fixed by the commitments of Round1.  It rests
\* on Feldman, which is exact for threshold structures: in others there are also
\* vectors that are not the committed one and fit a qualified set of shares.
THEOREM KeyIsCommittedHolds == Spec => []KeyIsCommitted
  <1>1. GennaroInv => Gennaro!KeyIsCommitted
    <2> SUFFICES ASSUME GennaroInv PROVE Gennaro!KeyIsCommitted
      OBVIOUS
    <2> USE DealingsAssumption DEF GennaroInv, Gennaro!TypeOK, Honest, Gennaro!Honest
    <2> DEFINE holders == {p \in Honest : shard[p] # None}
    <2>1. ASSUME NEW p \in holders, NEW q \in holders PROVE shard[p] = shard[q]
      <3>1. /\ shard[p] = [r \in Quorum |-> shard[p][r]]
            /\ shard[q] = [r \in Quorum |-> shard[q][r]]
        OBVIOUS
      <3>2. \A r \in Quorum : shard[p][r] = shard[q][r]
        BY DEF GennaroShards
      <3>3. [r \in Quorum |-> shard[p][r]] = [r \in Quorum |-> shard[q][r]]
        BY <3>2, Zenon
      <3> QED
        BY <3>1, <3>3, Zenon
    <2>2. ASSUME holders \in Qualified, NEW p \in holders, NEW q \in Quorum
          PROVE  shard[p][q] = Quorum
      <3>1. shard[p][q] = feldman[q].fits /\ \A r \in holders : r \in feldman[q].fits
        BY DEF GennaroShards
      <3>2. CASE q \in Honest
        <4>1. feldman[q] = Committed1
          BY <3>2 DEF GennaroShards, GennaroDealings
        <4> QED
          BY <3>1, <4>1 DEF Committed1
      <3>3. CASE q \in Corrupt
        <4>1. feldman[q] \in Gennaro!Feldman
          BY <3>3 DEF GennaroShards
        <4> QED
          BY <2>2, <3>1, <4>1, FitsIsEverybody
      <3> QED
        BY <3>2, <3>3
    <2> QED
      BY <2>1, <2>2 DEF Gennaro!KeyIsCommitted
  <1>2. (protocol = "gennaro" => GennaroInv) => KeyIsCommitted
    BY <1>1 DEF KeyIsCommitted
  <1> QED
    BY <1>2, GennaroHolds, PTL

\* Every abort of Gennaro's DKG names a party, and a corrupt one.
THEOREM AbortsAreIdentifiableHolds == Spec => []AbortsAreIdentifiable
  <1>1. (protocol = "gennaro" => GennaroInv) => AbortsAreIdentifiable
    BY DEF GennaroInv, AbortsAreIdentifiable
  <1> QED
    BY <1>1, GennaroHolds, PTL


-----------------------------------------------------------------------------
(***************************************************************************)
(* Sums of zeros.  Sums are folds over finite sets; that a fold over zeros *)
(* is zero is shown by a smallest counterexample.                          *)
(***************************************************************************)
LEMMA SmallestSize ==
    ASSUME NEW T \in SUBSET Nat, T # {}
    PROVE  \E n \in T : \A m \in T : n <= m
  <1> DEFINE less == {pair \in Nat \X Nat : pair[1] < pair[2]}
  <1>1. IsWellFoundedOn(less, Nat)
    BY NatLessThanWellFounded DEF OpToRel
  <1>2. \E n \in T : \A m \in T : <<m, n>> \notin less
    <2> HIDE DEF less
    <2> QED
      BY <1>1, WFMin
  <1>3. PICK n \in T : \A m \in T : <<m, n>> \notin less
    BY <1>2
  <1>4. ASSUME NEW m \in T PROVE n <= m
    <2>1. <<m, n>> \in Nat \X Nat /\ <<m, n>> \notin less
      BY <1>3
    <2>2. ~(m < n)
      BY <2>1
    <2> QED
      BY <2>2
  <1> QED
    BY <1>4

\* The equation by which a fold over zeros is defined has one solution only.
LEMMA FoldOfZeros ==
    ASSUME NEW S, IsFiniteSet(S)
    PROVE  LET some(s) == CHOOSE x \in s : TRUE
               zero == [q \in S |-> 0]
               sum == CHOOSE h : h = [s \in SUBSET S |->
                         IF s = {} THEN 0 ELSE zero[some(s)] + h[s \ {some(s)}]]
           IN  sum[S] = 0
  <1> DEFINE some(s) == CHOOSE x \in s : TRUE
             zero == [q \in S |-> 0]
             Body(h, s) == IF s = {} THEN 0 ELSE zero[some(s)] + h[s \ {some(s)}]
             sum == CHOOSE h : h = [s \in SUBSET S |-> Body(h, s)]
             allZero == [s \in SUBSET S |-> 0]
  <1>1. \A s \in SUBSET S : s # {} => some(s) \in s
    OBVIOUS
  <1> HIDE DEF some
  <1>2. allZero = [s \in SUBSET S |-> Body(allZero, s)]
    <2>1. \A s \in SUBSET S : Body(allZero, s) = 0
      BY <1>1
    <2> QED
      BY <2>1
  <1>3. sum = [s \in SUBSET S |-> Body(sum, s)]
    <2> HIDE DEF allZero, Body
    <2> QED
      BY <1>2
  <1> HIDE DEF sum
  <1>4. \A s \in SUBSET S : sum[s] = IF s = {} THEN 0 ELSE zero[some(s)] + sum[s \ {some(s)}]
    BY <1>3
  <1>5. \A s \in SUBSET S : sum[s] = 0
    <2> SUFFICES ASSUME NEW bad \in SUBSET S, sum[bad] # 0 PROVE FALSE
      OBVIOUS
    <2> DEFINE sizes == {n \in Nat : \E s \in SUBSET S : sum[s] # 0 /\ n = Cardinality(s)}
    <2>1. \A s \in SUBSET S : IsFiniteSet(s) /\ Cardinality(s) \in Nat
      BY FS_Subset, FS_CardinalityType
    <2>2. Cardinality(bad) \in sizes
      BY <2>1
    <2>3. PICK n \in sizes : \A m \in sizes : n <= m
      BY <2>2, SmallestSize
    <2>4. PICK s \in SUBSET S : sum[s] # 0 /\ n = Cardinality(s)
      BY <2>3
    <2>5. s # {} /\ some(s) \in s
      BY <1>1, <1>4, <2>4
    <2> DEFINE rest == s \ {some(s)}
    <2>6. rest \in SUBSET S /\ Cardinality(rest) = Cardinality(s) - 1
      BY <2>1, <2>5, FS_RemoveElement
    <2>7. sum[s] = 0 + sum[rest]
      BY <1>4, <2>5
    <2>8. sum[rest] # 0
      BY <2>4, <2>7
    <2>9. Cardinality(rest) \in sizes
      BY <2>1, <2>6, <2>8
    <2> HIDE DEF sizes, rest
    <2>10. Cardinality(s) \in Nat /\ Cardinality(s) <= Cardinality(rest)
      BY <2>1, <2>3, <2>4, <2>9
    <2> QED
      BY <2>6, <2>10
  <1> QED
    BY <1>5 DEF sum, some

LEMMA ZeroSum ==
    ASSUME NEW S, IsFiniteSet(S)
    PROVE  /\ Redistribution!SumFunction([q \in S |-> 0]) = 0
           /\ Signing!SumFunction([q \in S |-> 0]) = 0
  BY FoldOfZeros
  DEF Redistribution!SumFunction, Redistribution!SumFunctionOnSet,
      Redistribution!FoldFunctionOnSet, Redistribution!MapThenFoldSet,
      Signing!SumFunction, Signing!SumFunctionOnSet, Signing!FoldFunctionOnSet, Signing!MapThenFoldSet

-----------------------------------------------------------------------------
(***************************************************************************)
(* The zero sharing among the holders H, which both redistribution and     *)
(* Lindell22 run.                                                          *)
(***************************************************************************)
ZeroKinds == {"malformed", "nonzero", "zero", "cancelling"}

\* Everybody's contribution once.
Everyone(H) == [q \in Quorum |-> IF q \in H THEN 1 ELSE 0]

ZeroTypes(H) ==
    /\ zeroRound \in [H \ Corrupt -> 1 .. 3]
    /\ zeroDealt \in [H -> ZeroKinds \cup {None}]
    /\ zeroSum \in [H \ Corrupt -> [Quorum -> Nat] \cup {None}]

\* An honest holder deals zero, in its first round.
ZeroDealings(H) ==
    \A p \in H \ Corrupt :
        /\ zeroDealt[p] \in {"zero", None}
        /\ zeroRound[p] # 1 => zeroDealt[p] = "zero"

\* A sum that was returned is of sharings of zero, everybody's once.
ZeroSums(H) ==
    \A p \in H \ Corrupt : zeroSum[p] # None =>
        /\ zeroSum[p] = Everyone(H)
        /\ \A q \in H : zeroDealt[q] \in {"zero", "cancelling"}

ZeroInv(H) == ZeroTypes(H) /\ ZeroDealings(H) /\ ZeroSums(H)

LEMMA ZeroDeals ==
    ASSUME NEW H \in SUBSET Quorum, ZeroInv(H), NEW p \in H, NEW kind \in ZeroKinds,
           zeroDealt' = [zeroDealt EXCEPT ![p] = kind], zeroSum' = zeroSum,
           \/ p \notin Corrupt /\ kind = "zero" /\ zeroRound' = [zeroRound EXCEPT ![p] = 2]
           \/ p \in Corrupt /\ zeroDealt[p] = None /\ zeroRound' = zeroRound
    PROVE  ZeroInv(H)'
  <1> USE KeyProtocolsAssumption DEF ZeroInv, ZeroTypes, ZeroKinds
  <1>1. ZeroTypes(H)'
    <2>1. zeroDealt' \in [H -> ZeroKinds \cup {None}]
      OBVIOUS
    <2>2. zeroRound' \in [H \ Corrupt -> 1 .. 3]
      <3>1. 2 \in 1 .. 3 /\ zeroRound \in [H \ Corrupt -> 1 .. 3]
        OBVIOUS
      <3>2. \/ p \in H \ Corrupt /\ zeroRound' = [zeroRound EXCEPT ![p] = 2]
            \/ zeroRound' = zeroRound
        OBVIOUS
      <3> QED
        BY <3>1, <3>2
    <2> QED
      BY <2>1, <2>2
  <1>2. ZeroDealings(H)'
    BY DEF ZeroDealings
  <1>3. ZeroSums(H)'
    BY DEF ZeroSums
  <1> QED
    BY <1>1, <1>2, <1>3

LEMMA ZeroReturns ==
    ASSUME NEW H \in SUBSET Quorum, ZeroInv(H), NEW p \in H \ Corrupt,
           zeroRound[p] = 2, \A q \in H \ {p} : zeroDealt[q] \in {"zero", "cancelling"},
           zeroSum' = [zeroSum EXCEPT ![p] = Everyone(H)],
           zeroRound' = [zeroRound EXCEPT ![p] = 3], zeroDealt' = zeroDealt
    PROVE  ZeroInv(H)'
  <1> USE DEF ZeroInv, ZeroTypes, ZeroKinds
  <1>1. Everyone(H) \in [Quorum -> Nat]
    BY DEF Everyone
  <1>2. ZeroTypes(H)'
    BY <1>1
  <1>3. ZeroDealings(H)'
    BY DEF ZeroDealings
  <1>4. \A q \in H : zeroDealt[q] \in {"zero", "cancelling"}
    BY DEF ZeroDealings
  <1>5. ZeroSums(H)'
    <2> HIDE DEF ZeroKinds
    <2> QED
      BY <1>4 DEF ZeroSums
  <1> QED
    BY <1>2, <1>3, <1>5

LEMMA ZeroStays ==
    ASSUME NEW H \in SUBSET Quorum, ZeroInv(H),
           zeroRound' = zeroRound, zeroDealt' = zeroDealt, zeroSum' = zeroSum
    PROVE  ZeroInv(H)'
  BY DEF ZeroInv, ZeroTypes, ZeroDealings, ZeroSums

\* Whoever a loop finds, if it looks for corrupt parties only.
LEMMA FirstOfCorrupt ==
    ASSUME NEW S \in SUBSET Corrupt, S # {}
    PROVE  (CHOOSE q \in S : \A other \in S : q <= other) \in S
  BY FirstIsMember, DealingsAssumption

-----------------------------------------------------------------------------
(***************************************************************************)
(* Redistribution.                                                         *)
(***************************************************************************)
Prev == PrevShareholders

LEMMA PrevInQuorum == Prev \in SUBSET Quorum /\ NextShareholders \in SUBSET Quorum /\ IsFiniteSet(Prev)
  <1>1. Prev \in SUBSET Quorum /\ NextShareholders \in SUBSET Quorum
    BY KeyProtocolsAssumption DEF Prev
  <1> QED
    BY <1>1, DealingsAssumption, FS_Subset

\* The zero sharing's part of a redistribution step.
LEMMA RedistributionZero ==
    ASSUME ZeroInv(Prev), NEW p \in Honest, p \in Prev
    PROVE  /\ Redistribution!ZeroRound1(p) => ZeroInv(Prev)' /\ zeroSum' = zeroSum
           /\ \A shares \in Redistribution!ZeroHanded(p) :
                 Redistribution!ZeroRound2Fails(p, shares) =>
                    /\ ZeroInv(Prev)' /\ zeroSum' = zeroSum
                    /\ \E culprit \in Corrupt : blamed' = blamed \cup {<<p, culprit>>}
           /\ \A shares \in Redistribution!ZeroHanded(p) :
                 Redistribution!ZeroAllDealt(p) /\ Redistribution!ZeroRound2Returns(p, shares) =>
                    /\ ZeroInv(Prev)' /\ zeroSum' = [zeroSum EXCEPT ![p] = Everyone(Prev)]
                    /\ blamed' = blamed
  <1>0. Prev \in SUBSET Quorum /\ p \in Prev \ Corrupt
    BY PrevInQuorum DEF Honest
  <1>1. ASSUME Redistribution!ZeroRound1(p) PROVE ZeroInv(Prev)' /\ zeroSum' = zeroSum
    <2>1. /\ zeroDealt' = [zeroDealt EXCEPT ![p] = "zero"]
          /\ zeroRound' = [zeroRound EXCEPT ![p] = 2] /\ zeroSum' = zeroSum
      BY <1>1 DEF Redistribution!ZeroRound1
    <2>2. "zero" \in ZeroKinds
      BY DEF ZeroKinds
    <2> QED
      BY <1>0, <2>1, <2>2, ZeroDeals
  <1>2. ASSUME NEW shares \in Redistribution!ZeroHanded(p)
        PROVE  /\ DOMAIN shares = Prev \ {p}
               /\ \A q \in (Prev \ {p}) \ Corrupt : shares[q] = "right"
    BY <1>2 DEF Redistribution!ZeroHanded, Redistribution!OtherHolders, Prev
  <1>3. \A q \in Prev \ Corrupt : zeroDealt[q] \notin {"malformed", "nonzero"}
    BY KeyProtocolsAssumption DEF ZeroInv, ZeroDealings
  <1>4. ASSUME NEW shares \in Redistribution!ZeroHanded(p), Redistribution!ZeroRound2Fails(p, shares)
        PROVE  /\ ZeroInv(Prev)' /\ zeroSum' = zeroSum
               /\ \E culprit \in Corrupt : blamed' = blamed \cup {<<p, culprit>>}
    <2>1. zeroRound' = zeroRound /\ zeroDealt' = zeroDealt /\ zeroSum' = zeroSum
      BY <1>4 DEF Redistribution!ZeroRound2Fails
    <2>2. Redistribution!ZeroMalformed(p, shares) \in SUBSET Corrupt
      BY <1>2, <1>3, <1>4
      DEF Redistribution!ZeroMalformed, Redistribution!With, Redistribution!OtherHolders, Prev
    <2>3. Redistribution!ZeroRefuted(p, shares) \in SUBSET Corrupt
      BY <1>2, <1>3, <1>4
      DEF Redistribution!ZeroRefuted, Redistribution!With, Redistribution!OtherHolders, Prev
    <2>4. \E culprit \in Corrupt : blamed' = blamed \cup {<<p, culprit>>}
      BY <1>4, <2>2, <2>3, FirstOfCorrupt DEF Redistribution!ZeroRound2Fails, Redistribution!First
    <2> QED
      BY <1>0, <2>1, <2>4, ZeroStays
  <1>5. ASSUME NEW shares \in Redistribution!ZeroHanded(p),
               Redistribution!ZeroAllDealt(p), Redistribution!ZeroRound2Returns(p, shares)
        PROVE  /\ ZeroInv(Prev)' /\ zeroSum' = [zeroSum EXCEPT ![p] = Everyone(Prev)]
               /\ blamed' = blamed
    <2>1. /\ zeroRound[p] = 2 /\ zeroRound' = [zeroRound EXCEPT ![p] = 3]
          /\ zeroDealt' = zeroDealt /\ blamed' = blamed
          /\ zeroSum' = [zeroSum EXCEPT ![p] =
                 Redistribution!Add(Redistribution!ZeroStart(p), Redistribution!OtherHolders(p))]
      BY <1>5 DEF Redistribution!ZeroRound2Returns
    <2>2. Redistribution!Add(Redistribution!ZeroStart(p), Redistribution!OtherHolders(p)) = Everyone(Prev)
      BY <1>0 DEF Redistribution!Add, Redistribution!ZeroStart, Redistribution!Nothing,
                  Redistribution!OtherHolders, Everyone, Prev
    <2>3. \A q \in Prev \ {p} : zeroDealt[q] \in {"zero", "cancelling"}
      <3>1. \A q \in Prev \ {p} : zeroDealt[q] # None
        BY <1>5 DEF Redistribution!ZeroAllDealt, Redistribution!OtherHolders, Prev
      <3>2. \A q \in Prev \ {p} : zeroDealt[q] \notin {"malformed", "nonzero"}
        BY <1>5 DEF Redistribution!ZeroRound2Returns, Redistribution!ZeroMalformed,
                    Redistribution!ZeroRefuted, Redistribution!OtherHolders, Prev
      <3> QED
        BY <3>1, <3>2 DEF ZeroInv, ZeroTypes, ZeroKinds
    <2> QED
      BY <1>0, <2>1, <2>2, <2>3, ZeroReturns
  <1> QED
    BY <1>1, <1>4, <1>5


\* Whose round is where, and what is stored where.
RedistTypes ==
    /\ round \in [Honest -> 1 .. 4]
    /\ DOMAIN published = Prev
    /\ DOMAIN share = Honest /\ DOMAIN shard = Honest
    /\ trustedAnchorID \in [(NextShareholders \ Prev) \ Corrupt -> Prev \cup {0}]

RedistHonestly ==
    \A q \in Prev \ Corrupt : published[q] \in {None, Redistribution!Honestly}

\* What Round3 starts from: the own contribution of a previous shareholder that is
\* through with Round2, and nothing otherwise.
RedistShares ==
    \A p \in Honest :
        /\ round[p] \in {1, 2} =>
              share[p] = Redistribution!Nothing /\ (p \in Prev => zeroSum[p] = None)
        /\ round[p] = 3 /\ p \in Prev /\ p \in NextShareholders /\ zeroSum[p] # None =>
              share[p] = Redistribution!Add(Redistribution!Nothing, {p})
        /\ round[p] = 3 /\ p \notin Prev => share[p] = Redistribution!Nothing

RedistKeys ==
    Prev \ Corrupt # {} =>
        \A p \in Honest : shard[p] # None => shard[p] = [key |-> 0, of |-> Everyone(Prev)]

RedistBlame ==
    \A b \in blamed : b[2] \in Honest =>
        b[1] \in NextShareholders \ Prev /\ trustedAnchorID[b[1]] \in Corrupt

RedistFailures ==
    Prev \ Corrupt # {} =>
        \A p \in Honest : <<p, "key">> \in untagged => ~Redistribution!HasReference(p)

RedistInv ==
    /\ ZeroInv(Prev)
    /\ RedistTypes
    /\ RedistHonestly
    /\ RedistShares
    /\ RedistKeys
    /\ RedistBlame
    /\ RedistFailures

LEMMA ZeroMod == 0 % Order = 0 /\ (0 + 0) % Order = 0
  BY KeyProtocolsAssumption

\* Against an honest reference, nobody honest stands out.
LEMMA HonestPasses ==
    ASSUME NEW p \in Honest, NEW q \in Prev, published[q] = Redistribution!Honestly,
           Redistribution!Reference(p) = Redistribution!Honestly
    PROVE  /\ ~Redistribution!Inconsistent(p, q)
           /\ ~Redistribution!Unusable(p, q)
           /\ ~Redistribution!WrongHead(p, q)
  <1>1. (Redistribution!Truth)[q] = 0
    BY DEF Redistribution!Truth, Prev
  <1>2. Redistribution!ExpectedHead(Redistribution!Honestly, q) = 0
    BY <1>1, ZeroMod DEF Redistribution!ExpectedHead, Redistribution!Honestly
  <1>3. ~Redistribution!Inconsistent(p, q)
    BY DEF Redistribution!Inconsistent, Redistribution!SameMetadata
  <1>4. ~Redistribution!Unusable(p, q)
    BY DEF Redistribution!Unusable, Redistribution!Honestly
  <1>5. ~Redistribution!WrongHead(p, q)
    <2>1. published[q].head = 0
      BY DEF Redistribution!Honestly
    <2> QED
      BY <1>2, <2>1 DEF Redistribution!WrongHead
  <1> QED
    BY <1>3, <1>4, <1>5

\* The loop over the senders stops at an honest one on a corrupt anchor's word only.
LEMMA StopsAtCorrupt ==
    ASSUME RedistInv, NEW p \in Honest, p \in NextShareholders,
           \A q \in Prev \ {p} : published[q] # None,
           NEW q \in Redistribution!Stops(p), q \in Honest
    PROVE  p \notin Prev /\ trustedAnchorID[p] \in Corrupt
  <1>1. /\ Redistribution!HasReference(p) /\ q \in Prev \ {p}
        /\ \/ Redistribution!Inconsistent(p, q) \/ Redistribution!Unusable(p, q)
           \/ Redistribution!WrongHead(p, q)
    BY DEF Redistribution!Stops, Redistribution!OtherHolders, Prev
  <1>2. published[q] = Redistribution!Honestly
    BY <1>1 DEF RedistInv, RedistHonestly, Honest
  <1>3. Redistribution!Reference(p) # Redistribution!Honestly
    BY <1>1, <1>2, HonestPasses
  <1>4. p \notin Prev
    BY <1>3 DEF Redistribution!Reference, Redistribution!IsPrev, Prev
  <1>5. /\ Redistribution!Reference(p) = published[trustedAnchorID[p]]
        /\ trustedAnchorID[p] # 0
    BY <1>1, <1>4
    DEF Redistribution!Reference, Redistribution!IsPrev, Redistribution!HasReference, Prev
  <1>6. trustedAnchorID[p] \in Prev
    BY <1>4, <1>5 DEF RedistInv, RedistTypes, Honest
  <1>7. trustedAnchorID[p] \in Prev \ {p} /\ published[trustedAnchorID[p]] # None
    BY <1>4, <1>6
  <1> QED
    BY <1>3, <1>4, <1>5, <1>7 DEF RedistInv, RedistHonestly

\* When the senders' metadata is the honest previous shareholder's, the keys are
\* the old one.
LEMMA KeysAreTrue ==
    ASSUME RedistInv, NEW p \in Honest, p \in NextShareholders,
           \A q \in Prev \ {p} : published[q] # None,
           Prev \ Corrupt # {}, Redistribution!HasReference(p), Redistribution!Stops(p) = {}
    PROVE  /\ Redistribution!NewPk(p) = 0
           /\ \A q \in Prev \ {p} : Redistribution!OldPk(q) = 0
  <1>1. \A q \in Prev \ {p} : /\ ~Redistribution!Inconsistent(p, q)
                              /\ ~Redistribution!WrongHead(p, q)
    BY DEF Redistribution!Stops, Redistribution!OtherHolders, Prev
  <1> DEFINE ref == Redistribution!Reference(p)
  <1>2. ref.prev = Redistribution!Truth /\ ref.zero = Redistribution!Truth
    <2>1. CASE p \in Prev
      BY <2>1 DEF Redistribution!Reference, Redistribution!IsPrev, Prev, Redistribution!Honestly
    <2>2. CASE p \notin Prev
      <3>1. PICK h \in Prev \ Corrupt : TRUE
        OBVIOUS
      <3>2. h \in Prev \ {p} /\ published[h] = Redistribution!Honestly
        BY <2>2, <3>1 DEF RedistInv, RedistHonestly
      <3>3. Redistribution!SameMetadata(published[h], ref)
        BY <1>1, <3>2 DEF Redistribution!Inconsistent
      <3> QED
        BY <3>2, <3>3 DEF Redistribution!SameMetadata, Redistribution!Honestly
    <2> QED
      BY <2>1, <2>2
  <1>3. \A q \in Prev \ {p} : published[q].head = 0 /\ published[q].prev = Redistribution!Truth
    <2> SUFFICES ASSUME NEW q \in Prev \ {p}
                 PROVE  published[q].head = 0 /\ published[q].prev = Redistribution!Truth
      OBVIOUS
    <2>1. (Redistribution!Truth)[q] = 0
      BY DEF Redistribution!Truth, Prev
    <2>2. Redistribution!ExpectedHead(ref, q) = 0
      BY <1>2, <2>1, ZeroMod DEF Redistribution!ExpectedHead
    <2>3. published[q].head = 0
      BY <1>1, <2>2 DEF Redistribution!WrongHead
    <2>4. published[q].prev = Redistribution!Truth
      BY <1>1, <1>2 DEF Redistribution!Inconsistent, Redistribution!SameMetadata
    <2> QED
      BY <2>3, <2>4
  <1>4. Redistribution!Truth = [q \in Prev |-> 0]
    BY DEF Redistribution!Truth, Prev
  <1>5. Redistribution!SumFunction([q \in Prev |-> 0]) = 0
    BY PrevInQuorum, ZeroSum
  <1>6. Redistribution!NewPk(p) = 0
    <2> DEFINE heads == [q \in Prev |->
                 IF q \in Redistribution!OtherHolders(p) THEN published[q].head ELSE 0]
    <2>1. heads = [q \in Prev |-> 0]
      BY <1>3 DEF Redistribution!OtherHolders, Prev
    <2>2. Redistribution!NewPk(p) = Redistribution!SumFunction(heads) % Order
      BY DEF Redistribution!NewPk, Prev
    <2> HIDE DEF heads
    <2> QED
      BY <1>5, <2>1, <2>2, ZeroMod
  <1>7. \A q \in Prev \ {p} : Redistribution!OldPk(q) = 0
    BY <1>3, <1>4, <1>5, ZeroMod DEF Redistribution!OldPk
  <1> QED
    BY <1>6, <1>7


LEMMA RedistRound1 ==
    ASSUME RedistInv, NEW p \in Honest, Redistribution!Round1(p)
    PROVE  RedistInv'
  <1>1. /\ round[p] = 1 /\ round' = [round EXCEPT ![p] = 2]
        /\ trustedAnchorID' = trustedAnchorID /\ published' = published /\ share' = share
        /\ shard' = shard /\ untagged' = untagged /\ blamed' = blamed
    BY DEF Redistribution!Round1
  <1>2. ZeroInv(Prev)' /\ zeroSum' = zeroSum
    <2>1. CASE p \in Prev
      BY <2>1, RedistributionZero
      DEF RedistInv, Redistribution!Round1, Redistribution!IsPrev, Prev
    <2>2. CASE p \notin Prev
      BY <2>2, PrevInQuorum, ZeroStays
      DEF RedistInv, Redistribution!Round1, Redistribution!IsPrev, Prev, Redistribution!zeroVars
    <2> QED
      BY <2>1, <2>2
  <1>3. RedistTypes'
    BY <1>1 DEF RedistInv, RedistTypes
  <1>4. RedistShares'
    BY <1>1, <1>2 DEF RedistInv, RedistTypes, RedistShares
  <1>5. RedistHonestly' /\ RedistKeys' /\ RedistBlame'
    BY <1>1 DEF RedistInv, RedistHonestly, RedistKeys, RedistBlame
  <1>6. RedistFailures'
    BY <1>1
    DEF RedistInv, RedistFailures, Redistribution!HasReference, Redistribution!IsPrev
  <1> QED
    BY <1>2, <1>3, <1>4, <1>5, <1>6 DEF RedistInv

LEMMA RedistRound2 ==
    ASSUME RedistInv, NEW p \in Honest, Redistribution!Round2(p)
    PROVE  RedistInv'
  <1>1. /\ round[p] = 2 /\ round' = [round EXCEPT ![p] = 3]
        /\ trustedAnchorID' = trustedAnchorID /\ shard' = shard /\ untagged' = untagged
    BY DEF Redistribution!Round2
  <1>2. RedistKeys'
    BY <1>1 DEF RedistInv, RedistKeys
  <1>3. RedistFailures'
    BY <1>1
    DEF RedistInv, RedistFailures, Redistribution!HasReference, Redistribution!IsPrev
  <1>4. CASE Redistribution!Round2Abort(p)
    <2>1. /\ p \in Prev /\ published' = published /\ share' = share
          /\ ZeroInv(Prev)' /\ zeroSum' = zeroSum
          /\ \E culprit \in Corrupt : blamed' = blamed \cup {<<p, culprit>>}
      <3>1. p \in Prev /\ published' = published /\ share' = share
        BY <1>4 DEF Redistribution!Round2Abort, Redistribution!IsPrev, Prev
      <3>2. PICK shares \in Redistribution!ZeroHanded(p) : Redistribution!ZeroRound2Fails(p, shares)
        BY <1>4 DEF Redistribution!Round2Abort
      <3> QED
        BY <3>1, <3>2, RedistributionZero DEF RedistInv
    <2>2. RedistTypes' /\ RedistHonestly'
      BY <1>1, <2>1 DEF RedistInv, RedistTypes, RedistHonestly
    <2>3. RedistShares'
      BY <1>1, <2>1 DEF RedistInv, RedistTypes, RedistShares
    <2>4. RedistBlame'
      BY <1>1, <2>1 DEF RedistInv, RedistBlame, Honest
    <2> QED
      BY <1>2, <1>3, <2>1, <2>2, <2>3, <2>4 DEF RedistInv
  <1>5. CASE Redistribution!Round2Publish(p)
    <2>1. /\ p \in Prev /\ published' = [published EXCEPT ![p] = Redistribution!Honestly]
          /\ p \notin NextShareholders => share' = share
          /\ p \in NextShareholders =>
                share' = [share EXCEPT ![p] = Redistribution!Add(Redistribution!Nothing, {p})]
          /\ ZeroInv(Prev)' /\ zeroSum' = [zeroSum EXCEPT ![p] = Everyone(Prev)]
          /\ blamed' = blamed
      <3>1. /\ p \in Prev /\ published' = [published EXCEPT ![p] = Redistribution!Honestly]
            /\ p \notin NextShareholders => share' = share
            /\ p \in NextShareholders =>
                  share' = [share EXCEPT ![p] = Redistribution!Add(Redistribution!Nothing, {p})]
        BY <1>5 DEF Redistribution!Round2Publish, Redistribution!IsPrev, Redistribution!IsNext, Prev
      <3>2. PICK shares \in Redistribution!ZeroHanded(p) : Redistribution!ZeroRound2Returns(p, shares)
        BY <1>5 DEF Redistribution!Round2Publish
      <3>3. Redistribution!ZeroAllDealt(p)
        BY <1>5 DEF Redistribution!Round2Publish
      <3> QED
        BY <3>1, <3>2, <3>3, RedistributionZero DEF RedistInv
    <2>2. RedistTypes'
      <3>1. DOMAIN published' = Prev /\ DOMAIN share' = Honest /\ DOMAIN shard' = Honest
        BY <1>1, <2>1 DEF RedistInv, RedistTypes
      <3>2. round' \in [Honest -> 1 .. 4]
        BY <1>1 DEF RedistInv, RedistTypes
      <3> QED
        BY <1>1, <3>1, <3>2 DEF RedistInv, RedistTypes
    <2>3. RedistHonestly'
      BY <2>1 DEF RedistInv, RedistTypes, RedistHonestly
    <2>4. RedistShares'
      <3>1. \A other \in Honest \ {p} : /\ round'[other] = round[other] /\ share'[other] = share[other]
                                        /\ zeroSum'[other] = zeroSum[other]
        <4>1. \A other \in Honest \ {p} : round'[other] = round[other] /\ share'[other] = share[other]
          BY <1>1, <2>1 DEF RedistInv, RedistTypes
        <4>2. \A other : other # p => zeroSum'[other] = zeroSum[other]
          BY <2>1
        <4> QED
          BY <4>1, <4>2
      <3>2. /\ round'[p] = 3 /\ p \in Prev
            /\ p \in NextShareholders => share'[p] = Redistribution!Add(Redistribution!Nothing, {p})
        BY <1>1, <2>1 DEF RedistInv, RedistTypes
      <3> SUFFICES ASSUME NEW q \in Honest
                   PROVE  /\ round'[q] \in {1, 2} =>
                                /\ share'[q] = Redistribution!Nothing
                                /\ q \in Prev => zeroSum'[q] = None
                          /\ round'[q] = 3 /\ q \in Prev /\ q \in NextShareholders
                             /\ zeroSum'[q] # None =>
                                share'[q] = Redistribution!Add(Redistribution!Nothing, {q})
                          /\ round'[q] = 3 /\ q \notin Prev => share'[q] = Redistribution!Nothing
        BY DEF RedistShares, Redistribution!Nothing, Redistribution!Add
      <3>3. CASE q = p
        BY <3>2, <3>3
      <3>4. CASE q # p
        BY <3>1, <3>4 DEF RedistInv, RedistShares
      <3> QED
        BY <3>3, <3>4
    <2>5. RedistBlame'
      BY <1>1, <2>1 DEF RedistInv, RedistBlame
    <2> QED
      BY <1>2, <1>3, <2>1, <2>2, <2>3, <2>4, <2>5 DEF RedistInv
  <1>6. CASE /\ p \notin Prev /\ published' = published /\ share' = share /\ blamed' = blamed
             /\ zeroRound' = zeroRound /\ zeroDealt' = zeroDealt /\ zeroSum' = zeroSum
    <2>1. ZeroInv(Prev)'
      BY <1>6, PrevInQuorum, ZeroStays DEF RedistInv
    <2>2. RedistTypes' /\ RedistHonestly' /\ RedistBlame'
      BY <1>1, <1>6 DEF RedistInv, RedistTypes, RedistHonestly, RedistBlame
    <2>3. RedistShares'
      BY <1>1, <1>6 DEF RedistInv, RedistTypes, RedistShares
    <2> QED
      BY <1>2, <1>3, <2>1, <2>2, <2>3 DEF RedistInv
  <1> QED
    BY <1>4, <1>5, <1>6
    DEF Redistribution!Round2, Redistribution!IsPrev, Prev, Redistribution!zeroVars


\* A step in which p leaves round 3, without or with a share added up.
LEMMA RedistLeaves ==
    ASSUME RedistInv, NEW p \in Honest,
           round[p] = 3, round' = [round EXCEPT ![p] = 4],
           trustedAnchorID' = trustedAnchorID, published' = published,
           zeroRound' = zeroRound, zeroDealt' = zeroDealt, zeroSum' = zeroSum,
           DOMAIN share' = Honest, \A q \in Honest \ {p} : share'[q] = share[q],
           DOMAIN shard' = Honest, RedistKeys', RedistBlame', RedistFailures'
    PROVE  RedistInv'
  <1>1. ZeroInv(Prev)'
    BY PrevInQuorum, ZeroStays DEF RedistInv
  <1>2. RedistTypes' /\ RedistHonestly'
    BY DEF RedistInv, RedistTypes, RedistHonestly
  <1>3. RedistShares'
    <2>1. round'[p] = 4 /\ \A q \in Honest \ {p} : round'[q] = round[q] /\ share'[q] = share[q]
      BY DEF RedistInv, RedistTypes
    <2> SUFFICES ASSUME NEW q \in Honest
                 PROVE  /\ round'[q] \in {1, 2} =>
                              /\ share'[q] = Redistribution!Nothing
                              /\ q \in Prev => zeroSum'[q] = None
                        /\ round'[q] = 3 /\ q \in Prev /\ q \in NextShareholders
                           /\ zeroSum'[q] # None =>
                              share'[q] = Redistribution!Add(Redistribution!Nothing, {q})
                        /\ round'[q] = 3 /\ q \notin Prev => share'[q] = Redistribution!Nothing
      BY DEF RedistShares, Redistribution!Nothing, Redistribution!Add
    <2>2. CASE q = p
      BY <2>1, <2>2
    <2>3. CASE q # p
      BY <2>1, <2>3 DEF RedistInv, RedistShares
    <2> QED
      BY <2>2, <2>3
  <1> QED
    BY <1>1, <1>2, <1>3 DEF RedistInv

\* The three ways in which Round3 ends, for the invariant's last parts.
LEMMA RedistNames ==
    ASSUME RedistInv, NEW p \in Honest, NEW q, Redistribution!Blame(p, q),
           trustedAnchorID' = trustedAnchorID,
           q \in Corrupt \/ (p \in NextShareholders \ Prev /\ trustedAnchorID[p] \in Corrupt)
    PROVE  DOMAIN shard' = Honest /\ RedistKeys' /\ RedistBlame' /\ RedistFailures'
  <1>1. blamed' = blamed \cup {<<p, q>>} /\ shard' = shard /\ untagged' = untagged
    BY DEF Redistribution!Blame
  <1>2. RedistBlame'
    BY <1>1 DEF RedistInv, RedistBlame, Honest
  <1>3. RedistKeys' /\ DOMAIN shard' = Honest
    BY <1>1 DEF RedistInv, RedistKeys, RedistTypes
  <1>4. RedistFailures'
    BY <1>1
    DEF RedistInv, RedistFailures, Redistribution!HasReference, Redistribution!IsPrev
  <1> QED
    BY <1>2, <1>3, <1>4

LEMMA RedistFails ==
    ASSUME RedistInv, NEW p \in Honest, NEW reason, Redistribution!Fail(p, reason),
           trustedAnchorID' = trustedAnchorID,
           reason = "key" /\ Prev \ Corrupt # {} => ~Redistribution!HasReference(p)
    PROVE  DOMAIN shard' = Honest /\ RedistKeys' /\ RedistBlame' /\ RedistFailures'
  <1>1. untagged' = untagged \cup {<<p, reason>>} /\ shard' = shard /\ blamed' = blamed
    BY DEF Redistribution!Fail
  <1>2. RedistBlame'
    BY <1>1 DEF RedistInv, RedistBlame
  <1>3. RedistKeys' /\ DOMAIN shard' = Honest
    BY <1>1 DEF RedistInv, RedistKeys, RedistTypes
  <1>4. RedistFailures'
    BY <1>1
    DEF RedistInv, RedistFailures, Redistribution!HasReference, Redistribution!IsPrev
  <1> QED
    BY <1>2, <1>3, <1>4

LEMMA RedistReturns ==
    ASSUME RedistInv, NEW p \in Honest, NEW key, NEW sum,
           shard' = [shard EXCEPT ![p] = [key |-> key, of |-> sum]],
           blamed' = blamed, untagged' = untagged, trustedAnchorID' = trustedAnchorID,
           Prev \ Corrupt # {} => key = 0 /\ sum = Everyone(Prev)
    PROVE  DOMAIN shard' = Honest /\ RedistKeys' /\ RedistBlame' /\ RedistFailures'
  <1>1. RedistBlame'
    BY DEF RedistInv, RedistBlame
  <1>2. DOMAIN shard' = Honest
    BY DEF RedistInv, RedistTypes
  <1>3. RedistKeys'
    BY DEF RedistInv, RedistKeys, RedistTypes
  <1>4. RedistFailures'
    BY DEF RedistInv, RedistFailures, Redistribution!HasReference, Redistribution!IsPrev
  <1> QED
    BY <1>1, <1>2, <1>3, <1>4

LEMMA RedistAggregate ==
    ASSUME RedistInv, NEW p \in Honest, p \in NextShareholders, round[p] = 3,
           \A q \in Prev \ {p} : published[q] # None, trustedAnchorID' = trustedAnchorID,
           NEW shares, Redistribution!With(shares, "wrong") \in SUBSET Corrupt,
           Redistribution!Round3Aggregate(p, shares)
    PROVE  /\ DOMAIN share' = Honest /\ \A q \in Honest \ {p} : share'[q] = share[q]
           /\ DOMAIN shard' = Honest /\ RedistKeys' /\ RedistBlame' /\ RedistFailures'
  <1> DEFINE sum == Redistribution!Add(share[p], Redistribution!OtherHolders(p))
             wrong == Redistribution!With(shares, "wrong")
             noVector == p \in Prev /\ zeroSum[p] = None
  <1>1. share' = [share EXCEPT ![p] = sum]
    BY DEF Redistribution!Round3Aggregate
  <1>2. DOMAIN share' = Honest /\ share'[p] = sum /\ \A q \in Honest \ {p} : share'[q] = share[q]
    BY <1>1 DEF RedistInv, RedistTypes
  <1>3. CASE wrong # {}
    <2>1. Redistribution!Blame(p, Redistribution!First(wrong))
      BY <1>3 DEF Redistribution!Round3Aggregate
    <2>2. Redistribution!First(wrong) \in Corrupt
      BY <1>3, FirstOfCorrupt DEF Redistribution!First
    <2> QED
      BY <1>2, <2>1, <2>2, RedistNames
  <1>4. CASE wrong = {} /\ noVector
    <2>1. Redistribution!Fail(p, "no zero vector")
      BY <1>4 DEF Redistribution!Round3Aggregate, Redistribution!IsPrev, Prev
    <2> QED
      BY <1>2, <2>1, RedistFails
  <1>5. CASE wrong = {} /\ ~noVector /\ Redistribution!Stops(p) # {}
    <2> DEFINE first == Redistribution!First(Redistribution!Stops(p))
    <2>1. IF Redistribution!Unusable(p, first) THEN Redistribution!Fail(p, "MSP")
          ELSE Redistribution!Blame(p, first)
      BY <1>5 DEF Redistribution!Round3Aggregate, Redistribution!IsPrev, Prev
    <2>2. Redistribution!Stops(p) \in SUBSET Quorum
      BY PrevInQuorum DEF Redistribution!Stops, Redistribution!OtherHolders, Prev
    <2>3. first \in Redistribution!Stops(p) /\ first \in Quorum
      BY <1>5, <2>2, FirstIsMember DEF Redistribution!First
    <2> HIDE DEF first
    <2>4. first \in Corrupt \/ (p \in NextShareholders \ Prev /\ trustedAnchorID[p] \in Corrupt)
      BY <2>3, StopsAtCorrupt DEF Honest
    <2>5. CASE Redistribution!Unusable(p, first)
      BY <1>2, <2>1, <2>5, RedistFails
    <2>6. CASE ~Redistribution!Unusable(p, first)
      BY <1>2, <2>1, <2>4, <2>6, RedistNames
    <2> QED
      BY <2>5, <2>6
  <1>6. CASE wrong = {} /\ ~noVector /\ Redistribution!Stops(p) = {} /\ Redistribution!KeyChanged(p)
    <2>1. Redistribution!Fail(p, "key")
      BY <1>6 DEF Redistribution!Round3Aggregate, Redistribution!IsPrev, Prev
    <2>2. Prev \ Corrupt # {} => ~Redistribution!HasReference(p)
      BY <1>6, KeysAreTrue DEF Redistribution!KeyChanged, Redistribution!OtherHolders, Prev
    <2> QED
      BY <1>2, <2>1, <2>2, RedistFails
  <1>7. CASE wrong = {} /\ ~noVector /\ Redistribution!Stops(p) = {} /\ ~Redistribution!KeyChanged(p)
    <2>1. /\ shard' = [shard EXCEPT ![p] = [key |-> Redistribution!NewPk(p), of |-> share'[p]]]
          /\ blamed' = blamed /\ untagged' = untagged
      BY <1>7 DEF Redistribution!Round3Aggregate, Redistribution!IsPrev, Prev
    <2>2. ASSUME Prev \ Corrupt # {} PROVE Redistribution!NewPk(p) = 0
      <3>1. CASE Redistribution!HasReference(p)
        BY <1>7, <2>2, <3>1, KeysAreTrue
      <3>2. CASE ~Redistribution!HasReference(p)
        <4>1. p \notin Prev
          BY <3>2 DEF Redistribution!HasReference, Redistribution!IsPrev, Prev
        <4>2. PICK h \in Prev \ Corrupt : TRUE
          BY <2>2
        <4>3. h \in Prev \ {p} /\ published[h] = Redistribution!Honestly
          BY <4>1, <4>2 DEF RedistInv, RedistHonestly
        <4>4. Redistribution!OldPk(h) = 0
          <5>1. published[h].prev = [q \in Prev |-> 0]
            BY <4>3 DEF Redistribution!Honestly, Redistribution!Truth, Prev
          <5> QED
            BY <5>1, PrevInQuorum, ZeroSum, ZeroMod DEF Redistribution!OldPk
        <4> QED
          BY <1>7, <4>3, <4>4
          DEF Redistribution!KeyChanged, Redistribution!OtherHolders, Prev
      <3> QED
        BY <3>1, <3>2
    <2>3. sum = Everyone(Prev)
      <3>1. CASE p \in Prev
        <4>1. share[p] = Redistribution!Add(Redistribution!Nothing, {p})
          BY <1>7, <3>1 DEF RedistInv, RedistShares
        <4> QED
          BY <3>1, <4>1 DEF Redistribution!Add, Redistribution!Nothing,
                            Redistribution!OtherHolders, Everyone, Prev
      <3>2. CASE p \notin Prev
        <4>1. share[p] = Redistribution!Nothing
          BY <3>2 DEF RedistInv, RedistShares
        <4> QED
          BY <3>2, <4>1 DEF Redistribution!Add, Redistribution!Nothing,
                            Redistribution!OtherHolders, Everyone, Prev
      <3> QED
        BY <3>1, <3>2
    <2> HIDE DEF sum
    <2>4. share'[p] = Everyone(Prev)
      BY <1>2, <2>3
    <2> QED
      BY <1>2, <2>1, <2>2, <2>4, RedistReturns
  <1> QED
    BY <1>3, <1>4, <1>5, <1>6, <1>7


LEMMA RedistRound3 ==
    ASSUME RedistInv, NEW p \in Honest, Redistribution!Round3(p)
    PROVE  RedistInv'
  <1>1. /\ round[p] = 3 /\ round' = [round EXCEPT ![p] = 4]
        /\ trustedAnchorID' = trustedAnchorID /\ published' = published
        /\ zeroRound' = zeroRound /\ zeroDealt' = zeroDealt /\ zeroSum' = zeroSum
    BY DEF Redistribution!Round3, Redistribution!zeroVars
  <1>2. CASE p \notin NextShareholders
    <2>1. share' = share /\ shard' = shard /\ untagged' = untagged /\ blamed' = blamed
      BY <1>2 DEF Redistribution!Round3, Redistribution!IsNext
    <2>2. DOMAIN share' = Honest /\ DOMAIN shard' = Honest /\ RedistKeys' /\ RedistBlame'
      BY <1>1, <2>1 DEF RedistInv, RedistTypes, RedistKeys, RedistBlame
    <2>3. RedistFailures'
      BY <1>1, <2>1
      DEF RedistInv, RedistFailures, Redistribution!HasReference, Redistribution!IsPrev
    <2> QED
      BY <1>1, <2>1, <2>2, <2>3, RedistLeaves
  <1>3. CASE p \in NextShareholders
    <2>1. \A q \in Prev \ {p} : published[q] # None
      BY <1>3 DEF Redistribution!Round3, Redistribution!IsNext, Redistribution!OtherHolders, Prev
    <2>2. PICK shares \in Redistribution!Handed(p) :
             Redistribution!Round3Reject(p, shares) \/ Redistribution!Round3Aggregate(p, shares)
      BY <1>3 DEF Redistribution!Round3, Redistribution!IsNext
    <2>3. /\ DOMAIN shares = Prev \ {p}
          /\ \A q \in (Prev \ {p}) \ Corrupt : shares[q] = "right"
      BY <2>2 DEF Redistribution!Handed, Redistribution!OtherHolders, Prev
    <2>4. /\ Redistribution!With(shares, "wrong") \in SUBSET Corrupt
          /\ Redistribution!With(shares, "malformed") \in SUBSET Corrupt
      BY <2>3 DEF Redistribution!With
    <2>5. CASE Redistribution!Round3Reject(p, shares)
      <3> DEFINE malformed == Redistribution!Malformed3(p, shares)
      <3>1. malformed # {} /\ Redistribution!Blame(p, Redistribution!First(malformed)) /\ share' = share
        BY <2>5 DEF Redistribution!Round3Reject
      <3>2. \A q \in (Prev \ {p}) \ Corrupt : published[q].msp # "malformed"
        BY <2>1 DEF RedistInv, RedistHonestly, Redistribution!Honestly
      <3>3. malformed \in SUBSET Corrupt
        BY <2>4, <3>2 DEF Redistribution!Malformed3, Redistribution!OtherHolders, Prev
      <3>4. Redistribution!First(malformed) \in Corrupt
        BY <3>1, <3>3, FirstOfCorrupt DEF Redistribution!First
      <3> HIDE DEF malformed
      <3>5. DOMAIN shard' = Honest /\ RedistKeys' /\ RedistBlame' /\ RedistFailures'
        BY <1>1, <3>1, <3>4, RedistNames
      <3>6. DOMAIN share' = Honest
        BY <3>1 DEF RedistInv, RedistTypes
      <3> QED
        BY <1>1, <3>1, <3>5, <3>6, RedistLeaves
    <2>6. CASE Redistribution!Round3Aggregate(p, shares)
      <3>1. /\ DOMAIN share' = Honest /\ \A q \in Honest \ {p} : share'[q] = share[q]
            /\ DOMAIN shard' = Honest /\ RedistKeys' /\ RedistBlame' /\ RedistFailures'
        BY <1>1, <1>3, <2>1, <2>4, <2>6, RedistAggregate
      <3> QED
        BY <1>1, <3>1, RedistLeaves
    <2> QED
      BY <2>2, <2>5, <2>6
  <1> QED
    BY <1>2, <1>3

LEMMA RedistCorrupt ==
    ASSUME RedistInv, NEW c \in Corrupt \cap Prev,
           round' = round, trustedAnchorID' = trustedAnchorID, share' = share, shard' = shard,
           untagged' = untagged, blamed' = blamed, zeroSum' = zeroSum, ZeroInv(Prev)',
           \/ published' = published
           \/ \E broadcast : published' = [published EXCEPT ![c] = broadcast]
    PROVE  RedistInv'
  <1>1. RedistTypes'
    BY DEF RedistInv, RedistTypes
  <1>2. RedistHonestly'
    BY DEF RedistInv, RedistTypes, RedistHonestly
  <1>3. RedistShares' /\ RedistKeys' /\ RedistBlame'
    BY DEF RedistInv, RedistShares, RedistKeys, RedistBlame
  <1>4. RedistFailures'
    BY DEF RedistInv, RedistFailures, Redistribution!HasReference, Redistribution!IsPrev
  <1> QED
    BY <1>1, <1>2, <1>3, <1>4 DEF RedistInv

LEMMA RedistStep ==
    ASSUME RedistInv, [Redistribution!Next]_(Redistribution!vars)
    PROVE  RedistInv'
  <1>1. ASSUME NEW p \in Honest, Redistribution!Round1(p) PROVE RedistInv'
    BY <1>1, RedistRound1
  <1>2. ASSUME NEW p \in Honest, Redistribution!Round2(p) PROVE RedistInv'
    BY <1>2, RedistRound2
  <1>3. ASSUME NEW p \in Honest, Redistribution!Round3(p) PROVE RedistInv'
    BY <1>3, RedistRound3
  <1>4. ASSUME NEW c \in Corrupt \cap Prev, NEW broadcast, Redistribution!CorruptPublish(c, broadcast)
        PROVE  RedistInv'
    <2>1. /\ round' = round /\ trustedAnchorID' = trustedAnchorID /\ share' = share
          /\ shard' = shard /\ untagged' = untagged /\ blamed' = blamed
          /\ zeroRound' = zeroRound /\ zeroDealt' = zeroDealt /\ zeroSum' = zeroSum
          /\ published' = [published EXCEPT ![c] = broadcast]
      BY <1>4 DEF Redistribution!CorruptPublish, Redistribution!zeroVars
    <2>2. ZeroInv(Prev)'
      BY <2>1, PrevInQuorum, ZeroStays DEF RedistInv
    <2> QED
      BY <2>1, <2>2, RedistCorrupt
  <1>5. ASSUME NEW c \in Corrupt \cap Prev, NEW kind \in ZeroKinds,
               Redistribution!ZeroCorruptDeal(c, kind),
               UNCHANGED <<round, trustedAnchorID, published, share, shard, untagged, blamed>>
        PROVE  RedistInv'
    <2>1. /\ zeroDealt[c] = None /\ zeroDealt' = [zeroDealt EXCEPT ![c] = kind]
          /\ zeroRound' = zeroRound /\ zeroSum' = zeroSum
      BY <1>5 DEF Redistribution!ZeroCorruptDeal
    <2>2. ZeroInv(Prev)'
      BY <1>5, <2>1, PrevInQuorum, ZeroDeals DEF RedistInv
    <2> QED
      BY <1>5, <2>1, <2>2, RedistCorrupt
  <1>6. ASSUME UNCHANGED Redistribution!vars PROVE RedistInv'
    <2>1. /\ round' = round /\ trustedAnchorID' = trustedAnchorID /\ share' = share
          /\ shard' = shard /\ untagged' = untagged /\ blamed' = blamed /\ published' = published
          /\ zeroRound' = zeroRound /\ zeroDealt' = zeroDealt /\ zeroSum' = zeroSum
      BY <1>6 DEF Redistribution!vars, Redistribution!zeroVars
    <2>2. ZeroInv(Prev)'
      BY <2>1, PrevInQuorum, ZeroStays DEF RedistInv
    <2>3. RedistFailures'
      BY <2>1
      DEF RedistInv, RedistFailures, Redistribution!HasReference, Redistribution!IsPrev
    <2>4. RedistTypes' /\ RedistHonestly'
      BY <2>1 DEF RedistInv, RedistTypes, RedistHonestly
    <2>5. RedistShares' /\ RedistKeys' /\ RedistBlame'
      BY <2>1 DEF RedistInv, RedistShares, RedistKeys, RedistBlame
    <2> QED
      BY <2>2, <2>3, <2>4, <2>5 DEF RedistInv
  <1>7. CASE Redistribution!Next
    <2>1. Redistribution!Honest = Honest /\ Redistribution!ZeroKinds = ZeroKinds
      BY DEF Redistribution!Honest, Honest, Redistribution!ZeroKinds, ZeroKinds
    <2>2. \/ \E p \in Honest : \/ Redistribution!Round1(p) \/ Redistribution!Round2(p)
                               \/ Redistribution!Round3(p)
          \/ \E c \in Corrupt \cap Prev :
                \/ \E broadcast : Redistribution!CorruptPublish(c, broadcast)
                \/ \E kind \in ZeroKinds :
                      /\ Redistribution!ZeroCorruptDeal(c, kind)
                      /\ UNCHANGED <<round, trustedAnchorID, published, share, shard, untagged, blamed>>
      BY <1>7, <2>1 DEF Redistribution!Next, Prev
    <2> QED
      BY <1>1, <1>2, <1>3, <1>4, <1>5, <2>2
  <1> QED
    BY <1>6, <1>7

LEMMA RedistHolds == Spec => [](protocol = "redistribute" => RedistInv)
  <1>1. Init => (protocol = "redistribute" => RedistInv)
    <2> SUFFICES ASSUME Redistribution!Init PROVE RedistInv
      BY DEF Init
    <2>1. ZeroInv(Prev)
      <3>1. /\ zeroRound = [p \in Prev \ Corrupt |-> 1] /\ zeroDealt = [q \in Prev |-> None]
            /\ zeroSum = [p \in Prev \ Corrupt |-> None]
        BY DEF Redistribution!Init, Redistribution!ZeroInit, Redistribution!HonestHolders, Prev
      <3>2. ZeroTypes(Prev)
        BY <3>1 DEF ZeroTypes
      <3> QED
        BY <3>1, <3>2 DEF ZeroInv, ZeroDealings, ZeroSums
    <2>2. RedistTypes
      BY DEF RedistTypes, Redistribution!Init, Redistribution!Honest, Honest,
             Redistribution!NextOnly, Prev
    <2>3. RedistShares
      BY DEF RedistShares, Redistribution!Init, Redistribution!Honest, Honest,
             Redistribution!ZeroInit, Redistribution!HonestHolders, Prev
    <2>4. RedistHonestly /\ RedistKeys /\ RedistBlame /\ RedistFailures
      BY DEF RedistHonestly, RedistKeys, RedistBlame, RedistFailures, Redistribution!Init,
             Redistribution!Honest, Honest, Prev
    <2> QED
      BY <2>1, <2>2, <2>3, <2>4 DEF RedistInv
  <1>2. protocol = "redistribute" /\ [Next]_vars =>
           protocol' = "redistribute" /\ [Redistribution!Next]_(Redistribution!vars)
    BY DEF Next, vars, zeroOnly, redistributeOnly, Redistribution!vars, Redistribution!zeroVars
  <1>3. protocol' = "redistribute" /\ [Next]_vars => protocol = "redistribute"
    BY DEF Next, vars
  <1>4. (protocol = "redistribute" => RedistInv) /\ [Next]_vars =>
           (protocol = "redistribute" => RedistInv)'
    BY <1>2, <1>3, RedistStep
  <1> QED
    BY <1>1, <1>4, PTL DEF Spec

\* A shard that redistribution returns belongs to the old key and holds every
\* previous shareholder's contribution once, while one of them is honest.
THEOREM KeyPreservedHolds == Spec => []KeyPreserved
  <1>1. RedistInv => Redistribution!KeyPreserved
    <2>1. Redistribution!Add(Redistribution!Nothing, Prev) = Everyone(Prev)
      BY DEF Redistribution!Add, Redistribution!Nothing, Everyone
    <2> QED
      BY <2>1 DEF RedistInv, RedistKeys, Redistribution!KeyPreserved, Redistribution!HonestHolders,
                  Redistribution!Honest, Honest, Prev
  <1>2. (protocol = "redistribute" => RedistInv) => KeyPreserved
    BY <1>1 DEF KeyPreserved
  <1> QED
    BY <1>2, RedistHolds, PTL

\* In a redistribution honest parties are named on a corrupt anchor's word only,
\* and the check of the key fails only for parties without a reference, if one of
\* the previous shareholders is honest.
THEOREM BlameFollowsAnchorHolds ==
    ASSUME PrevShareholders \ Corrupt # {}
    PROVE  Spec => []BlameFollowsAnchor
  <1>1. RedistInv => Redistribution!BlameIsJust
    BY DEF RedistInv, RedistBlame, RedistFailures, Redistribution!BlameIsJust,
           Redistribution!NextOnly, Redistribution!Honest, Honest, Prev
  <1>2. (protocol = "redistribute" => RedistInv) => BlameFollowsAnchor
    BY <1>1 DEF BlameFollowsAnchor
  <1> QED
    BY <1>2, RedistHolds, PTL


-----------------------------------------------------------------------------
(***************************************************************************)
(* Lindell22.                                                              *)
(***************************************************************************)
SigningTypes ==
    /\ round \in [Honest -> 1 .. 4]
    /\ DOMAIN committed = Quorum /\ DOMAIN bigR = Honest /\ DOMAIN psig = Honest
    /\ calls \in [Honest -> [{2, 3} -> Nat]]

\* A Round1Broadcast has the commitment and the zero sharing.
SigningCommitments ==
    /\ \A p \in Honest : committed[p] \in {"none", "sealed"}
    /\ \A q \in Quorum : committed[q] # "none" => zeroDealt[q] # None

\* Unless Round3 is repeated, the nonces are added up once.
SigningNonces ==
    \A p \in Honest :
        /\ round[p] \in {1, 2} => calls[p][3] = 0
        /\ round[p] \in {2, 3} /\ calls[p][3] = 0 => bigR[p] = Signing!Add(Signing!Nothing, {p})
        /\ round[p] = 4 /\ calls[p][3] <= 1 => bigR[p] = Signing!Once

\* Whether a signature scheme negates the nonces of a sum, with the scheme as
\* an argument, and the part of a cosigner that holds this sum.
NegatesIn(sch, nonce) ==
    /\ sch.variant # "schnorr"
    /\ IF nonce \in [Quorum -> Nat] THEN nonce \in sch.odd
       ELSE Signing!Minus(nonce) \notin sch.odd

HonestPart(sch, nonce) == Signing!Part(nonce, NegatesIn(sch, nonce), 0, 0)

\* A partial signature is for the nonce sum that its cosigner is left with.
SigningParts ==
    \A p \in Honest : psig[p] # None => round[p] = 4 /\ psig[p] = HonestPart(scheme, bigR[p])

\* A cosigner that is behind its zero participant met a share that vanished.
SigningStuck ==
    /\ \A p \in Honest : round[p] = 2 /\ zeroRound[p] = 3 => Signing!Vanishes
    /\ untagged # {} => Signing!Vanishes

SigningBlame == \A b \in blamed : b[2] \in Corrupt

SigningInv ==
    /\ ZeroInv(Quorum)
    /\ SigningTypes
    /\ SigningCommitments
    /\ SigningNonces
    /\ SigningParts
    /\ SigningStuck
    /\ SigningBlame
    /\ scheme \in Schemes

LEMMA HonestInQuorum ==
    /\ Honest = Quorum \ Corrupt /\ Quorum \in SUBSET Quorum /\ Signing!Honest = Honest
    /\ IsFiniteSet(Quorum) /\ Corrupt \in SUBSET Quorum
  BY DealingsAssumption DEF Honest, Signing!Honest

LEMMA NegatesByScheme == \A nonce : Signing!Negates(nonce) = NegatesIn(scheme, nonce)
  BY DEF Signing!Negates, Signing!IsOdd, NegatesIn

\* The zero sharing's part of a signing step.
LEMMA SigningZero ==
    ASSUME ZeroInv(Quorum), NEW p \in Honest
    PROVE  /\ Signing!ZeroRound1(p) =>
                 /\ ZeroInv(Quorum)'
                 /\ zeroDealt' = [zeroDealt EXCEPT ![p] = "zero"]
                 /\ zeroRound' = [zeroRound EXCEPT ![p] = 2]
           /\ \A shares \in Signing!ZeroHanded(p) :
                 Signing!ZeroRound2Fails(p, shares) =>
                    /\ ZeroInv(Quorum)' /\ zeroDealt' = zeroDealt /\ zeroRound' = zeroRound
                    /\ \E culprit \in Corrupt : blamed' = blamed \cup {<<p, culprit>>}
           /\ \A shares \in Signing!ZeroHanded(p) :
                 (\A q \in Quorum \ {p} : zeroDealt[q] # None)
                 /\ Signing!ZeroRound2Returns(p, shares) =>
                    /\ ZeroInv(Quorum)' /\ zeroDealt' = zeroDealt
                    /\ zeroRound' = [zeroRound EXCEPT ![p] = 3] /\ blamed' = blamed
  <1>0. Quorum \in SUBSET Quorum /\ p \in Quorum \ Corrupt
    BY DEF Honest
  <1>1. ASSUME Signing!ZeroRound1(p)
        PROVE  /\ ZeroInv(Quorum)'
               /\ zeroDealt' = [zeroDealt EXCEPT ![p] = "zero"]
               /\ zeroRound' = [zeroRound EXCEPT ![p] = 2]
    <2>1. /\ zeroDealt' = [zeroDealt EXCEPT ![p] = "zero"]
          /\ zeroRound' = [zeroRound EXCEPT ![p] = 2] /\ zeroSum' = zeroSum
      BY <1>1 DEF Signing!ZeroRound1
    <2>2. "zero" \in ZeroKinds
      BY DEF ZeroKinds
    <2> QED
      BY <1>0, <2>1, <2>2, ZeroDeals
  <1>2. ASSUME NEW shares \in Signing!ZeroHanded(p)
        PROVE  /\ DOMAIN shares = Quorum \ {p}
               /\ \A q \in (Quorum \ {p}) \ Corrupt : shares[q] = "right"
    BY <1>2 DEF Signing!ZeroHanded, Signing!OtherHolders
  <1>3. \A q \in Quorum \ Corrupt : zeroDealt[q] \notin {"malformed", "nonzero"}
    BY KeyProtocolsAssumption DEF ZeroInv, ZeroDealings
  <1>4. ASSUME NEW shares \in Signing!ZeroHanded(p), Signing!ZeroRound2Fails(p, shares)
        PROVE  /\ ZeroInv(Quorum)' /\ zeroDealt' = zeroDealt /\ zeroRound' = zeroRound
               /\ \E culprit \in Corrupt : blamed' = blamed \cup {<<p, culprit>>}
    <2>1. zeroRound' = zeroRound /\ zeroDealt' = zeroDealt /\ zeroSum' = zeroSum
      BY <1>4 DEF Signing!ZeroRound2Fails
    <2>2. Signing!ZeroMalformed(p, shares) \in SUBSET Corrupt
      BY <1>2, <1>3, <1>4
      DEF Signing!ZeroMalformed, Signing!With, Signing!OtherHolders
    <2>3. Signing!ZeroRefuted(p, shares) \in SUBSET Corrupt
      BY <1>2, <1>3, <1>4
      DEF Signing!ZeroRefuted, Signing!With, Signing!OtherHolders
    <2>4. \E culprit \in Corrupt : blamed' = blamed \cup {<<p, culprit>>}
      BY <1>4, <2>2, <2>3, FirstOfCorrupt DEF Signing!ZeroRound2Fails, Signing!First
    <2> QED
      BY <1>0, <2>1, <2>4, ZeroStays
  <1>5. ASSUME NEW shares \in Signing!ZeroHanded(p),
               \A q \in Quorum \ {p} : zeroDealt[q] # None, Signing!ZeroRound2Returns(p, shares)
        PROVE  /\ ZeroInv(Quorum)' /\ zeroDealt' = zeroDealt
               /\ zeroRound' = [zeroRound EXCEPT ![p] = 3] /\ blamed' = blamed
    <2>1. /\ zeroRound[p] = 2 /\ zeroRound' = [zeroRound EXCEPT ![p] = 3]
          /\ zeroDealt' = zeroDealt /\ blamed' = blamed
          /\ zeroSum' = [zeroSum EXCEPT ![p] =
                 Signing!Add(Signing!ZeroStart(p), Signing!OtherHolders(p))]
      BY <1>5 DEF Signing!ZeroRound2Returns
    <2>2. Signing!Add(Signing!ZeroStart(p), Signing!OtherHolders(p)) = Everyone(Quorum)
      BY <1>0 DEF Signing!Add, Signing!ZeroStart, Signing!Nothing, Signing!OtherHolders, Everyone
    <2>3. \A q \in Quorum \ {p} : zeroDealt[q] \in {"zero", "cancelling"}
      <3>1. \A q \in Quorum \ {p} : zeroDealt[q] \notin {"malformed", "nonzero"}
        BY <1>5 DEF Signing!ZeroRound2Returns, Signing!ZeroMalformed,
                    Signing!ZeroRefuted, Signing!OtherHolders
      <3> QED
        BY <1>5, <3>1 DEF ZeroInv, ZeroTypes, ZeroKinds
    <2> QED
      BY <1>0, <2>1, <2>2, <2>3, ZeroReturns
  <1> QED
    BY <1>1, <1>4, <1>5

\* What vanished stays so.
LEMMA StaysVanished ==
    ASSUME ZeroInv(Quorum), Signing!Vanishes, NEW c \in Quorum, NEW kind,
           c \in Corrupt => zeroDealt[c] = None,
           zeroDealt' = zeroDealt \/ zeroDealt' = [zeroDealt EXCEPT ![c] = kind]
    PROVE  Signing!Vanishes'
  <1>1. PICK q \in Quorum : zeroDealt[q] = "cancelling"
    BY DEF Signing!Vanishes
  <1>2. q # c
    <2>1. zeroDealt[q] # None /\ zeroDealt[q] # "zero"
      BY <1>1, KeyProtocolsAssumption
    <2>2. c \notin Corrupt => zeroDealt[c] \in {"zero", None}
      BY DEF ZeroInv, ZeroDealings
    <2> QED
      BY <2>1, <2>2
  <1>3. zeroDealt'[q] = "cancelling"
    BY <1>1, <1>2 DEF ZeroInv, ZeroTypes
  <1> QED
    BY <1>3 DEF Signing!Vanishes

LEMMA SigningRound1 ==
    ASSUME SigningInv, NEW p \in Honest, Signing!Round1(p), scheme' = scheme
    PROVE  SigningInv'
  <1>1. /\ round[p] = 1 /\ round' = [round EXCEPT ![p] = 2]
        /\ committed' = [committed EXCEPT ![p] = "sealed"]
        /\ bigR' = [bigR EXCEPT ![p] = Signing!Add(Signing!Nothing, {p})]
        /\ psig' = psig /\ calls' = calls /\ untagged' = untagged /\ blamed' = blamed
        /\ Signing!ZeroRound1(p)
    BY DEF Signing!Round1
  <1>2. /\ ZeroInv(Quorum)' /\ zeroDealt' = [zeroDealt EXCEPT ![p] = "zero"]
        /\ zeroRound' = [zeroRound EXCEPT ![p] = 2]
    BY <1>1, SigningZero DEF SigningInv
  <1>3. p \in Quorum \ Corrupt /\ Quorum \ Corrupt = Honest
    BY DEF Honest
  <1>4. SigningTypes'
    BY <1>1 DEF SigningInv, SigningTypes
  <1>5. SigningCommitments'
    <2>1. DOMAIN zeroDealt = Quorum /\ DOMAIN committed = Quorum
      BY DEF SigningInv, SigningTypes, ZeroInv, ZeroTypes
    <2>2. zeroDealt'[p] # None /\ committed'[p] = "sealed"
      BY <1>1, <1>2, <1>3, <2>1, KeyProtocolsAssumption
    <2>3. \A q \in Quorum \ {p} : zeroDealt'[q] = zeroDealt[q] /\ committed'[q] = committed[q]
      BY <1>1, <1>2, <2>1
    <2> QED
      BY <1>3, <2>2, <2>3 DEF SigningInv, SigningCommitments
  <1>6. SigningNonces'
    <2>1. \A q \in Honest \ {p} : round'[q] = round[q] /\ bigR'[q] = bigR[q]
      BY <1>1 DEF SigningInv, SigningTypes
    <2>2. round'[p] = 2 /\ bigR'[p] = Signing!Add(Signing!Nothing, {p}) /\ calls[p][3] = 0
      BY <1>1 DEF SigningInv, SigningTypes, SigningNonces
    <2> SUFFICES ASSUME NEW q \in Honest
                 PROVE  /\ round'[q] \in {1, 2} => calls[q][3] = 0
                        /\ round'[q] \in {2, 3} /\ calls[q][3] = 0 =>
                              bigR'[q] = Signing!Add(Signing!Nothing, {q})
                        /\ round'[q] = 4 /\ calls[q][3] <= 1 => bigR'[q] = Signing!Once
      BY <1>1 DEF SigningNonces, Signing!Nothing, Signing!Add, Signing!Once
    <2>3. CASE q = p
      BY <2>2, <2>3
    <2>4. CASE q # p
      BY <2>1, <2>4 DEF SigningInv, SigningNonces
    <2> QED
      BY <2>3, <2>4
  <1>7. SigningStuck'
    <2>1. Signing!Vanishes => Signing!Vanishes'
      BY <1>2, <1>3, StaysVanished DEF SigningInv
    <2>2. DOMAIN zeroRound = Honest
      BY <1>3 DEF SigningInv, ZeroInv, ZeroTypes
    <2>3. zeroRound'[p] = 2 /\ \A q \in Honest \ {p} : zeroRound'[q] = zeroRound[q] /\ round'[q] = round[q]
      BY <1>1, <1>2, <2>2 DEF SigningInv, SigningTypes
    <2> QED
      BY <1>1, <2>1, <2>3 DEF SigningInv, SigningStuck
  <1>8. SigningParts' /\ SigningBlame'
    <2> HIDE DEF HonestPart
    <2>1. psig[p] = None
      BY <1>1 DEF SigningInv, SigningParts
    <2>2. \A q \in Honest \ {p} : round'[q] = round[q] /\ bigR'[q] = bigR[q]
      BY <1>1 DEF SigningInv, SigningTypes
    <2>3. SigningParts'
      BY <1>1, <2>1, <2>2 DEF SigningInv, SigningParts
    <2> QED
      BY <1>1, <2>3 DEF SigningInv, SigningBlame
  <1> QED
    BY <1>2, <1>4, <1>5, <1>6, <1>7, <1>8 DEF SigningInv


\* What every way out of Round2 leaves alone.
LEMMA SigningCalls ==
    ASSUME SigningInv, NEW p \in Honest, round[p] = 2,
           calls' = [calls EXCEPT ![p][2] = @ + 1],
           committed' = committed, bigR' = bigR, psig' = psig, zeroDealt' = zeroDealt,
           scheme' = scheme,
           round' = round \/ round' = [round EXCEPT ![p] = 3]
    PROVE  /\ SigningTypes' /\ SigningCommitments' /\ SigningNonces' /\ SigningParts'
           /\ Signing!Vanishes' <=> Signing!Vanishes
  <1>1. /\ \A q \in Honest : calls'[q][3] = calls[q][3]
        /\ calls' \in [Honest -> [{2, 3} -> Nat]]
    BY DEF SigningInv, SigningTypes
  <1>2. round' \in [Honest -> 1 .. 4] /\ \A q \in Honest \ {p} : round'[q] = round[q]
    BY DEF SigningInv, SigningTypes
  <1>3. round'[p] \in {2, 3}
    BY DEF SigningInv, SigningTypes
  <1>4. SigningTypes'
    BY <1>1, <1>2 DEF SigningInv, SigningTypes
  <1>5. SigningCommitments' /\ SigningParts' /\ (Signing!Vanishes' <=> Signing!Vanishes)
    <2>1. SigningCommitments' /\ (Signing!Vanishes' <=> Signing!Vanishes)
      BY DEF SigningInv, SigningCommitments, Signing!Vanishes
    <2>2. psig[p] = None
      BY DEF SigningInv, SigningParts
    <2>3. SigningParts'
      BY <1>2, <2>2 DEF SigningInv, SigningParts
    <2> QED
      BY <2>1, <2>3
  <1>6. SigningNonces'
    <2> SUFFICES ASSUME NEW q \in Honest
                 PROVE  /\ round'[q] \in {1, 2} => calls'[q][3] = 0
                        /\ round'[q] \in {2, 3} /\ calls'[q][3] = 0 =>
                              bigR[q] = Signing!Add(Signing!Nothing, {q})
                        /\ round'[q] = 4 /\ calls'[q][3] <= 1 => bigR[q] = Signing!Once
      BY DEF SigningNonces, Signing!Nothing, Signing!Add, Signing!Once
    <2>1. CASE q = p
      BY <1>1, <1>3, <2>1 DEF SigningInv, SigningNonces
    <2>2. CASE q # p
      BY <1>1, <1>2, <2>2 DEF SigningInv, SigningNonces
    <2> QED
      BY <2>1, <2>2
  <1> QED
    BY <1>4, <1>5, <1>6

LEMMA SigningRound2 ==
    ASSUME SigningInv, NEW p \in Honest, Signing!Round2(p), scheme' = scheme
    PROVE  SigningInv'
  <1>1. /\ round[p] = 2 /\ calls' = [calls EXCEPT ![p][2] = @ + 1]
        /\ committed' = committed /\ bigR' = bigR /\ psig' = psig
        /\ \A q \in Quorum \ {p} : committed[q] # "none"
    BY DEF Signing!Round2, Signing!Others
  <1>2. \A q \in Quorum \ {p} : zeroDealt[q] # None
    BY <1>1 DEF SigningInv, SigningCommitments
  <1>3. DOMAIN zeroRound = Honest
    BY DEF SigningInv, ZeroInv, ZeroTypes, Honest
  <1>4. DOMAIN round = Honest
    BY DEF SigningInv, SigningTypes
  <1>5. CASE Signing!Round2Reject(p)
    <2>1. /\ Signing!Empty(p) # {} /\ blamed' = blamed \cup {<<p, Signing!First(Signing!Empty(p))>>}
          /\ round' = round /\ untagged' = untagged
          /\ zeroRound' = zeroRound /\ zeroDealt' = zeroDealt /\ zeroSum' = zeroSum
      BY <1>5 DEF Signing!Round2Reject, Signing!zeroVars
    <2>2. Signing!Empty(p) \in SUBSET Corrupt
      BY DEF SigningInv, SigningCommitments, Signing!Empty, Signing!Others, Honest
    <2>3. Signing!First(Signing!Empty(p)) \in Corrupt
      BY <2>1, <2>2, FirstOfCorrupt DEF Signing!First
    <2>4. SigningBlame'
      BY <2>1, <2>3 DEF SigningInv, SigningBlame
    <2>5. ZeroInv(Quorum)'
      BY <2>1, HonestInQuorum, ZeroStays DEF SigningInv
    <2>6. /\ SigningTypes' /\ SigningCommitments' /\ SigningNonces' /\ SigningParts'
          /\ Signing!Vanishes' <=> Signing!Vanishes
      BY <1>1, <2>1, SigningCalls
    <2>7. SigningStuck'
      BY <2>1, <2>6 DEF SigningInv, SigningStuck
    <2> QED
      BY <2>4, <2>5, <2>6, <2>7 DEF SigningInv
  <1>6. CASE Signing!Round2Stuck(p)
    <2>1. /\ zeroRound[p] = 3 /\ blamed' = blamed /\ round' = round
          /\ zeroRound' = zeroRound /\ zeroDealt' = zeroDealt /\ zeroSum' = zeroSum
      BY <1>6 DEF Signing!Round2Stuck, Signing!zeroVars
    <2>2. ZeroInv(Quorum)'
      BY <2>1, HonestInQuorum, ZeroStays DEF SigningInv
    <2>3. /\ SigningTypes' /\ SigningCommitments' /\ SigningNonces' /\ SigningParts'
          /\ Signing!Vanishes' <=> Signing!Vanishes
      BY <1>1, <2>1, SigningCalls
    <2>4. Signing!Vanishes
      BY <1>1, <2>1 DEF SigningInv, SigningStuck
    <2>5. SigningStuck' /\ SigningBlame'
      BY <2>1, <2>3, <2>4 DEF SigningInv, SigningStuck, SigningBlame
    <2> QED
      BY <2>2, <2>3, <2>5 DEF SigningInv
  <1>7. ASSUME NEW shares \in Signing!ZeroHanded(p), Signing!Round2Abort(p, shares)
        PROVE  SigningInv'
    <2>1. round' = round /\ untagged' = untagged /\ Signing!ZeroRound2Fails(p, shares)
      BY <1>7 DEF Signing!Round2Abort
    <2>2. /\ ZeroInv(Quorum)' /\ zeroDealt' = zeroDealt /\ zeroRound' = zeroRound
          /\ \E culprit \in Corrupt : blamed' = blamed \cup {<<p, culprit>>}
      BY <1>7, <2>1, SigningZero DEF SigningInv
    <2>3. /\ SigningTypes' /\ SigningCommitments' /\ SigningNonces' /\ SigningParts'
          /\ Signing!Vanishes' <=> Signing!Vanishes
      BY <1>1, <2>1, <2>2, SigningCalls
    <2>4. SigningStuck' /\ SigningBlame'
      BY <2>1, <2>2, <2>3 DEF SigningInv, SigningStuck, SigningBlame
    <2> QED
      BY <2>2, <2>3, <2>4 DEF SigningInv
  <1>8. ASSUME NEW shares \in Signing!ZeroHanded(p), Signing!Round2Identity(p, shares)
        PROVE  SigningInv'
    <2>1. round' = round /\ Signing!Vanishes /\ Signing!ZeroRound2Returns(p, shares)
      BY <1>8 DEF Signing!Round2Identity
    <2>2. /\ ZeroInv(Quorum)' /\ zeroDealt' = zeroDealt /\ blamed' = blamed
          /\ zeroRound' = [zeroRound EXCEPT ![p] = 3]
      BY <1>2, <1>8, <2>1, SigningZero DEF SigningInv
    <2>3. /\ SigningTypes' /\ SigningCommitments' /\ SigningNonces' /\ SigningParts'
          /\ Signing!Vanishes' <=> Signing!Vanishes
      BY <1>1, <2>1, <2>2, SigningCalls
    <2>4. SigningStuck' /\ SigningBlame'
      BY <2>1, <2>2, <2>3 DEF SigningInv, SigningStuck, SigningBlame
    <2> QED
      BY <2>2, <2>3, <2>4 DEF SigningInv
  <1>9. ASSUME NEW shares \in Signing!ZeroHanded(p), Signing!Round2Open(p, shares)
        PROVE  SigningInv'
    <2>1. /\ round' = [round EXCEPT ![p] = 3] /\ untagged' = untagged
          /\ Signing!ZeroRound2Returns(p, shares)
      BY <1>9 DEF Signing!Round2Open
    <2>2. /\ ZeroInv(Quorum)' /\ zeroDealt' = zeroDealt /\ blamed' = blamed
          /\ zeroRound' = [zeroRound EXCEPT ![p] = 3]
      BY <1>2, <1>9, <2>1, SigningZero DEF SigningInv
    <2>3. /\ SigningTypes' /\ SigningCommitments' /\ SigningNonces' /\ SigningParts'
          /\ Signing!Vanishes' <=> Signing!Vanishes
      BY <1>1, <2>1, <2>2, SigningCalls
    <2>4. SigningStuck'
      <3>1. round'[p] = 3 /\ \A q \in Honest \ {p} : round'[q] = round[q] /\ zeroRound'[q] = zeroRound[q]
        BY <1>3, <1>4, <2>1, <2>2
      <3> QED
        BY <2>1, <2>3, <3>1 DEF SigningInv, SigningStuck
    <2>5. SigningBlame'
      BY <2>2 DEF SigningInv, SigningBlame
    <2> QED
      BY <2>2, <2>3, <2>4, <2>5 DEF SigningInv
  <1> QED
    BY <1>5, <1>6, <1>7, <1>8, <1>9 DEF Signing!Round2

\* What every way out of Round3 leaves alone.
LEMMA SigningLater ==
    ASSUME SigningInv, NEW p \in Honest, round[p] = 3,
           calls' = [calls EXCEPT ![p][3] = @ + 1], committed' = committed, untagged' = untagged,
           zeroRound' = zeroRound, zeroDealt' = zeroDealt, zeroSum' = zeroSum, scheme' = scheme,
           \/ round' = round /\ DOMAIN bigR' = Honest
           \/ /\ round' = [round EXCEPT ![p] = 4]
              /\ bigR' = [bigR EXCEPT ![p] = Signing!Add(@, Signing!Others(p))],
           DOMAIN psig' = Honest, SigningParts', SigningBlame',
           \A q \in Honest \ {p} : bigR'[q] = bigR[q]
    PROVE  SigningInv'
  <1>1. /\ \A q \in Honest \ {p} : calls'[q][3] = calls[q][3]
        /\ calls'[p][3] = calls[p][3] + 1 /\ calls[p][3] \in Nat
        /\ calls' \in [Honest -> [{2, 3} -> Nat]]
    BY DEF SigningInv, SigningTypes
  <1>2. round' \in [Honest -> 1 .. 4] /\ \A q \in Honest \ {p} : round'[q] = round[q]
    BY DEF SigningInv, SigningTypes
  <1>3. \/ round'[p] = 3
        \/ round'[p] = 4 /\ bigR'[p] = Signing!Add(bigR[p], Signing!Others(p))
    BY DEF SigningInv, SigningTypes
  <1>4. SigningTypes'
    <2>1. DOMAIN bigR' = Honest
      BY DEF SigningInv, SigningTypes
    <2> QED
      BY <1>1, <1>2, <2>1 DEF SigningInv, SigningTypes
  <1>5. SigningCommitments' /\ (Signing!Vanishes' <=> Signing!Vanishes)
    BY DEF SigningInv, SigningCommitments, Signing!Vanishes
  <1>6. SigningNonces'
    <2> SUFFICES ASSUME NEW q \in Honest
                 PROVE  /\ round'[q] \in {1, 2} => calls'[q][3] = 0
                        /\ round'[q] \in {2, 3} /\ calls'[q][3] = 0 =>
                              bigR'[q] = Signing!Add(Signing!Nothing, {q})
                        /\ round'[q] = 4 /\ calls'[q][3] <= 1 => bigR'[q] = Signing!Once
      BY DEF SigningNonces, Signing!Nothing, Signing!Add, Signing!Once
    <2>1. CASE q # p
      BY <1>1, <1>2, <2>1 DEF SigningInv, SigningNonces
    <2>2. CASE q = p /\ round'[p] = 3
      BY <1>1, <2>2
    <2>3. CASE q = p /\ round'[p] = 4 /\ bigR'[p] = Signing!Add(bigR[p], Signing!Others(p))
      <3>1. ASSUME calls'[p][3] <= 1 PROVE bigR'[p] = Signing!Once
        <4>1. calls[p][3] = 0
          BY <1>1, <3>1
        <4>2. bigR[p] = Signing!Add(Signing!Nothing, {p})
          BY <4>1 DEF SigningInv, SigningNonces
        <4> QED
          BY <2>3, <4>2 DEF Signing!Add, Signing!Nothing, Signing!Others, Signing!Once
      <3> QED
        BY <2>3, <3>1
    <2> QED
      BY <1>3, <2>1, <2>2, <2>3
  <1>7. SigningStuck'
    <2>1. \A q \in Honest : round'[q] = 2 => round[q] = 2
      BY <1>2, <1>3
    <2> QED
      BY <1>5, <2>1 DEF SigningInv, SigningStuck
  <1>8. ZeroInv(Quorum)'
    BY HonestInQuorum, ZeroStays DEF SigningInv
  <1> QED
    BY <1>4, <1>5, <1>6, <1>7, <1>8 DEF SigningInv

LEMMA SigningRound3 ==
    ASSUME SigningInv, NEW p \in Honest, Signing!Round3(p), scheme' = scheme
    PROVE  SigningInv'
  <1>1. /\ round[p] = 3 /\ calls' = [calls EXCEPT ![p][3] = @ + 1]
        /\ committed' = committed /\ untagged' = untagged
        /\ zeroRound' = zeroRound /\ zeroDealt' = zeroDealt /\ zeroSum' = zeroSum
    BY DEF Signing!Round3, Signing!zeroVars
  <1>2. PICK found \in Signing!Handed3(p) :
           \/ Signing!Round3Reject(p, found) \/ Signing!Round3Abort(p, found)
           \/ Signing!Round3Sign(p, found)
    BY DEF Signing!Round3
  <1>3. /\ DOMAIN found = Quorum \ {p}
        /\ \A q \in (Quorum \ {p}) \ Corrupt : found[q] = "right"
    BY <1>2 DEF Signing!Handed3, Signing!Others
  <1>4. /\ Signing!With(found, "malformed") \in SUBSET Corrupt
        /\ Signing!With(found, "refuted") \in SUBSET Corrupt
    BY <1>3 DEF Signing!With
  <1>5. DOMAIN bigR = Honest /\ DOMAIN psig = Honest /\ DOMAIN round = Honest
    BY DEF SigningInv, SigningTypes
  <1>a. psig[p] = None
    BY <1>1 DEF SigningInv, SigningParts
  <1>6. CASE Signing!Round3Reject(p, found)
    <2>1. /\ Signing!With(found, "malformed") # {}
          /\ blamed' = blamed \cup {<<p, Signing!First(Signing!With(found, "malformed"))>>}
          /\ round' = round /\ bigR' = bigR /\ psig' = psig
      BY <1>6 DEF Signing!Round3Reject
    <2>2. Signing!First(Signing!With(found, "malformed")) \in Corrupt
      BY <1>4, <2>1, FirstOfCorrupt DEF Signing!First
    <2>3. SigningBlame' /\ SigningParts'
      BY <2>1, <2>2 DEF SigningInv, SigningBlame, SigningParts
    <2> QED
      BY <1>1, <1>5, <2>1, <2>3, SigningLater
  <1>7. CASE Signing!Round3Abort(p, found)
    <2> DEFINE culprit == Signing!First(Signing!With(found, "refuted"))
    <2>1. /\ Signing!With(found, "refuted") # {}
          /\ blamed' = blamed \cup {<<p, culprit>>} /\ round' = round /\ psig' = psig
          /\ bigR' = [bigR EXCEPT ![p] = Signing!Add(@, Signing!Before(p, culprit))]
      BY <1>7 DEF Signing!Round3Abort
    <2>2. culprit \in Corrupt
      BY <1>4, <2>1, FirstOfCorrupt DEF Signing!First
    <2> HIDE DEF culprit
    <2>4. DOMAIN bigR' = Honest /\ \A q \in Honest \ {p} : bigR'[q] = bigR[q]
      BY <1>5, <2>1
    <2>3. SigningBlame' /\ SigningParts'
      BY <1>a, <2>1, <2>2, <2>4 DEF SigningInv, SigningBlame, SigningParts
    <2> QED
      BY <1>1, <1>5, <2>1, <2>3, <2>4, SigningLater
  <1>8. CASE Signing!Round3Sign(p, found)
    <2>1. /\ bigR' = [bigR EXCEPT ![p] = Signing!Add(@, Signing!Others(p))]
          /\ psig' = [psig EXCEPT ![p] = Signing!Part(bigR'[p], Signing!Negates(bigR'[p]), 0, 0)]
          /\ round' = [round EXCEPT ![p] = 4] /\ blamed' = blamed
      BY <1>8 DEF Signing!Round3Sign
    <2>2. /\ \A q \in Honest \ {p} : bigR'[q] = bigR[q] /\ psig'[q] = psig[q] /\ round'[q] = round[q]
          /\ psig'[p] = Signing!Part(bigR'[p], Signing!Negates(bigR'[p]), 0, 0)
          /\ DOMAIN psig' = Honest /\ round'[p] = 4
      BY <1>5, <2>1
    <2>3. SigningParts'
      <3>1. psig'[p] = HonestPart(scheme', bigR'[p])
        BY <2>2, NegatesByScheme DEF HonestPart
      <3> HIDE DEF HonestPart
      <3> QED
        BY <2>2, <3>1 DEF SigningInv, SigningParts
    <2>4. SigningBlame'
      BY <2>1 DEF SigningInv, SigningBlame
    <2> QED
      BY <1>1, <2>1, <2>2, <2>3, <2>4, SigningLater
  <1> QED
    BY <1>2, <1>6, <1>7, <1>8

LEMMA SigningCorruptRound1 ==
    ASSUME SigningInv, NEW c \in Corrupt, NEW digest \in {"empty", "sealed"}, NEW kind \in ZeroKinds,
           Signing!CorruptRound1(c, digest, kind), scheme' = scheme
    PROVE  SigningInv'
  <1>1. /\ committed' = [committed EXCEPT ![c] = digest]
        /\ zeroDealt[c] = None /\ zeroDealt' = [zeroDealt EXCEPT ![c] = kind]
        /\ zeroRound' = zeroRound /\ zeroSum' = zeroSum
        /\ round' = round /\ bigR' = bigR /\ psig' = psig /\ calls' = calls
        /\ untagged' = untagged /\ blamed' = blamed
    BY DEF Signing!CorruptRound1, Signing!ZeroCorruptDeal
  <1>2. c \in Quorum /\ c \notin Honest /\ kind # None
    BY HonestInQuorum, KeyProtocolsAssumption DEF ZeroKinds
  <1>3. ZeroInv(Quorum)'
    BY <1>1, <1>2, HonestInQuorum, ZeroDeals DEF SigningInv
  <1>4. SigningTypes'
    BY <1>1 DEF SigningInv, SigningTypes
  <1>5. SigningCommitments'
    <2>1. DOMAIN zeroDealt = Quorum /\ DOMAIN committed = Quorum
      BY DEF SigningInv, SigningTypes, ZeroInv, ZeroTypes
    <2>2. /\ zeroDealt'[c] # None
          /\ \A q \in Quorum \ {c} : zeroDealt'[q] = zeroDealt[q] /\ committed'[q] = committed[q]
      BY <1>1, <1>2, <2>1
    <2> QED
      BY <1>2, <2>2, HonestInQuorum DEF SigningInv, SigningCommitments
  <1>6. SigningNonces' /\ SigningParts' /\ SigningBlame'
    BY <1>1 DEF SigningInv, SigningNonces, SigningParts, SigningBlame, Signing!Nothing, Signing!Add,
                Signing!Once
  <1>7. SigningStuck'
    <2>1. Signing!Vanishes => Signing!Vanishes'
      BY <1>1, <1>2, StaysVanished DEF SigningInv
    <2> QED
      BY <1>1, <2>1 DEF SigningInv, SigningStuck
  <1> QED
    BY <1>3, <1>4, <1>5, <1>6, <1>7 DEF SigningInv


LEMMA SigningStep ==
    ASSUME SigningInv, [Signing!Next]_(Signing!vars)
    PROVE  SigningInv'
  <1>1. CASE Signing!Next
    <2>1. \/ \E p \in Honest : Signing!Round1(p) \/ Signing!Round2(p) \/ Signing!Round3(p)
          \/ \E c \in Corrupt, digest \in {"empty", "sealed"}, kind \in ZeroKinds :
                Signing!CorruptRound1(c, digest, kind)
      BY <1>1, HonestInQuorum DEF Signing!Next, Signing!ZeroKinds, ZeroKinds
    <2>2. scheme' = scheme
      BY <1>1 DEF Signing!Next
    <2> QED
      BY <2>1, <2>2, SigningRound1, SigningRound2, SigningRound3, SigningCorruptRound1
  <1>2. CASE UNCHANGED Signing!vars
    <2>1. /\ round' = round /\ committed' = committed /\ bigR' = bigR /\ psig' = psig
          /\ calls' = calls /\ untagged' = untagged /\ blamed' = blamed
          /\ zeroRound' = zeroRound /\ zeroDealt' = zeroDealt /\ zeroSum' = zeroSum
          /\ scheme' = scheme
      BY <1>2 DEF Signing!vars, Signing!zeroVars
    <2>2. ZeroInv(Quorum)'
      BY <2>1, HonestInQuorum, ZeroStays DEF SigningInv
    <2>3. SigningTypes' /\ SigningCommitments' /\ SigningParts' /\ SigningBlame'
      BY <2>1 DEF SigningInv, SigningTypes, SigningCommitments, SigningParts, SigningBlame
    <2>4. SigningNonces'
      BY <2>1 DEF SigningInv, SigningNonces, Signing!Nothing, Signing!Add, Signing!Once
    <2>5. SigningStuck'
      BY <2>1 DEF SigningInv, SigningStuck, Signing!Vanishes
    <2> QED
      BY <2>1, <2>2, <2>3, <2>4, <2>5 DEF SigningInv
  <1> QED
    BY <1>1, <1>2

LEMMA SigningHolds == Spec => [](protocol = "lindell22" => SigningInv)
  <1>1. Init => (protocol = "lindell22" => SigningInv)
    <2> SUFFICES ASSUME Signing!Init PROVE SigningInv
      BY DEF Init
    <2>1. /\ zeroRound = [p \in Quorum \ Corrupt |-> 1] /\ zeroDealt = [q \in Quorum |-> None]
          /\ zeroSum = [p \in Quorum \ Corrupt |-> None]
      BY DEF Signing!Init, Signing!ZeroInit, Signing!HonestHolders
    <2>2. ZeroInv(Quorum)
      <3>1. ZeroTypes(Quorum)
        BY <2>1 DEF ZeroTypes
      <3> QED
        BY <2>1, <3>1 DEF ZeroInv, ZeroDealings, ZeroSums
    <2>3. /\ round = [p \in Honest |-> 1] /\ committed = [q \in Quorum |-> "none"]
          /\ bigR = [p \in Honest |-> Signing!Nothing] /\ psig = [p \in Honest |-> None]
          /\ calls = [p \in Honest |-> [r \in {2, 3} |-> 0]] /\ untagged = {} /\ blamed = {}
          /\ scheme \in Schemes
      BY HonestInQuorum DEF Signing!Init
    <2>4. SigningTypes
      BY <2>3 DEF SigningTypes
    <2>5. SigningCommitments
      BY <2>3, HonestInQuorum DEF SigningCommitments
    <2>6. SigningNonces
      BY <2>3 DEF SigningNonces
    <2>7. SigningParts /\ SigningStuck /\ SigningBlame
      BY <2>3 DEF SigningParts, SigningStuck, SigningBlame
    <2> QED
      BY <2>2, <2>3, <2>4, <2>5, <2>6, <2>7 DEF SigningInv
  <1>2. protocol = "lindell22" /\ [Next]_vars =>
           protocol' = "lindell22" /\ [Signing!Next]_(Signing!vars)
    BY DEF Next, vars, zeroOnly, signingOnly, Signing!vars, Signing!zeroVars
  <1>3. protocol' = "lindell22" /\ [Next]_vars => protocol = "lindell22"
    BY DEF Next, vars
  <1>4. (protocol = "lindell22" => SigningInv) /\ [Next]_vars =>
           (protocol = "lindell22" => SigningInv)'
    BY <1>2, <1>3, SigningStep
  <1> QED
    BY <1>1, <1>4, PTL DEF Spec

\* What Round2 of the zero sharing returns counts every holder's sharing of zero
\* once, in redistribution and in Lindell22, whatever was repeated.
THEOREM ZeroSharesCancelHolds == Spec => []ZeroSharesCancel
  <1>1. RedistInv => Redistribution!ZeroSharesCancel
    <2>1. Redistribution!Add(Redistribution!Nothing, Prev) = Everyone(Prev)
      BY DEF Redistribution!Add, Redistribution!Nothing, Everyone
    <2> QED
      BY <2>1 DEF RedistInv, ZeroInv, ZeroSums, Redistribution!ZeroSharesCancel,
                  Redistribution!HonestHolders, Prev
  <1>2. SigningInv => Signing!ZeroSharesCancel
    <2>1. Signing!Add(Signing!Nothing, Quorum) = Everyone(Quorum)
      BY DEF Signing!Add, Signing!Nothing, Everyone
    <2> QED
      BY <2>1 DEF SigningInv, ZeroInv, ZeroSums, Signing!ZeroSharesCancel, Signing!HonestHolders
  <1>3. (protocol = "redistribute" => RedistInv) /\ (protocol = "lindell22" => SigningInv)
           => ZeroSharesCancel
    BY <1>1, <1>2 DEF ZeroSharesCancel
  <1> QED
    BY <1>3, RedistHolds, SigningHolds, PTL

\* An honest cosigner's partial signature is what Round3 returned, a corrupt
\* one's is anything.
LEMMA WhatIsAggregated ==
    ASSUME SigningInv, NEW sigs \in Signing!PartialSignatures
    PROVE  /\ DOMAIN sigs \in SUBSET Quorum
           /\ \A q \in DOMAIN sigs \ Corrupt :
                 /\ q \in Honest /\ round[q] = 4 /\ sigs[q] # None
                 /\ sigs[q] = HonestPart(scheme, bigR[q])
           /\ \A q \in DOMAIN sigs : sigs[q] # None =>
                 sigs[q] = Signing!Part(sigs[q].e, sigs[q].negated, sigs[q].r, sigs[q].s)
  <1>1. PICK senders \in SUBSET (Signing!Signed \cup Corrupt) :
           \E forged \in [senders \cap Corrupt -> Signing!Forgeries] :
               sigs = [q \in senders |-> IF q \in Corrupt THEN forged[q] ELSE psig[q]]
    BY DEF Signing!PartialSignatures
  <1>a. PICK forged \in [senders \cap Corrupt -> Signing!Forgeries] :
               sigs = [q \in senders |-> IF q \in Corrupt THEN forged[q] ELSE psig[q]]
    BY <1>1
  <1>2. DOMAIN sigs = senders /\ \A q \in senders : sigs[q] = IF q \in Corrupt THEN forged[q] ELSE psig[q]
    BY <1>a
  <1>3. \A q \in senders \ Corrupt : q \in Honest /\ psig[q] # None
    BY <1>1, HonestInQuorum DEF Signing!Signed
  <1>4. DOMAIN sigs \in SUBSET Quorum
    BY <1>2, <1>3, HonestInQuorum
  <1>5. ASSUME NEW q \in senders \ Corrupt
        PROVE  /\ q \in Honest /\ round[q] = 4 /\ sigs[q] # None
               /\ sigs[q] = HonestPart(scheme, bigR[q])
    BY <1>2, <1>3 DEF SigningInv, SigningParts
  <1>6. \A sig, challenge, negated, r, s : sig = Signing!Part(challenge, negated, r, s) =>
           sig = Signing!Part(sig.e, sig.negated, sig.r, sig.s)
    BY DEF Signing!Part
  <1>7. ASSUME NEW q \in senders, sigs[q] # None
        PROVE  \E challenge, negated, r, s : sigs[q] = Signing!Part(challenge, negated, r, s)
    <2>1. CASE q \notin Corrupt
      BY <1>5, <2>1 DEF HonestPart
    <2>2. CASE q \in Corrupt
      <3>1. sigs[q] \in Signing!Forgeries
        BY <1>a, <1>2, <2>2
      <3> QED
        BY <1>7, <3>1 DEF Signing!Forgeries
    <2> QED
      BY <2>1, <2>2
  <1> QED
    BY <1>2, <1>4, <1>5, <1>6, <1>7

\* A cosigning aggregator that called Round3 once has everybody's nonce once.
LEMMA AggregatorsNonce ==
    ASSUME SigningInv, NEW a \in Signing!Aggregators, a # None, calls[a][3] <= 1
    PROVE  bigR[a] = Signing!Once
  <1>1. a \in Honest /\ round[a] = 4
    BY HonestInQuorum DEF Signing!Aggregators
  <1> QED
    BY <1>1 DEF SigningInv, SigningNonces

\* The fields of what an honest cosigner sends.
LEMMA HonestFields ==
    ASSUME NEW sch, NEW nonce, NEW sig, sig = HonestPart(sch, nonce)
    PROVE  sig.negated = NegatesIn(sch, nonce) /\ sig.r = 0 /\ sig.s = 0
  BY DEF HonestPart, Signing!Part

\* The aggregator names an honest party only when the two disagree on the parity
\* of the nonces, for which one of them must have repeated Round3.
LEMMA AggregatorIsJust ==
    ASSUME SigningInv, NEW a \in Signing!Aggregators, NEW sigs \in Signing!PartialSignatures,
           NEW q \in Signing!Aggregate(a, sigs).parties, q \notin Corrupt
    PROVE  a # None /\ scheme.variant # "schnorr" /\ (calls[q][3] > 1 \/ calls[a][3] > 1)
  <1>1. Signing!With(sigs, None) \subseteq Corrupt
    BY WhatIsAggregated DEF Signing!With
  <1>2. a # None /\ q \in Signing!Refuted(a, sigs)
    BY <1>1 DEF Signing!Aggregate, Signing!Error
  <1>3. q \in DOMAIN sigs
    BY <1>2 DEF Signing!Refuted
  <1>4. q \in Honest /\ round[q] = 4 /\ sigs[q] = HonestPart(scheme, bigR[q])
    BY <1>3, WhatIsAggregated
  <1>5. sigs[q].negated = NegatesIn(scheme, bigR[q]) /\ sigs[q].r = 0 /\ sigs[q].s = 0
    BY <1>4, HonestFields
  <1>6. NegatesIn(scheme, bigR[q]) # NegatesIn(scheme, bigR[a])
    BY <1>2, <1>5, NegatesByScheme DEF Signing!Refuted, Signing!VerifiesAlone
  <1>7. scheme.variant # "schnorr"
    BY <1>6 DEF NegatesIn
  <1>8. bigR[q] # bigR[a]
    BY <1>6
  <1>9. a \in Honest
    BY <1>2, HonestInQuorum DEF Signing!Aggregators
  <1>10. ASSUME calls[q][3] <= 1, calls[a][3] <= 1 PROVE FALSE
    <2>1. bigR[a] = Signing!Once
      BY <1>2, <1>10, AggregatorsNonce
    <2>2. bigR[q] = Signing!Once
      BY <1>4, <1>10 DEF SigningInv, SigningNonces
    <2> QED
      BY <1>8, <2>1, <2>2
  <1>11. calls[q][3] \in Nat /\ calls[a][3] \in Nat
    BY <1>4, <1>9 DEF SigningInv, SigningTypes
  <1> QED
    BY <1>2, <1>7, <1>10, <1>11

\* The sum of everybody's nonces and its opposite.
LEMMA OppositeNonces ==
    /\ Signing!Once \in [Quorum -> Nat]
    /\ Signing!Minus(Signing!Once) \notin [Quorum -> Nat]
    /\ Signing!Minus(Signing!Once) # Signing!Once
    /\ Signing!Minus(Signing!Minus(Signing!Once)) = Signing!Once
  <1>1. PICK q : q \in Quorum
    BY KeyProtocolsAssumption
  <1>2. Signing!Once = [p \in Quorum |-> 1]
    BY DEF Signing!Once
  <1>3. \A n \in Int : -n \in Int /\ -(-n) = n
    OBVIOUS
  <1>4. -1 \notin Nat /\ -1 # 1
    OBVIOUS
  <1>5. \A f \in [Quorum -> Int] : Signing!Minus(Signing!Minus(f)) = f
    <2> SUFFICES ASSUME NEW f \in [Quorum -> Int]
                 PROVE  Signing!Minus(Signing!Minus(f)) = f
      OBVIOUS
    <2>1. Signing!Minus(f) = [p \in Quorum |-> -f[p]]
      BY DEF Signing!Minus
    <2>2. Signing!Minus(Signing!Minus(f)) = [p \in Quorum |-> -(-f[p])]
      BY <2>1 DEF Signing!Minus
    <2>3. \A p \in Quorum : -(-f[p]) = f[p]
      BY <1>3
    <2> QED
      BY <2>2, <2>3
  <1>6. Signing!Minus(Signing!Once) = [p \in Quorum |-> -1]
    BY <1>2 DEF Signing!Minus
  <1>7. Signing!Once \in [Quorum -> Int]
    BY <1>2
  <1> QED
    BY <1>1, <1>2, <1>4, <1>5, <1>6, <1>7

\* The aggregator whose nonce sum does not verify.
IsMinaOdd(a, neg) == a # None /\ scheme.variant = "mina" /\ neg

\* Right parts of everybody.
LEMMA RightPartsFit ==
    ASSUME SigningInv, NEW a \in Signing!Aggregators, Signing!NotRepeated,
           NEW sigs, sigs = [q \in Quorum |-> Signing!RightPart]
    PROVE  Signing!Aggregate(a, sigs).kind =
              IF a # None /\ scheme.variant = "mina" /\ Signing!Negates(Signing!Once)
              THEN "unnamed" ELSE "signature"
  <1> DEFINE neg == Signing!Negates(Signing!Once)
  <1>0. neg \in BOOLEAN /\ scheme.variant \in {"schnorr", "bip340", "mina"}
    BY SchemesAssumption DEF SigningInv, Signing!Negates
  <1>1. DOMAIN sigs = Quorum
    OBVIOUS
  <1>2. \A q \in Quorum : /\ sigs[q].e = Signing!Once /\ sigs[q].negated = neg
                          /\ sigs[q].r = 0 /\ sigs[q].s = 0
    BY DEF Signing!RightPart, Signing!Part
  <1>3. Signing!With(sigs, None) = {}
    <2>1. Signing!Once \in [Quorum -> Nat]
      BY OppositeNonces
    <2>2. Signing!RightPart \in [e : [Quorum -> Nat], negated : BOOLEAN, r : Nat, s : Nat]
      <3> HIDE DEF neg
      <3>1. Signing!RightPart = [e |-> Signing!Once, negated |-> neg, r |-> 0, s |-> 0]
        BY DEF Signing!RightPart, Signing!Part, neg
      <3> QED
        BY <1>0, <2>1, <3>1
    <2> QED
      BY <1>1, <2>2, KeyProtocolsAssumption DEF Signing!With
  <1>4. a # None => bigR[a] = Signing!Once
    <2> SUFFICES ASSUME a # None PROVE bigR[a] = Signing!Once
      OBVIOUS
    <2>1. calls[a][3] <= 1
      BY HonestInQuorum DEF Signing!NotRepeated, Signing!Aggregators
    <2> QED
      BY <2>1, AggregatorsNonce
  <1>5. a # None => Signing!Refuted(a, sigs) = {}
    BY <1>1, <1>2, <1>4 DEF Signing!Refuted, Signing!VerifiesAlone
  <1>6. Signing!Sum(sigs, "r") = 0 /\ Signing!Sum(sigs, "s") = 0
    <2>1. /\ [q \in DOMAIN sigs |-> sigs[q]["r"]] = [q \in Quorum |-> 0]
          /\ [q \in DOMAIN sigs |-> sigs[q]["s"]] = [q \in Quorum |-> 0]
      BY <1>1, <1>2
    <2>2. Signing!SumFunction([q \in Quorum |-> 0]) = 0
      BY ZeroSum, HonestInQuorum
    <2> QED
      BY <2>1, <2>2, ZeroMod DEF Signing!Sum
  <1>7. Signing!Nonces(sigs) = IF neg THEN Signing!Minus(Signing!Once) ELSE Signing!Once
    <2>1. Signing!Nonces(sigs) = [q \in Quorum |-> IF neg THEN -1 ELSE 1]
      <3> HIDE DEF neg
      <3> QED
        BY <1>1, <1>2 DEF Signing!Nonces
    <2>2. Signing!Minus(Signing!Once) = [q \in Quorum |-> -1]
      BY DEF Signing!Minus, Signing!Once
    <2> HIDE DEF neg
    <2> QED
      BY <1>0, <2>1, <2>2 DEF Signing!Once
  <1>8. /\ Signing!AggregateNonce(a, sigs)[2] = 0
        /\ Signing!AggregateNonce(a, sigs)[1] =
              IF a # None THEN Signing!Once ELSE Signing!Nonces(sigs)
    BY <1>4, <1>6 DEF Signing!AggregateNonce
  <1>9. neg => scheme.variant # "schnorr" /\ Signing!IsOdd(Signing!Once)
    BY DEF Signing!Negates
  <1>10. ~neg /\ scheme.variant # "schnorr" => ~Signing!IsOdd(Signing!Once)
    BY DEF Signing!Negates
  <1>11. Signing!IsOdd(Signing!Once) => ~Signing!IsOdd(Signing!Minus(Signing!Once))
    BY OppositeNonces DEF Signing!IsOdd
  <1>12. DOMAIN sigs \in Qualified
    BY <1>1, KeyProtocolsAssumption
  <1> HIDE DEF neg
  <1>13. Signing!SameChallenge(a, sigs)
    BY <1>1, <1>2, <1>7, <1>8, <1>9 DEF Signing!SameChallenge, Signing!SameNonce
  <1>14. ~IsMinaOdd(a, neg) => Signing!Verifies(a, sigs)
    BY <1>0, <1>1, <1>6, <1>7, <1>8, <1>9, <1>10, <1>11, OppositeNonces
    DEF Signing!Verifies, Signing!SameNonce, IsMinaOdd
  <1>15. IsMinaOdd(a, neg) => ~Signing!Verifies(a, sigs)
    BY <1>7, <1>8, OppositeNonces DEF Signing!Verifies, IsMinaOdd
  <1>16. Signing!Aggregate(a, sigs).kind = IF IsMinaOdd(a, neg) THEN "unnamed" ELSE "signature"
    BY <1>1, <1>3, <1>5, <1>12, <1>13, <1>14, <1>15 DEF Signing!Aggregate, Signing!Error
  <1> QED
    BY <1>16 DEF IsMinaOdd, neg

\* A wrong part, for the right challenge, is somebody's fault.
LEMMA WrongPartsAreNamed ==
    ASSUME SigningInv, NEW a \in Signing!Aggregators, a # None, Signing!NotRepeated,
           NEW sigs \in Signing!PartialSignatures, DOMAIN sigs = Quorum,
           \A q \in Quorum : sigs[q] # None => sigs[q].e = Signing!Once,
           NEW wrong \in Quorum, sigs[wrong] # Signing!RightPart
    PROVE  Signing!Aggregate(a, sigs).kind = "named"
  <1>1. DOMAIN sigs \in Qualified
    BY KeyProtocolsAssumption
  <1>2. CASE Signing!With(sigs, None) # {}
    BY <1>1, <1>2 DEF Signing!Aggregate, Signing!Error
  <1>3. CASE Signing!With(sigs, None) = {}
    <2>1. sigs[wrong] # None
      BY <1>3 DEF Signing!With
    <2>2. sigs[wrong] = Signing!Part(Signing!Once, sigs[wrong].negated, sigs[wrong].r, sigs[wrong].s)
      BY <2>1, WhatIsAggregated
    <2>3. \/ sigs[wrong].negated # Signing!Negates(Signing!Once)
          \/ sigs[wrong].r # 0 \/ sigs[wrong].s # 0
      BY <2>2 DEF Signing!RightPart
    <2>4. bigR[a] = Signing!Once
      <3>1. calls[a][3] <= 1
        BY HonestInQuorum DEF Signing!NotRepeated, Signing!Aggregators
      <3> QED
        BY <3>1, AggregatorsNonce
    <2>5. wrong \in Signing!Refuted(a, sigs)
      BY <2>3, <2>4 DEF Signing!Refuted, Signing!VerifiesAlone
    <2> QED
      BY <1>1, <1>3, <2>5 DEF Signing!Aggregate, Signing!Error
  <1> QED
    BY <1>2, <1>3

\* When nobody repeats Round3 of Lindell22, right partial signatures aggregate to
\* a signature (but for a cosigning aggregator of Mina signatures whose nonce sum
\* is odd, which fails without naming anybody), and a cosigning aggregator that
\* was sent the right challenges names a party when a part is wrong.
THEOREM AggregatesRightPartsHolds == Spec => []AggregatesRightParts
  <1>1. SigningInv => Signing!AggregatesRightParts
    <2> SUFFICES ASSUME SigningInv, Signing!NotRepeated,
                        NEW a \in Signing!Aggregators, NEW sigs \in Signing!PartialSignatures,
                        DOMAIN sigs = Quorum
                 PROVE  LET right == {q \in Quorum : sigs[q] = Signing!RightPart}
                            ofRight == IF a # None /\ scheme.variant = "mina"
                                             /\ Signing!Negates(Signing!Once)
                                       THEN "unnamed" ELSE "signature"
                            kind == Signing!Aggregate(a, sigs).kind
                        IN  /\ right = Quorum => kind = ofRight
                            /\ a # None /\ (\A q \in Quorum : sigs[q] # None => sigs[q].e = Signing!Once)
                               => kind = (IF right = Quorum THEN ofRight ELSE "named")
      BY DEF Signing!AggregatesRightParts, Signing!Outcomes
    <2> DEFINE right == {q \in Quorum : sigs[q] = Signing!RightPart}
               ofRight == IF a # None /\ scheme.variant = "mina" /\ Signing!Negates(Signing!Once)
                          THEN "unnamed" ELSE "signature"
    <2>1. ASSUME right = Quorum PROVE Signing!Aggregate(a, sigs).kind = ofRight
      <3>1. \A q \in Quorum : sigs[q] = Signing!RightPart
        BY <2>1
      <3>2. sigs = [q \in DOMAIN sigs |-> sigs[q]]
        BY DEF Signing!PartialSignatures
      <3>3. sigs = [q \in Quorum |-> Signing!RightPart]
        BY <3>1, <3>2
      <3> QED
        BY <3>3, RightPartsFit
    <2>2. ASSUME right # Quorum, a # None,
                 \A q \in Quorum : sigs[q] # None => sigs[q].e = Signing!Once
          PROVE  Signing!Aggregate(a, sigs).kind = "named"
      <3>1. PICK wrong \in Quorum : sigs[wrong] # Signing!RightPart
        BY <2>2
      <3> QED
        BY <2>2, <3>1, WrongPartsAreNamed
    <2> QED
      BY <2>1, <2>2
  <1>2. (protocol = "lindell22" => SigningInv) => AggregatesRightParts
    BY <1>1 DEF AggregatesRightParts
  <1> QED
    BY <1>2, SigningHolds, PTL


-----------------------------------------------------------------------------
(***************************************************************************)
(* DKLS23: what both variants of signing have in common.                   *)
(***************************************************************************)
EcdsaTypes ==
    /\ round \in [Honest -> Nat] /\ DOMAIN aliceRound = Honest /\ DOMAIN bobRound = Honest
    /\ DOMAIN signed = Honest /\ DOMAIN committed = Quorum
    /\ \A p \in Honest : \A q \in Quorum \ {p} : bobRound[p][q] \in Nat

EcdsaCommitments == \A p \in Honest : committed[p] \in {"none", "sealed"}

EcdsaBlame == \A b \in blamed : b[2] \in Corrupt

\* A cosigner that takes no part in a step.
Untouched(p) ==
    /\ round'[p] = round[p] /\ signed'[p] = signed[p]
    /\ aliceRound'[p] = aliceRound[p] /\ bobRound'[p] = bobRound[p]

\* What a message of an honest party is found to be.
LEMMA HonestFoundRight ==
    ASSUME EcdsaCommitments, NEW p \in Honest, NEW kinds
    PROVE  /\ \A found \in Bbot!Handed(p, kinds) \cup Bbot!HandedCommitments(p, kinds) :
                 /\ DOMAIN found = Quorum \ {p}
                 /\ \A q \in (Quorum \ {p}) \ Corrupt : found[q] = "right"
           /\ \A found \in Softspoken!Handed(p, kinds) \cup Softspoken!HandedCommitments(p, kinds) :
                 /\ DOMAIN found = Quorum \ {p}
                 /\ \A q \in (Quorum \ {p}) \ Corrupt : found[q] = "right"
  <1>1. \A q \in (Quorum \ {p}) \ Corrupt : committed[q] # "empty"
    BY DEF EcdsaCommitments, Honest
  <1>2. ASSUME NEW found \in Bbot!Handed(p, kinds)
        PROVE  /\ DOMAIN found = Quorum \ {p}
               /\ \A q \in (Quorum \ {p}) \ Corrupt : found[q] = "right"
    BY DEF Bbot!Handed, Bbot!Others
  <1>3. ASSUME NEW found \in Bbot!HandedCommitments(p, kinds)
        PROVE  /\ DOMAIN found = Quorum \ {p}
               /\ \A q \in (Quorum \ {p}) \ Corrupt : found[q] = "right"
    <2>1. PICK f \in Bbot!Handed(p, kinds) : found = [q \in Quorum \ {p} |->
                  IF committed[q] = "empty" THEN "malformed broadcast" ELSE f[q]]
      BY DEF Bbot!HandedCommitments, Bbot!Others
    <2> QED
      BY <1>1, <1>2, <2>1
  <1>4. ASSUME NEW found \in Softspoken!Handed(p, kinds)
        PROVE  /\ DOMAIN found = Quorum \ {p}
               /\ \A q \in (Quorum \ {p}) \ Corrupt : found[q] = "right"
    BY DEF Softspoken!Handed, Softspoken!Others
  <1>5. ASSUME NEW found \in Softspoken!HandedCommitments(p, kinds)
        PROVE  /\ DOMAIN found = Quorum \ {p}
               /\ \A q \in (Quorum \ {p}) \ Corrupt : found[q] = "right"
    <2>1. PICK f \in Softspoken!Handed(p, kinds) : found = [q \in Quorum \ {p} |->
                  IF committed[q] = "empty" THEN "malformed broadcast" ELSE f[q]]
      BY DEF Softspoken!HandedCommitments, Softspoken!Others
    <2> QED
      BY <1>1, <1>4, <2>1
  <1> QED
    BY <1>2, <1>3, <1>4, <1>5

\* A message that is not well formed is a corrupt party's.
LEMMA MalformedIsCorrupt ==
    ASSUME NEW p \in Honest, NEW found, DOMAIN found = Quorum \ {p},
           \A q \in (Quorum \ {p}) \ Corrupt : found[q] = "right"
    PROVE  /\ Bbot!Malformed(found) # {} => Bbot!First(Bbot!Malformed(found)) \in Corrupt
           /\ Softspoken!Malformed(found) # {} =>
                 Softspoken!First(Softspoken!Malformed(found)) \in Corrupt
  <1>1. Bbot!Malformed(found) \in SUBSET Corrupt /\ Softspoken!Malformed(found) \in SUBSET Corrupt
    BY DEF Bbot!Malformed, Bbot!With, Softspoken!Malformed, Softspoken!With
  <1> QED
    BY <1>1, FirstOfCorrupt DEF Bbot!First, Softspoken!First

\* Sizes of sets are the same in all modules.
LEMMA SameCardinality ==
    ASSUME NEW S
    PROVE  Bbot!Cardinality(S) = Cardinality(S) /\ Softspoken!Cardinality(S) = Cardinality(S)
  <1>1. (Bbot!IsFiniteSet(S) <=> IsFiniteSet(S)) /\ (Softspoken!IsFiniteSet(S) <=> IsFiniteSet(S))
    BY DEF Bbot!IsFiniteSet, Softspoken!IsFiniteSet, IsFiniteSet
  <1>2. Bbot!Cardinality(S) = Cardinality(S)
    BY <1>1 DEF Bbot!Cardinality, Cardinality
  <1>3. Softspoken!Cardinality(S) = Cardinality(S)
    BY <1>1 DEF Softspoken!Cardinality, Cardinality
  <1> QED
    BY <1>2, <1>3

\* What a step does to the round numbers of p's multiplications.
Advances(new, rounds, p, ids) ==
    /\ DOMAIN new = Honest
    /\ \A other \in Honest \ {p} : new[other] = rounds[other]
    /\ \A q \in Quorum \ {p} :
          new[p][q] = IF q \in ids THEN rounds[p][q] + 2 ELSE rounds[p][q]

LEMMA Advanced ==
    ASSUME NEW rounds, DOMAIN rounds = Honest, NEW p \in Honest, NEW ids
    PROVE  /\ Advances(Bbot!Advance(rounds, p, ids), rounds, p, ids)
           /\ Advances(Softspoken!Advance(rounds, p, ids), rounds, p, ids)
  <1> DEFINE new == [rounds EXCEPT ![p] =
                       [q \in Quorum \ {p} |-> IF q \in ids THEN @[q] + 2 ELSE @[q]]]
  <1>1. Bbot!Advance(rounds, p, ids) = new /\ Softspoken!Advance(rounds, p, ids) = new
    BY DEF Bbot!Advance, Softspoken!Advance, Bbot!Others, Softspoken!Others
  <1>2. Advances(new, rounds, p, ids)
    BY DEF Advances
  <1> QED
    BY <1>1, <1>2

-----------------------------------------------------------------------------
(***************************************************************************)
(* DKLS23 with the oblivious transfer of every multiplication in it.       *)
(***************************************************************************)
\* Alice's sides are through in Round4; Bob's are after it returned.
BbotAt(p) ==
    /\ round[p] = 4 => \A q \in Quorum \ {p} : aliceRound[p][q] = 5
    /\ signed[p] # {} =>
          /\ round[p] = 4
          /\ \A q \in Quorum \ {p} : bobRound[p][q] > 4
          /\ \E message : signed[p] = {message}

BbotInv ==
    /\ EcdsaTypes
    /\ EcdsaCommitments
    /\ EcdsaBlame
    /\ \A p \in Honest : BbotAt(p)

LEMMA BbotFrame ==
    ASSUME BbotInv, NEW p \in Honest, \A other \in Honest \ {p} : Untouched(other),
           EcdsaTypes', EcdsaCommitments', EcdsaBlame', BbotAt(p)'
    PROVE  BbotInv'
  <1>1. ASSUME NEW other \in Honest \ {p} PROVE BbotAt(other)'
    <2>1. BbotAt(other) /\ Untouched(other)
      BY DEF BbotInv
    <2> QED
      BY <2>1 DEF BbotAt, Untouched
  <1> QED
    BY <1>1 DEF BbotInv

\* A call that turns down what it was handed.
LEMMA BbotReject ==
    ASSUME BbotInv, NEW p \in Honest, NEW found, DOMAIN found = Quorum \ {p},
           \A q \in (Quorum \ {p}) \ Corrupt : found[q] = "right", Bbot!Reject(p, found)
    PROVE  BbotInv' /\ signed' = signed
  <1>1. /\ Bbot!Malformed(found) # {}
        /\ blamed' = blamed \cup {<<p, Bbot!First(Bbot!Malformed(found))>>}
        /\ round' = round /\ committed' = committed /\ aliceRound' = aliceRound
        /\ bobRound' = bobRound /\ signed' = signed
    BY DEF Bbot!Reject
  <1>2. EcdsaBlame'
    BY <1>1, MalformedIsCorrupt DEF BbotInv, EcdsaBlame
  <1>3. EcdsaTypes' /\ EcdsaCommitments'
    BY <1>1 DEF BbotInv, EcdsaTypes, EcdsaCommitments
  <1>4. BbotAt(p)' /\ \A other \in Honest \ {p} : Untouched(other)
    BY <1>1 DEF BbotInv, BbotAt, Untouched
  <1> QED
    BY <1>1, <1>2, <1>3, <1>4, BbotFrame

LEMMA BbotEarly ==
    ASSUME BbotInv, NEW p \in Honest, Bbot!Round1(p) \/ Bbot!Round2(p)
    PROVE  BbotInv' /\ signed' = signed
  <1> USE DEF BbotInv
  <1>1. CASE Bbot!Round1(p)
    <2>1. /\ round[p] = 1 /\ round' = [round EXCEPT ![p] = @ + 1]
          /\ committed' = [committed EXCEPT ![p] = "sealed"]
          /\ aliceRound' = Bbot!Advance(aliceRound, p, Bbot!Others(p))
          /\ bobRound' = bobRound /\ signed' = signed /\ blamed' = blamed
      BY <1>1 DEF Bbot!Round1, Bbot!NextRound
    <2>2. /\ DOMAIN aliceRound' = Honest
          /\ \A other \in Honest \ {p} : aliceRound'[other] = aliceRound[other]
      <3>1. Advances(aliceRound', aliceRound, p, Bbot!Others(p))
        BY <2>1, Advanced DEF EcdsaTypes
      <3> QED
        BY <3>1 DEF Advances
    <2>3. EcdsaTypes'
      BY <2>1, <2>2 DEF EcdsaTypes
    <2>4. EcdsaCommitments' /\ EcdsaBlame'
      BY <2>1 DEF EcdsaTypes, EcdsaCommitments, EcdsaBlame, Honest
    <2>5. BbotAt(p)' /\ \A other \in Honest \ {p} : Untouched(other)
      BY <2>1, <2>2 DEF EcdsaTypes, BbotAt, Untouched
    <2> QED
      BY <2>1, <2>3, <2>4, <2>5, BbotFrame
  <1>2. CASE Bbot!Round2(p)
    <2>1. PICK found \in Bbot!HandedCommitments(p, {}) :
             \/ Bbot!Reject(p, found)
             \/ /\ bobRound' = Bbot!Advance(bobRound, p, Bbot!Others(p))
                /\ Bbot!NextRound(p)
                /\ UNCHANGED <<committed, aliceRound, pk, signed, blamed, untagged>>
      BY <1>2 DEF Bbot!Round2
    <2>2. CASE Bbot!Reject(p, found)
      BY <2>1, <2>2, HonestFoundRight, BbotReject
    <2>3. CASE ~Bbot!Reject(p, found)
      <3>1. /\ round[p] = 2 /\ round' = [round EXCEPT ![p] = @ + 1]
            /\ bobRound' = Bbot!Advance(bobRound, p, Bbot!Others(p))
            /\ aliceRound' = aliceRound /\ committed' = committed /\ signed' = signed
            /\ blamed' = blamed
        BY <1>2, <2>1, <2>3 DEF Bbot!Round2, Bbot!NextRound
      <3>2. /\ DOMAIN bobRound' = Honest
            /\ \A other \in Honest \ {p} : bobRound'[other] = bobRound[other]
            /\ \A q \in Quorum \ {p} : bobRound'[p][q] \in Nat
        <4>1. Advances(bobRound', bobRound, p, Bbot!Others(p))
          BY <3>1, Advanced DEF EcdsaTypes
        <4> QED
          BY <4>1 DEF Advances, EcdsaTypes
      <3>3. EcdsaTypes'
        BY <3>1, <3>2 DEF EcdsaTypes
      <3>4. EcdsaCommitments' /\ EcdsaBlame'
        BY <3>1 DEF EcdsaCommitments, EcdsaBlame
      <3>5. BbotAt(p)' /\ \A other \in Honest \ {p} : Untouched(other)
        BY <3>1, <3>2 DEF EcdsaTypes, BbotAt, Untouched
      <3> QED
        BY <3>1, <3>3, <3>4, <3>5, BbotFrame
    <2> QED
      BY <2>2, <2>3
  <1> QED
    BY <1>1, <1>2


LEMMA BbotRound3 ==
    ASSUME BbotInv, NEW p \in Honest, Bbot!Round3(p)
    PROVE  BbotInv' /\ signed' = signed
  <1> USE DEF BbotInv
  <1>1. \E found \in Bbot!Handed(p, {"malformed broadcast", "refuted", "unusable"}) :
           Bbot!Reject(p, found) \/ Bbot!Round3Fails(p, found) \/ Bbot!Round3Returns(p, found)
    BY DEF Bbot!Round3
  <1>2. PICK found :
           /\ DOMAIN found = Quorum \ {p} /\ round[p] = 3
           /\ \A q \in (Quorum \ {p}) \ Corrupt : found[q] = "right"
           /\ Bbot!Reject(p, found) \/ Bbot!Round3Fails(p, found) \/ Bbot!Round3Returns(p, found)
    BY <1>1, HonestFoundRight DEF Bbot!Round3
  <1>3. CASE Bbot!Reject(p, found)
    BY <1>2, <1>3, BbotReject
  <1>4. CASE Bbot!Round3Fails(p, found)
    <2> DEFINE stop == Bbot!First(Bbot!Stops3(p, found))
               ids == Bbot!Before(p, stop)
    <2>1. /\ Bbot!Stops3(p, found) # {}
          /\ aliceRound' = Bbot!Advance(aliceRound, p, ids)
          /\ blamed' = blamed \/ (found[stop] = "refuted" /\ blamed' = blamed \cup {<<p, stop>>})
          /\ round' = round /\ committed' = committed /\ bobRound' = bobRound /\ signed' = signed
      BY <1>4 DEF Bbot!Round3Fails
    <2>2. stop \in Quorum \ {p}
      <3>1. Bbot!Stops3(p, found) \in SUBSET (Quorum \ {p})
        BY <1>2 DEF Bbot!Stops3, Bbot!With, Bbot!Others
      <3> QED
        BY <2>1, <3>1, FirstIsMember DEF Bbot!First
    <2> HIDE DEF stop, ids
    <2>3. Advances(aliceRound', aliceRound, p, ids)
      BY <2>1, Advanced DEF EcdsaTypes
    <2>4. EcdsaBlame'
      BY <1>2, <2>1, <2>2 DEF EcdsaBlame
    <2>5. EcdsaTypes' /\ EcdsaCommitments'
      BY <2>1, <2>3 DEF EcdsaTypes, EcdsaCommitments, Advances
    <2>6. BbotAt(p)' /\ \A other \in Honest \ {p} : Untouched(other)
      BY <1>2, <2>1, <2>3 DEF BbotAt, Untouched, Advances
    <2> QED
      BY <2>1, <2>4, <2>5, <2>6, BbotFrame
  <1>5. CASE Bbot!Round3Returns(p, found)
    <2>1. /\ aliceRound' = Bbot!Advance(aliceRound, p, Bbot!Others(p))
          /\ round' = [round EXCEPT ![p] = @ + 1]
          /\ committed' = committed /\ bobRound' = bobRound /\ signed' = signed /\ blamed' = blamed
      BY <1>5 DEF Bbot!Round3Returns, Bbot!NextRound
    <2>2. \A q \in Quorum \ {p} : aliceRound[p][q] = 3
      BY <1>5 DEF Bbot!Round3Returns, Bbot!Stops3, Bbot!Others
    <2>3. Advances(aliceRound', aliceRound, p, Quorum \ {p})
      BY <2>1, Advanced DEF EcdsaTypes, Bbot!Others
    <2>4. \A q \in Quorum \ {p} : aliceRound'[p][q] = 5
      BY <2>2, <2>3 DEF Advances
    <2>5. EcdsaTypes' /\ EcdsaCommitments' /\ EcdsaBlame'
      BY <2>1, <2>3 DEF EcdsaTypes, EcdsaCommitments, EcdsaBlame, Advances
    <2>6. signed[p] = {}
      BY <1>2 DEF BbotAt
    <2>7. BbotAt(p)' /\ \A other \in Honest \ {p} : Untouched(other)
      BY <2>1, <2>3, <2>4, <2>6 DEF BbotAt, Untouched, Advances, EcdsaTypes
    <2> QED
      BY <2>1, <2>5, <2>7, BbotFrame
  <1> QED
    BY <1>2, <1>3, <1>4, <1>5

LEMMA BbotRound4 ==
    ASSUME BbotInv, NEW p \in Honest, NEW message, Bbot!Round4(p, message)
    PROVE  /\ BbotInv'
           /\ \/ signed' = signed
              \/ /\ \A other \in Honest \ {p} : signed'[other] = signed[other]
                 /\ \A q \in Quorum \ {p} : aliceRound[p][q] = 5 /\ bobRound[p][q] = 4
  <1> USE DEF BbotInv
  <1>1. \E found \in Bbot!Handed(p, {"malformed broadcast", "cheated", "inconsistent"}) :
           \/ Bbot!Reject(p, found) \/ Bbot!Round4Fails(p, found)
           \/ Bbot!Round4Returns(p, found, message)
    BY DEF Bbot!Round4
  <1>2. PICK found :
           /\ DOMAIN found = Quorum \ {p} /\ round[p] = 4
           /\ \A q \in (Quorum \ {p}) \ Corrupt : found[q] = "right"
           /\ \/ Bbot!Reject(p, found) \/ Bbot!Round4Fails(p, found)
              \/ Bbot!Round4Returns(p, found, message)
    BY <1>1, HonestFoundRight DEF Bbot!Round4
  <1>3. CASE Bbot!Reject(p, found)
    BY <1>2, <1>3, BbotReject
  <1>4. CASE Bbot!Round4Fails(p, found)
    <2> DEFINE stop == Bbot!First(Bbot!Stops4(p, found))
    <2>1. /\ Bbot!Stops4(p, found) # {}
          /\ \E ids : bobRound' = Bbot!Advance(bobRound, p, ids)
          /\ blamed' = blamed \/ (bobRound[p][stop] = 4 /\ blamed' = blamed \cup {<<p, stop>>})
          /\ round' = round /\ committed' = committed /\ aliceRound' = aliceRound /\ signed' = signed
      BY <1>4 DEF Bbot!Round4Fails
    <2>2. /\ stop \in Quorum \ {p}
          /\ bobRound[p][stop] = 4 => found[stop] # "right"
      <3>1. /\ Bbot!Stops4(p, found) \in SUBSET (Quorum \ {p})
            /\ \A q \in Bbot!Stops4(p, found) : bobRound[p][q] = 4 => found[q] # "right"
        BY <1>2 DEF Bbot!Stops4, Bbot!With, Bbot!Others
      <3> QED
        BY <2>1, <3>1, FirstIsMember DEF Bbot!First
    <2> HIDE DEF stop
    <2>3. PICK ids : bobRound' = Bbot!Advance(bobRound, p, ids)
      BY <2>1
    <2>4. Advances(bobRound', bobRound, p, ids)
      BY <2>3, Advanced DEF EcdsaTypes
    <2>5. EcdsaBlame'
      BY <1>2, <2>1, <2>2 DEF EcdsaBlame
    <2>6. /\ \A q \in Quorum \ {p} : bobRound'[p][q] \in Nat /\ bobRound'[p][q] >= bobRound[p][q]
          /\ \A other \in Honest \ {p} : bobRound'[other] = bobRound[other]
          /\ DOMAIN bobRound' = Honest
      BY <2>4 DEF Advances, EcdsaTypes
    <2>7. EcdsaTypes' /\ EcdsaCommitments'
      BY <2>1, <2>6 DEF EcdsaTypes, EcdsaCommitments
    <2>8. \A other \in Honest \ {p} : Untouched(other)
      BY <2>1, <2>6 DEF Untouched
    <2>9. BbotAt(p)'
      <3>1. round[p] = 4 /\ BbotAt(p) /\ \A q \in Quorum \ {p} : bobRound[p][q] \in Nat
        BY <1>2 DEF EcdsaTypes
      <3>2. signed[p] # {} => \A q \in Quorum \ {p} : bobRound'[p][q] > 4
        BY <2>6, <3>1 DEF BbotAt
      <3> QED
        BY <2>1, <3>1, <3>2 DEF BbotAt
    <2> QED
      BY <2>1, <2>5, <2>7, <2>8, <2>9, BbotFrame
  <1>5. CASE Bbot!Round4Returns(p, found, message)
    <2>1. /\ bobRound' = Bbot!Advance(bobRound, p, Bbot!Others(p))
          /\ signed' = signed \/ signed' = [signed EXCEPT ![p] = @ \cup {message}]
          /\ round' = round /\ committed' = committed /\ aliceRound' = aliceRound /\ blamed' = blamed
      BY <1>5 DEF Bbot!Round4Returns, Bbot!BobsAfterRound4
    <2>2. \A q \in Quorum \ {p} : bobRound[p][q] = 4
      BY <1>5 DEF Bbot!Round4Returns, Bbot!Stops4, Bbot!Others
    <2>3. Advances(bobRound', bobRound, p, Quorum \ {p})
      BY <2>1, Advanced DEF EcdsaTypes, Bbot!Others
    <2>4. \A q \in Quorum \ {p} : bobRound'[p][q] = 6
      BY <2>2, <2>3 DEF Advances
    <2>5. signed[p] = {}
      <3>1. \E q \in Quorum \ {p} : TRUE
        BY KeyProtocolsAssumption DEF Honest
      <3> QED
        BY <2>2, <3>1 DEF BbotAt
    <2>6. signed'[p] \in {{}, {message}} /\ DOMAIN signed' = Honest
      BY <2>1, <2>5 DEF EcdsaTypes
    <2>7. EcdsaTypes' /\ EcdsaCommitments' /\ EcdsaBlame'
      <3>1. \A other \in Honest : \A q \in Quorum \ {other} : bobRound'[other][q] \in Nat
        BY <2>3, <2>4 DEF Advances, EcdsaTypes
      <3> QED
        BY <2>1, <2>3, <2>6, <3>1 DEF EcdsaTypes, EcdsaCommitments, EcdsaBlame, Advances
    <2>8. \A other \in Honest \ {p} : Untouched(other)
      BY <2>1, <2>3 DEF Untouched, Advances, EcdsaTypes
    <2>9. BbotAt(p)'
      <3>1. round[p] = 4 /\ \A q \in Quorum \ {p} : aliceRound[p][q] = 5
        BY <1>2 DEF BbotAt
      <3>2. \A q \in Quorum \ {p} : bobRound'[p][q] > 4
        BY <2>4
      <3>3. signed'[p] # {} => \E m : signed'[p] = {m}
        BY <2>6
      <3> QED
        BY <2>1, <3>1, <3>2, <3>3 DEF BbotAt
    <2>10. \A q \in Quorum \ {p} : aliceRound[p][q] = 5
      BY <1>2 DEF BbotAt
    <2> QED
      BY <2>2, <2>7, <2>8, <2>9, <2>10, BbotFrame DEF Untouched
  <1> QED
    BY <1>2, <1>3, <1>4, <1>5

\* A step of signing, and that it signs only where everything is in step.
LEMMA BbotStep ==
    ASSUME BbotInv, [Bbot!Next]_(Bbot!vars)
    PROVE  /\ BbotInv'
           /\ \A p \in Honest : Bbot!Halfway(p) => signed'[p] = signed[p]
  <1>1. CASE \E p \in Honest : Bbot!Round1(p) \/ Bbot!Round2(p) \/ Bbot!Round3(p)
    BY <1>1, BbotEarly, BbotRound3
  <1>2. CASE \E p \in Honest : \E message : Bbot!Round4(p, message)
    <2>1. PICK p \in Honest : \E message : Bbot!Round4(p, message)
      BY <1>2
    <2>2. /\ BbotInv'
          /\ \/ signed' = signed
             \/ /\ \A other \in Honest \ {p} : signed'[other] = signed[other]
                /\ \A q \in Quorum \ {p} : aliceRound[p][q] = 5 /\ bobRound[p][q] = 4
      BY <2>1, BbotRound4
    <2>3. ASSUME \A q \in Quorum \ {p} : aliceRound[p][q] = 5 /\ bobRound[p][q] = 4
          PROVE  ~Bbot!Halfway(p)
      BY <2>3 DEF Bbot!Halfway, Bbot!Others
    <2> QED
      BY <2>2, <2>3
  <1>3. CASE \/ \E c \in Corrupt, digest \in {"empty", "sealed"} : Bbot!CorruptCommit(c, digest)
             \/ \E c \in Corrupt, shift \in Bbot!Scalars : Bbot!CorruptKeyPart(c, shift)
             \/ UNCHANGED Bbot!vars
    <2>1. /\ round' = round /\ aliceRound' = aliceRound /\ bobRound' = bobRound
          /\ signed' = signed /\ blamed' = blamed
          /\ \/ committed' = committed
             \/ \E c \in Corrupt : \E digest : committed' = [committed EXCEPT ![c] = digest]
      BY <1>3 DEF Bbot!CorruptCommit, Bbot!CorruptKeyPart, Bbot!vars, Bbot!cosignerVars
    <2>2. EcdsaTypes' /\ EcdsaBlame'
      BY <2>1 DEF BbotInv, EcdsaTypes, EcdsaBlame
    <2>3. EcdsaCommitments'
      BY <2>1 DEF BbotInv, EcdsaTypes, EcdsaCommitments, Honest
    <2>4. \A p \in Honest : BbotAt(p)'
      BY <2>1 DEF BbotInv, BbotAt
    <2> QED
      BY <2>1, <2>2, <2>3, <2>4 DEF BbotInv
  <1>4. CASE Bbot!Next
    <2>1. Bbot!Honest = Honest
      BY DEF Bbot!Honest, Honest
    <2> QED
      BY <1>1, <1>2, <1>3, <1>4, <2>1 DEF Bbot!Next
  <1> QED
    BY <1>3, <1>4


-----------------------------------------------------------------------------
(***************************************************************************)
(* DKLS23 with oblivious transfers made in advance.                        *)
(***************************************************************************)
SoftAt(p) ==
    /\ round[p] = 5 => \A q \in Quorum \ {p} : aliceRound[p][q] = 4
    /\ signed[p] # {} => round[p] = 6 /\ \E message : signed[p] = {message}

\* Nobody gets past Round4 unless all honest cosigners are past Round3, and none
\* of them repeated it, or there is no other.
SoftInStep ==
    /\ skewed \subseteq Honest
    /\ \A p \in Honest : committed[p] # "none" => round[p] >= 4
    /\ \A p \in Honest : round[p] >= 5 =>
          /\ \A q \in Honest : round[q] >= 4
          /\ Honest \ {p} # {} => skewed = {}

SoftInv ==
    /\ EcdsaTypes
    /\ EcdsaCommitments
    /\ EcdsaBlame
    /\ \A p \in Honest : SoftAt(p)
    /\ SoftInStep

LEMMA SoftFrame ==
    ASSUME SoftInv, NEW p \in Honest, \A other \in Honest \ {p} : Untouched(other),
           EcdsaTypes', EcdsaCommitments', EcdsaBlame', SoftAt(p)', SoftInStep'
    PROVE  SoftInv'
  <1>1. ASSUME NEW other \in Honest \ {p} PROVE SoftAt(other)'
    <2>1. SoftAt(other) /\ Untouched(other)
      BY DEF SoftInv
    <2> QED
      BY <2>1 DEF SoftAt, Untouched
  <1> QED
    BY <1>1 DEF SoftInv

LEMMA SoftReject ==
    ASSUME SoftInv, NEW p \in Honest, NEW found, DOMAIN found = Quorum \ {p},
           \A q \in (Quorum \ {p}) \ Corrupt : found[q] = "right", Softspoken!Reject(p, found),
           skewed' = skewed
    PROVE  SoftInv' /\ signed' = signed
  <1>1. /\ Softspoken!Malformed(found) # {}
        /\ blamed' = blamed \cup {<<p, Softspoken!First(Softspoken!Malformed(found))>>}
        /\ round' = round /\ committed' = committed /\ aliceRound' = aliceRound
        /\ bobRound' = bobRound /\ signed' = signed
    BY DEF Softspoken!Reject
  <1>2. EcdsaBlame'
    BY <1>1, MalformedIsCorrupt DEF SoftInv, EcdsaBlame
  <1>3. EcdsaTypes' /\ EcdsaCommitments'
    BY <1>1 DEF SoftInv, EcdsaTypes, EcdsaCommitments
  <1>4. SoftAt(p)' /\ \A other \in Honest \ {p} : Untouched(other)
    BY <1>1 DEF SoftInv, SoftAt, Untouched
  <1>5. SoftInStep'
    BY <1>1 DEF SoftInv, SoftInStep
  <1> QED
    BY <1>1, <1>2, <1>3, <1>4, <1>5, SoftFrame

\* A call of an early round that returns.
LEMMA SoftMovesOn ==
    ASSUME SoftInv, NEW p \in Honest, round[p] \in {1, 2, 3}, round' = [round EXCEPT ![p] = @ + 1],
           aliceRound' = aliceRound, signed' = signed, blamed' = blamed, skewed' = skewed,
           \/ committed' = committed
           \/ round[p] = 3 /\ committed' = [committed EXCEPT ![p] = "sealed"],
           DOMAIN bobRound' = Honest, \A q \in Quorum \ {p} : bobRound'[p][q] \in Nat,
           \A other \in Honest \ {p} : bobRound'[other] = bobRound[other]
    PROVE  SoftInv'
  <1> USE DEF SoftInv
  <1>1. /\ round'[p] = round[p] + 1 /\ \A q \in Honest \ {p} : round'[q] = round[q]
        /\ round' \in [Honest -> Nat] /\ round \in [Honest -> Nat]
    BY DEF EcdsaTypes
  <1>2. p \in Quorum /\ DOMAIN committed = Quorum /\ DOMAIN committed' = Quorum
    BY DEF EcdsaTypes, Honest
  <1>3. EcdsaTypes'
    <2>1. \A other \in Honest : \A q \in Quorum \ {other} : bobRound'[other][q] \in Nat
      BY DEF EcdsaTypes
    <2> QED
      BY <1>1, <1>2, <2>1 DEF EcdsaTypes
  <1>4. EcdsaCommitments' /\ EcdsaBlame'
    BY <1>2 DEF EcdsaCommitments, EcdsaBlame, Honest
  <1>5. \A other \in Honest \ {p} : Untouched(other)
    BY <1>1 DEF Untouched
  <1>6. SoftAt(p)'
    <2>1. signed[p] = {}
      BY DEF SoftAt
    <2> QED
      BY <1>1, <2>1 DEF SoftAt
  <1>7. SoftInStep'
    <2>1. \A q \in Honest : round[q] < 5
      BY <1>1 DEF SoftInStep
    <2>2. \A q \in Honest : round'[q] < 5
      BY <1>1, <2>1
    <2>3. \A q \in Honest : committed'[q] # "none" => round'[q] >= 4
      <3> SUFFICES ASSUME NEW q \in Honest, committed'[q] # "none" PROVE round'[q] >= 4
        OBVIOUS
      <3>1. CASE q = p /\ round[p] = 3
        BY <1>1, <3>1
      <3>2. CASE ~(q = p /\ round[p] = 3)
        <4>1. committed'[q] = committed[q]
          BY <1>2, <3>2 DEF Honest
        <4>2. round[q] >= 4
          BY <4>1 DEF SoftInStep
        <4> QED
          BY <1>1, <4>2
      <3> QED
        BY <3>1, <3>2
    <2>4. \A q \in Honest : ~(round'[q] >= 5)
      BY <1>1, <2>2
    <2>5. skewed' \subseteq Honest
      BY DEF SoftInStep
    <2> QED
      BY <2>3, <2>4, <2>5 DEF SoftInStep
  <1> QED
    BY <1>3, <1>4, <1>5, <1>6, <1>7, SoftFrame

\* What making new multiplications does to Bob's round numbers.
LEMMA SoftSetUp ==
    ASSUME SoftInv, NEW p \in Honest, NEW ids, Softspoken!SetUp(p, ids)
    PROVE  /\ DOMAIN bobRound' = Honest
           /\ \A q \in Quorum \ {p} : bobRound'[p][q] \in Nat
           /\ \A other \in Honest \ {p} : bobRound'[other] = bobRound[other]
  <1>1. bobRound' = [bobRound EXCEPT ![p] =
                        [q \in Quorum \ {p} |-> IF q \in ids THEN 3 ELSE @[q]]]
    BY DEF Softspoken!SetUp, Softspoken!Others
  <1>2. DOMAIN bobRound = Honest /\ \A q \in Quorum \ {p} : bobRound[p][q] \in Nat
    BY DEF SoftInv, EcdsaTypes
  <1> QED
    BY <1>1, <1>2

LEMMA SoftEarly ==
    ASSUME SoftInv, NEW p \in Honest,
           Softspoken!Round1(p) \/ Softspoken!Round2(p) \/ Softspoken!Round3(p)
    PROVE  SoftInv' /\ signed' = signed
  <1>0. /\ DOMAIN bobRound = Honest /\ \A q \in Quorum \ {p} : bobRound[p][q] \in Nat
        /\ EcdsaCommitments
    BY DEF SoftInv, EcdsaTypes
  <1>1. CASE Softspoken!Round1(p)
    <2>1. /\ round[p] = 1 /\ round' = [round EXCEPT ![p] = @ + 1] /\ committed' = committed
          /\ aliceRound' = aliceRound /\ bobRound' = bobRound /\ signed' = signed
          /\ blamed' = blamed /\ skewed' = skewed
      BY <1>1 DEF Softspoken!Round1, Softspoken!NextRound
    <2> QED
      BY <1>0, <2>1, SoftMovesOn
  <1>2. CASE Softspoken!Round2(p)
    <2>1. round[p] = 2 /\ skewed' = skewed
      BY <1>2 DEF Softspoken!Round2, Softspoken!otVars
    <2>2. \E found \in Softspoken!Handed(p, {}) :
             \/ Softspoken!Reject(p, found)
             \/ /\ Softspoken!NextRound(p)
                /\ UNCHANGED <<committed, aliceRound, bobRound, pk, signed, blamed, untagged>>
      BY <1>2 DEF Softspoken!Round2
    <2>3. PICK found :
             /\ DOMAIN found = Quorum \ {p}
             /\ \A q \in (Quorum \ {p}) \ Corrupt : found[q] = "right"
             /\ \/ Softspoken!Reject(p, found)
                \/ /\ Softspoken!NextRound(p)
                   /\ UNCHANGED <<committed, aliceRound, bobRound, pk, signed, blamed, untagged>>
      BY <1>0, <2>2, HonestFoundRight
    <2>4. CASE Softspoken!Reject(p, found)
      BY <2>1, <2>3, <2>4, SoftReject
    <2>5. CASE ~Softspoken!Reject(p, found)
      <3>1. /\ round' = [round EXCEPT ![p] = @ + 1] /\ committed' = committed
            /\ aliceRound' = aliceRound /\ bobRound' = bobRound /\ signed' = signed
            /\ blamed' = blamed
        BY <2>3, <2>5 DEF Softspoken!NextRound
      <3> QED
        BY <1>0, <2>1, <3>1, SoftMovesOn
    <2> QED
      BY <2>4, <2>5
  <1>3. CASE Softspoken!Round3(p)
    <2>1. \E found \in Softspoken!Handed(p, {"unusable"}) :
             \/ Softspoken!Reject(p, found) /\ UNCHANGED Softspoken!otVars
             \/ Softspoken!Round3Fails(p, found)
             \/ Softspoken!Round3Returns(p, found)
      BY <1>3 DEF Softspoken!Round3
    <2>2. round[p] = 3
      BY <1>3 DEF Softspoken!Round3
    <2>3. PICK found :
             /\ DOMAIN found = Quorum \ {p}
             /\ \A q \in (Quorum \ {p}) \ Corrupt : found[q] = "right"
             /\ \/ Softspoken!Reject(p, found) /\ UNCHANGED Softspoken!otVars
                \/ Softspoken!Round3Fails(p, found)
                \/ Softspoken!Round3Returns(p, found)
      BY <1>0, <2>1, HonestFoundRight
    <2>4. CASE Softspoken!Reject(p, found) /\ UNCHANGED Softspoken!otVars
      BY <2>3, <2>4, SoftReject DEF Softspoken!otVars
    <2>5. CASE Softspoken!Round3Returns(p, found)
      <3>1. /\ round' = [round EXCEPT ![p] = @ + 1]
            /\ committed' = [committed EXCEPT ![p] = "sealed"]
            /\ aliceRound' = aliceRound /\ signed' = signed /\ blamed' = blamed
            /\ skewed' = skewed /\ Softspoken!SetUp(p, Softspoken!Others(p))
        BY <2>5 DEF Softspoken!Round3Returns, Softspoken!NextRound
      <3> QED
        BY <2>2, <3>1, SoftSetUp, SoftMovesOn
    <2>6. CASE Softspoken!Round3Fails(p, found)
      <3>1. /\ round' = round /\ committed' = committed /\ aliceRound' = aliceRound
            /\ signed' = signed /\ blamed' = blamed /\ skewed' = skewed \cup {p}
            /\ \E ids : Softspoken!SetUp(p, ids)
        BY <2>6 DEF Softspoken!Round3Fails
      <3>2. /\ DOMAIN bobRound' = Honest /\ \A q \in Quorum \ {p} : bobRound'[p][q] \in Nat
            /\ \A other \in Honest \ {p} : bobRound'[other] = bobRound[other]
        BY <3>1, SoftSetUp
      <3>3. EcdsaTypes' /\ EcdsaCommitments' /\ EcdsaBlame'
        BY <3>1, <3>2 DEF SoftInv, EcdsaTypes, EcdsaCommitments, EcdsaBlame
      <3>4. SoftAt(p)' /\ \A other \in Honest \ {p} : Untouched(other)
        BY <2>2, <3>1, <3>2 DEF SoftInv, SoftAt, Untouched
      <3>5. \A q \in Honest : ~(round[q] >= 5)
        BY <2>2 DEF SoftInv, SoftInStep
      <3>6. SoftInStep'
        BY <3>1, <3>5 DEF SoftInv, SoftInStep
      <3> QED
        BY <3>1, <3>3, <3>4, <3>6, SoftFrame
    <2> QED
      BY <2>3, <2>4, <2>5, <2>6
  <1> QED
    BY <1>1, <1>2, <1>3


LEMMA SoftRound4 ==
    ASSUME SoftInv, NEW p \in Honest, Softspoken!Round4(p)
    PROVE  SoftInv' /\ signed' = signed
  <1>1. /\ round[p] = 4 /\ skewed' = skewed
        /\ \A q \in Quorum \ {p} : committed[q] # "none"
    BY DEF Softspoken!Round4, Softspoken!Others, Softspoken!otVars
  <1>2. EcdsaCommitments /\ DOMAIN aliceRound = Honest /\ round \in [Honest -> Nat] /\ SoftAt(p)
    BY DEF SoftInv, EcdsaTypes
  <1>3. \E found \in Softspoken!HandedCommitments(p, {"unusable"}) :
           \/ Softspoken!Reject(p, found) \/ Softspoken!Round4Fails(p, found)
           \/ Softspoken!Round4Returns(p, found)
    BY DEF Softspoken!Round4
  <1>4. PICK found :
           /\ DOMAIN found = Quorum \ {p}
           /\ \A q \in (Quorum \ {p}) \ Corrupt : found[q] = "right"
           /\ \/ Softspoken!Reject(p, found) \/ Softspoken!Round4Fails(p, found)
              \/ Softspoken!Round4Returns(p, found)
    BY <1>2, <1>3, HonestFoundRight
  <1>5. CASE Softspoken!Reject(p, found)
    BY <1>1, <1>4, <1>5, SoftReject
  <1>6. CASE Softspoken!Round4Fails(p, found)
    <2>1. /\ round' = round /\ committed' = committed /\ bobRound' = bobRound
          /\ signed' = signed /\ blamed' = blamed
          /\ \E ids : aliceRound' = Softspoken!Advance(aliceRound, p, ids)
      BY <1>6 DEF Softspoken!Round4Fails
    <2>2. \E ids : Advances(aliceRound', aliceRound, p, ids)
      BY <1>2, <2>1, Advanced
    <2>3. DOMAIN aliceRound' = Honest /\ \A other \in Honest \ {p} : aliceRound'[other] = aliceRound[other]
      BY <2>2 DEF Advances
    <2>4. EcdsaTypes' /\ EcdsaCommitments' /\ EcdsaBlame'
      BY <2>1, <2>3 DEF SoftInv, EcdsaTypes, EcdsaCommitments, EcdsaBlame
    <2>5. SoftAt(p)' /\ \A other \in Honest \ {p} : Untouched(other)
      BY <1>1, <1>2, <2>1, <2>3 DEF SoftAt, Untouched
    <2>6. SoftInStep'
      BY <1>1, <2>1 DEF SoftInv, SoftInStep
    <2> QED
      BY <2>1, <2>4, <2>5, <2>6, SoftFrame
  <1>7. CASE Softspoken!Round4Returns(p, found)
    <2>1. /\ round' = [round EXCEPT ![p] = @ + 1] /\ committed' = committed /\ bobRound' = bobRound
          /\ signed' = signed /\ blamed' = blamed
          /\ aliceRound' = Softspoken!Advance(aliceRound, p, Quorum \ {p})
          /\ Softspoken!Stops4(p, found) = {}
      BY <1>7 DEF Softspoken!Round4Returns, Softspoken!NextRound, Softspoken!Others
    <2>2. \A q \in Quorum \ {p} : aliceRound[p][q] = 2
      <3>1. \A q \in Quorum \ {p} : ~Softspoken!AliceDone[p][q]
        BY <2>1 DEF Softspoken!Stops4, Softspoken!Unusable, Softspoken!Others
      <3>2. \A q \in Quorum \ {p} : Softspoken!AliceDone[p][q] = (aliceRound[p][q] # 2)
        BY DEF Softspoken!AliceDone, Softspoken!Others, Softspoken!Honest, Honest
      <3> QED
        BY <3>1, <3>2
    <2>3. Advances(aliceRound', aliceRound, p, Quorum \ {p})
      BY <1>2, <2>1, Advanced
    <2>4. /\ \A q \in Quorum \ {p} : aliceRound'[p][q] = 4
          /\ DOMAIN aliceRound' = Honest
          /\ \A other \in Honest \ {p} : aliceRound'[other] = aliceRound[other]
      BY <2>2, <2>3 DEF Advances
    <2>5. /\ round'[p] = 5 /\ \A other \in Honest \ {p} : round'[other] = round[other]
          /\ round' \in [Honest -> Nat]
      BY <1>1, <1>2, <2>1
    <2>6. EcdsaTypes' /\ EcdsaCommitments' /\ EcdsaBlame'
      <3>1. EcdsaCommitments' /\ EcdsaBlame'
        BY <2>1 DEF SoftInv, EcdsaCommitments, EcdsaBlame
      <3>2. /\ DOMAIN bobRound' = Honest /\ DOMAIN signed' = Honest /\ DOMAIN committed' = Quorum
            /\ \A other \in Honest : \A q \in Quorum \ {other} : bobRound'[other][q] \in Nat
        BY <2>1 DEF SoftInv, EcdsaTypes
      <3> QED
        BY <2>4, <2>5, <3>1, <3>2 DEF EcdsaTypes
    <2>7. SoftAt(p)' /\ \A other \in Honest \ {p} : Untouched(other)
      BY <1>1, <1>2, <2>1, <2>4, <2>5 DEF SoftAt, Untouched
    <2>8. \A q \in Honest : round[q] >= 4 /\ round'[q] >= 4
      <3>1. \A q \in Honest \ {p} : round[q] >= 4
        BY <1>1 DEF SoftInv, SoftInStep, Honest
      <3> QED
        BY <1>1, <2>5, <3>1
    <2>9. Honest \ {p} # {} => skewed = {}
      <3>1. \A q \in Honest \ {p} : {p, q} \cap skewed = {}
        BY <2>1 DEF Softspoken!Stops4, Softspoken!Honest, Honest
      <3>2. skewed \subseteq Honest
        BY DEF SoftInv, SoftInStep
      <3> QED
        BY <3>1, <3>2
    <2>10. SoftInStep'
      <3>1. \A q \in Honest : round'[q] >= 5 => (Honest \ {q} # {} => skewed = {})
        BY <2>5, <2>9 DEF SoftInv, SoftInStep
      <3>2. skewed \subseteq Honest
        BY DEF SoftInv, SoftInStep
      <3> QED
        BY <1>1, <2>8, <3>1, <3>2 DEF SoftInStep
    <2> QED
      BY <2>1, <2>6, <2>7, <2>10, SoftFrame
  <1> QED
    BY <1>4, <1>5, <1>6, <1>7

LEMMA SoftRound5 ==
    ASSUME SoftInv, NEW p \in Honest, NEW message, Softspoken!Round5(p, message)
    PROVE  /\ SoftInv'
           /\ \/ signed' = signed
              \/ /\ \A other \in Honest \ {p} : signed'[other] = signed[other]
                 /\ \A q \in Quorum \ {p} : aliceRound[p][q] = 4 /\ bobRound[p][q] = 3
                 /\ Honest \ {p} # {} => skewed = {}
  <1>1. round[p] = 5 /\ skewed' = skewed
    BY DEF Softspoken!Round5, Softspoken!otVars
  <1>2. /\ EcdsaCommitments /\ DOMAIN bobRound = Honest /\ round \in [Honest -> Nat] /\ SoftAt(p)
        /\ \A q \in Quorum \ {p} : bobRound[p][q] \in Nat
    BY DEF SoftInv, EcdsaTypes
  <1>3. \E found \in Softspoken!Handed(p, {"malformed broadcast", "refuted", "cheated", "inconsistent"}) :
           \/ Softspoken!Reject(p, found) \/ Softspoken!Round5Fails(p, found)
           \/ Softspoken!Round5Returns(p, found, message)
    BY DEF Softspoken!Round5
  <1>4. PICK found :
           /\ DOMAIN found = Quorum \ {p}
           /\ \A q \in (Quorum \ {p}) \ Corrupt : found[q] = "right"
           /\ \/ Softspoken!Reject(p, found) \/ Softspoken!Round5Fails(p, found)
              \/ Softspoken!Round5Returns(p, found, message)
    BY <1>2, <1>3, HonestFoundRight
  <1>5. CASE Softspoken!Reject(p, found)
    BY <1>1, <1>4, <1>5, SoftReject
  <1>6. CASE Softspoken!Round5Fails(p, found)
    <2> DEFINE stop == Softspoken!First(Softspoken!Stops5(p, found))
    <2>1. /\ round' = round /\ committed' = committed /\ aliceRound' = aliceRound
          /\ signed' = signed /\ Softspoken!Stops5(p, found) # {}
          /\ \E ids : bobRound' = Softspoken!Advance(bobRound, p, ids)
          /\ \/ blamed' = blamed
             \/ /\ found[stop] = "refuted" \/ bobRound[p][stop] = 3
                /\ blamed' = blamed \cup {<<p, stop>>}
      BY <1>6 DEF Softspoken!Round5Fails
    <2>2. /\ stop \in Quorum \ {p}
          /\ found[stop] = "refuted" \/ bobRound[p][stop] = 3 => found[stop] # "right"
      <3>1. /\ Softspoken!Stops5(p, found) \in SUBSET (Quorum \ {p})
            /\ \A q \in Softspoken!Stops5(p, found) : bobRound[p][q] = 3 => found[q] # "right"
        BY <1>4 DEF Softspoken!Stops5, Softspoken!With, Softspoken!Others
      <3>2. stop \in Softspoken!Stops5(p, found)
        BY <2>1, <3>1, FirstIsMember DEF Softspoken!First
      <3> HIDE DEF stop
      <3> QED
        BY <3>1, <3>2
    <2> HIDE DEF stop
    <2>3. EcdsaBlame'
      BY <1>4, <2>1, <2>2 DEF SoftInv, EcdsaBlame
    <2>4. \E ids : Advances(bobRound', bobRound, p, ids)
      BY <1>2, <2>1, Advanced
    <2>5. /\ DOMAIN bobRound' = Honest /\ \A other \in Honest \ {p} : bobRound'[other] = bobRound[other]
          /\ \A q \in Quorum \ {p} : bobRound'[p][q] \in Nat
      BY <1>2, <2>4 DEF Advances
    <2>6. EcdsaTypes' /\ EcdsaCommitments'
      BY <2>1, <2>5 DEF SoftInv, EcdsaTypes, EcdsaCommitments
    <2>7. SoftAt(p)' /\ \A other \in Honest \ {p} : Untouched(other)
      BY <1>1, <1>2, <2>1, <2>5 DEF SoftAt, Untouched
    <2>8. SoftInStep'
      BY <1>1, <2>1 DEF SoftInv, SoftInStep
    <2> QED
      BY <2>1, <2>3, <2>6, <2>7, <2>8, SoftFrame
  <1>7. CASE Softspoken!Round5Returns(p, found, message)
    <2>1. /\ committed' = committed /\ aliceRound' = aliceRound /\ blamed' = blamed
          /\ bobRound' = Softspoken!Advance(bobRound, p, Quorum \ {p})
          /\ \/ signed' = [signed EXCEPT ![p] = @ \cup {message}] /\ round' = [round EXCEPT ![p] = @ + 1]
             \/ signed' = signed /\ round' = round
      BY <1>7 DEF Softspoken!Round5Returns, Softspoken!NextRound, Softspoken!Others
    <2>2. \A q \in Quorum \ {p} : bobRound[p][q] = 3
      BY <1>7 DEF Softspoken!Round5Returns, Softspoken!Stops5, Softspoken!Others
    <2>3. Advances(bobRound', bobRound, p, Quorum \ {p})
      BY <1>2, <2>1, Advanced
    <2>4. /\ DOMAIN bobRound' = Honest /\ \A other \in Honest \ {p} : bobRound'[other] = bobRound[other]
          /\ \A q \in Quorum \ {p} : bobRound'[p][q] \in Nat
      BY <1>2, <2>3 DEF Advances
    <2>5. DOMAIN signed = Honest /\ signed[p] = {}
      BY <1>1, <1>2 DEF SoftInv, EcdsaTypes, SoftAt
    <2>6. /\ DOMAIN signed' = Honest
          /\ \A other \in Honest \ {p} : signed'[other] = signed[other] /\ round'[other] = round[other]
          /\ \/ signed'[p] = {message} /\ round'[p] = 6
             \/ signed'[p] = {} /\ round'[p] = 5
          /\ round' \in [Honest -> Nat]
      BY <1>1, <1>2, <2>1, <2>5
    <2>7. EcdsaTypes' /\ EcdsaCommitments' /\ EcdsaBlame'
      <3>1. EcdsaCommitments' /\ EcdsaBlame'
        BY <2>1 DEF SoftInv, EcdsaCommitments, EcdsaBlame
      <3>2. DOMAIN aliceRound' = Honest /\ DOMAIN committed' = Quorum
        BY <2>1 DEF SoftInv, EcdsaTypes
      <3>3. \A other \in Honest : \A q \in Quorum \ {other} : bobRound[other][q] \in Nat
        BY DEF SoftInv, EcdsaTypes
      <3>4. \A other \in Honest : \A q \in Quorum \ {other} : bobRound'[other][q] \in Nat
        BY <2>4, <3>3
      <3> QED
        BY <2>4, <2>6, <3>1, <3>2, <3>4 DEF EcdsaTypes
    <2>8. \A other \in Honest \ {p} : Untouched(other)
      BY <2>1, <2>4, <2>6 DEF Untouched
    <2>9. \A q \in Quorum \ {p} : aliceRound[p][q] = 4
      BY <1>1, <1>2 DEF SoftAt
    <2>10. SoftAt(p)'
      BY <2>1, <2>6, <2>9 DEF SoftAt
    <2>11. Honest \ {p} # {} => skewed = {}
      BY <1>1 DEF SoftInv, SoftInStep
    <2>12. SoftInStep'
      <3>1. \A q \in Honest : /\ round[q] >= 4 => round'[q] >= 4
                              /\ round'[q] >= 5 => round[q] >= 5
        BY <1>1, <2>6
      <3> QED
        BY <1>1, <2>1, <3>1 DEF SoftInv, SoftInStep
    <2> QED
      BY <2>2, <2>6, <2>7, <2>8, <2>9, <2>10, <2>11, <2>12, SoftFrame
  <1> QED
    BY <1>4, <1>5, <1>6, <1>7

LEMMA SoftStep ==
    ASSUME SoftInv, [Softspoken!Next]_(Softspoken!vars)
    PROVE  /\ SoftInv'
           /\ \A p \in Honest : Bbot!Halfway(p) \/ Softspoken!OutOfStep => signed'[p] = signed[p]
  <1>1. CASE \E p \in Honest : \/ Softspoken!Round1(p) \/ Softspoken!Round2(p) \/ Softspoken!Round3(p)
                               \/ Softspoken!Round4(p)
    BY <1>1, SoftEarly, SoftRound4
  <1>2. CASE \E p \in Honest : \E message : Softspoken!Round5(p, message)
    <2>1. PICK p \in Honest : \E message : Softspoken!Round5(p, message)
      BY <1>2
    <2>2. /\ SoftInv'
          /\ \/ signed' = signed
             \/ /\ \A other \in Honest \ {p} : signed'[other] = signed[other]
                /\ \A q \in Quorum \ {p} : aliceRound[p][q] = 4 /\ bobRound[p][q] = 3
                /\ Honest \ {p} # {} => skewed = {}
      BY <2>1, SoftRound5
    <2>3. CASE signed' = signed
      BY <2>2, <2>3
    <2>4. CASE /\ \A other \in Honest \ {p} : signed'[other] = signed[other]
               /\ \A q \in Quorum \ {p} : aliceRound[p][q] = 4 /\ bobRound[p][q] = 3
               /\ Honest \ {p} # {} => skewed = {}
      <3>1. ~Bbot!Halfway(p)
        BY <2>4 DEF Bbot!Halfway, Bbot!Others
      <3>2. ~Softspoken!OutOfStep
        <4>1. CASE Honest \ {p} # {}
          BY <2>4, <4>1 DEF Softspoken!OutOfStep
        <4>2. CASE Honest \ {p} = {}
          <5>1. Honest = {p}
            BY <2>1, <4>2
          <5>2. Cardinality(Honest) = 1
            BY <5>1, FS_Singleton
          <5>3. Softspoken!Honest = Honest
            BY DEF Softspoken!Honest, Honest
          <5> QED
            BY <5>2, <5>3, SameCardinality DEF Softspoken!OutOfStep
        <4> QED
          BY <4>1, <4>2
      <3> QED
        BY <2>2, <2>4, <3>1, <3>2
    <2> QED
      BY <2>2, <2>3, <2>4
  <1>3. CASE \/ \E c \in Corrupt, digest \in {"empty", "sealed"} :
                   Softspoken!CorruptCommit(c, digest) /\ UNCHANGED Softspoken!otVars
             \/ \E c \in Corrupt, shift \in Softspoken!Scalars :
                   Softspoken!CorruptKeyPart(c, shift) /\ UNCHANGED Softspoken!otVars
             \/ UNCHANGED Softspoken!vars
    <2>1. /\ round' = round /\ aliceRound' = aliceRound /\ bobRound' = bobRound
          /\ signed' = signed /\ blamed' = blamed /\ skewed' = skewed
          /\ \/ committed' = committed
             \/ \E c \in Corrupt : \E digest : committed' = [committed EXCEPT ![c] = digest]
      BY <1>3 DEF Softspoken!CorruptCommit, Softspoken!CorruptKeyPart, Softspoken!vars,
                  Softspoken!cosignerVars, Softspoken!otVars
    <2>2. EcdsaTypes' /\ EcdsaBlame'
      BY <2>1 DEF SoftInv, EcdsaTypes, EcdsaBlame
    <2>3. \A p \in Honest : committed'[p] = committed[p]
      BY <2>1 DEF SoftInv, EcdsaTypes, Honest
    <2>4. EcdsaCommitments' /\ SoftInStep'
      BY <2>1, <2>3 DEF SoftInv, EcdsaCommitments, SoftInStep
    <2>5. \A p \in Honest : SoftAt(p)'
      BY <2>1 DEF SoftInv, SoftAt
    <2> QED
      BY <2>1, <2>2, <2>4, <2>5 DEF SoftInv
  <1>4. CASE Softspoken!Next
    <2>1. Softspoken!Honest = Honest
      BY DEF Softspoken!Honest, Honest
    <2> QED
      BY <1>1, <1>2, <1>3, <1>4, <2>1 DEF Softspoken!Next
  <1> QED
    BY <1>3, <1>4


-----------------------------------------------------------------------------
LEMMA BbotHolds == Spec => [](protocol = "bbot" => BbotInv)
  <1>1. Init => (protocol = "bbot" => BbotInv)
    <2> SUFFICES ASSUME Bbot!Init PROVE BbotInv
      BY DEF Init
    <2>1. /\ round = [p \in Honest |-> 1] /\ committed = [q \in Quorum |-> "none"]
          /\ aliceRound = [p \in Honest |-> [q \in Quorum \ {p} |-> 1]]
          /\ bobRound = [p \in Honest |-> [q \in Quorum \ {p} |-> 2]]
          /\ signed = [p \in Honest |-> {}] /\ blamed = {}
      BY DEF Bbot!Init, Bbot!CosignerInit, Bbot!Honest, Honest, Bbot!Others
    <2>2. EcdsaTypes
      BY <2>1 DEF EcdsaTypes
    <2>3. EcdsaCommitments /\ EcdsaBlame
      BY <2>1 DEF EcdsaCommitments, EcdsaBlame, Honest
    <2>4. \A p \in Honest : BbotAt(p)
      BY <2>1 DEF BbotAt
    <2> QED
      BY <2>2, <2>3, <2>4 DEF BbotInv
  <1>2. protocol = "bbot" /\ [Next]_vars => protocol' = "bbot" /\ [Bbot!Next]_(Bbot!vars)
    BY DEF Next, vars, ecdsaOnly, Bbot!vars, Bbot!cosignerVars
  <1>3. protocol' = "bbot" /\ [Next]_vars => protocol = "bbot"
    BY DEF Next, vars
  <1>4. (protocol = "bbot" => BbotInv) /\ [Next]_vars => (protocol = "bbot" => BbotInv)'
    BY <1>2, <1>3, BbotStep
  <1> QED
    BY <1>1, <1>4, PTL DEF Spec

LEMMA SoftHolds == Spec => [](protocol = "softspoken" => SoftInv)
  <1>1. Init => (protocol = "softspoken" => SoftInv)
    <2> SUFFICES ASSUME Softspoken!Init PROVE SoftInv
      BY DEF Init
    <2>1. /\ round = [p \in Honest |-> 1] /\ committed = [q \in Quorum |-> "none"]
          /\ aliceRound = [p \in Honest |-> [q \in Quorum \ {p} |-> 2]]
          /\ bobRound = [p \in Honest |-> [q \in Quorum \ {p} |-> 1]]
          /\ signed = [p \in Honest |-> {}] /\ blamed = {} /\ skewed = {}
      BY DEF Softspoken!Init, Softspoken!CosignerInit, Softspoken!Honest, Honest, Softspoken!Others
    <2>2. EcdsaTypes
      BY <2>1 DEF EcdsaTypes
    <2>3. EcdsaCommitments /\ EcdsaBlame
      BY <2>1 DEF EcdsaCommitments, EcdsaBlame, Honest
    <2>4. (\A p \in Honest : SoftAt(p)) /\ SoftInStep
      BY <2>1 DEF SoftAt, SoftInStep, Honest
    <2> QED
      BY <2>2, <2>3, <2>4 DEF SoftInv
  <1>2. protocol = "softspoken" /\ [Next]_vars =>
           protocol' = "softspoken" /\ [Softspoken!Next]_(Softspoken!vars)
    BY DEF Next, vars, ecdsaOnly, Softspoken!vars, Softspoken!cosignerVars, Softspoken!otVars
  <1>3. protocol' = "softspoken" /\ [Next]_vars => protocol = "softspoken"
    BY DEF Next, vars
  <1>4. (protocol = "softspoken" => SoftInv) /\ [Next]_vars =>
           (protocol = "softspoken" => SoftInv)'
    BY <1>2, <1>3, SoftStep
  <1> QED
    BY <1>1, <1>4, PTL DEF Spec

\* A DKLS23 nonce signs one message at most: the last round can be called again,
\* but Bob's sides of the multiplications, or the round number, have moved on.
THEOREM NonceSignsOnceHolds == Spec => []NonceSignsOnce
  <1>1. ASSUME \A p \in Honest : signed[p] # {} => \E message : signed[p] = {message}
        PROVE  Bbot!NonceSignsOnce
    <2> SUFFICES ASSUME NEW p \in Honest PROVE Bbot!Cardinality(signed[p]) <= 1
      BY DEF Bbot!NonceSignsOnce, Bbot!Honest, Honest
    <2>1. CASE signed[p] = {}
      <3>1. Cardinality(signed[p]) = 0
        BY <2>1, FS_EmptySet
      <3> QED
        BY <3>1, SameCardinality
    <2>2. CASE signed[p] # {}
      <3>1. PICK message : signed[p] = {message}
        BY <1>1, <2>2
      <3>2. Cardinality(signed[p]) = 1
        BY <3>1, FS_Singleton
      <3> QED
        BY <3>2, SameCardinality
    <2> QED
      BY <2>1, <2>2
  <1>2. BbotInv => Bbot!NonceSignsOnce
    BY <1>1 DEF BbotInv, BbotAt
  <1>3. SoftInv => Bbot!NonceSignsOnce
    BY <1>1 DEF SoftInv, SoftAt
  <1>4. (protocol = "bbot" => BbotInv) /\ (protocol = "softspoken" => SoftInv) => NonceSignsOnce
    BY <1>2, <1>3 DEF NonceSignsOnce, IsEcdsa
  <1> QED
    BY <1>4, BbotHolds, SoftHolds, PTL

\* A DKLS23 cosigner whose multiplications are in different rounds, since a call
\* failed half-way, signs nothing; neither does any cosigner once one of two
\* honest ones has repeated Round3 of signing_softspoken.
THEOREM FailureIsFinalHolds == Spec => FailureIsFinal
  <1> DEFINE Final == IsEcdsa => \A p \in Honest :
                         Bbot!Halfway(p) \/ (protocol = "softspoken" /\ Softspoken!OutOfStep)
                             => signed'[p] = signed[p]
  <1>1. BbotInv /\ protocol = "bbot" /\ [Next]_vars => Final
    <2>1. protocol = "bbot" /\ [Next]_vars => [Bbot!Next]_(Bbot!vars)
      BY DEF Next, vars, ecdsaOnly, Bbot!vars, Bbot!cosignerVars
    <2> QED
      BY <2>1, BbotStep
  <1>2. SoftInv /\ protocol = "softspoken" /\ [Next]_vars => Final
    <2>1. protocol = "softspoken" /\ [Next]_vars => [Softspoken!Next]_(Softspoken!vars)
      BY DEF Next, vars, ecdsaOnly, Softspoken!vars, Softspoken!cosignerVars, Softspoken!otVars
    <2> QED
      BY <2>1, SoftStep
  <1>3. (protocol = "bbot" => BbotInv) /\ (protocol = "softspoken" => SoftInv) /\ [Next]_vars
           => [Final]_vars
    <2>1. IsEcdsa => protocol = "bbot" \/ protocol = "softspoken"
      BY DEF IsEcdsa
    <2>2. CASE IsEcdsa
      <3> HIDE DEF Final
      <3> QED
        BY <1>1, <1>2, <2>1, <2>2
    <2>3. CASE ~IsEcdsa
      BY <2>3
    <2> QED
      BY <2>2, <2>3
  <1> QED
    BY <1>3, BbotHolds, SoftHolds, PTL DEF Spec, FailureIsFinal

\* The rounds of Lindell22 and of DKLS23 name corrupt parties only, whatever
\* calls failed before, and Lindell22's fail without naming one only when a share
\* of the key vanished.  An aggregator of Lindell22 names an honest party only if
\* it cosigns, the scheme corrects parities, and one of the two repeated Round3.
THEOREM SignersBlamedJustlyHolds == Spec => []SignersBlamedJustly
  <1>1. SigningInv => Signing!BlameIsJust
    <2> SUFFICES ASSUME SigningInv PROVE Signing!BlameIsJust
      OBVIOUS
    <2>1. \A o \in Signing!Outcomes : \A q \in o.is.parties \ Corrupt :
             /\ o.by # None /\ scheme.variant # "schnorr"
             /\ calls[q][3] > 1 \/ calls[o.by][3] > 1
      <3> SUFFICES ASSUME NEW a \in Signing!Aggregators, NEW sigs \in Signing!PartialSignatures,
                          NEW q \in Signing!Aggregate(a, sigs).parties \ Corrupt
                   PROVE  /\ a # None /\ scheme.variant # "schnorr"
                          /\ calls[q][3] > 1 \/ calls[a][3] > 1
        BY DEF Signing!Outcomes
      <3> QED
        BY AggregatorIsJust
    <2> QED
      BY <2>1 DEF SigningInv, SigningBlame, SigningStuck, Signing!BlameIsJust
  <1>2. (BbotInv => Bbot!BlameIsJust) /\ (SoftInv => Bbot!BlameIsJust)
    BY DEF BbotInv, SoftInv, EcdsaBlame, Bbot!BlameIsJust
  <1>3. (protocol = "lindell22" => SigningInv) /\ (protocol = "bbot" => BbotInv)
        /\ (protocol = "softspoken" => SoftInv) => SignersBlamedJustly
    BY <1>1, <1>2 DEF SignersBlamedJustly, IsEcdsa
  <1> QED
    BY <1>3, SigningHolds, BbotHolds, SoftHolds, PTL

=============================================================================
