-------------------------- MODULE SessionSetup_proofs --------------------------
(***************************************************************************)
(* Session setup for every quorum and every set of corrupt parties: only   *)
(* parties that deviate are named, the contributions of a pair of honest   *)
(* parties are committed to before they are opened, and, with at most one  *)
(* corrupt party, no two pairwise seeds are the same.                      *)
(*                                                                         *)
(* The argument.  What an honest party has sent is a function of its round *)
(* and of the keys of round 1, which never change once delivered (Sent).   *)
(* What it stores of an honest party is what that party sent, and what it  *)
(* stores of a corrupt one is a commitment of that party's own or one an   *)
(* honest party made before, under the key of the party it was made for    *)
(* (Stored).  So a contribution passed on opens for its new recipient only *)
(* if the two have the same key.                                           *)
(***************************************************************************)
EXTENDS SessionContexts, WellFoundedInduction, FiniteSetTheorems, SequenceTheorems, TLAPS

HonestOpening(value) == Opening(value, HonestWitness(value))
HonestCommit(key, value) == Commit(key, value, HonestWitness(value))
HonestBroadcast(p) == [ck |-> Key(p), commitment |-> HonestCommit(CommonKey, CommonValue(p))]

Shape ==
    /\ round \in [Honest -> 1 .. 5]
    /\ DOMAIN b1 = Quorum /\ DOMAIN b2 = Honest /\ DOMAIN context = Honest
    /\ DOMAIN u2 = Honest /\ DOMAIN u3 = Honest
    /\ DOMAIN keys = Honest /\ DOMAIN commonComs = Honest
    /\ DOMAIN commons = Honest /\ DOMAIN pairComs = Honest
    /\ \A p \in Honest : DOMAIN keys[p] = Quorum /\ DOMAIN commons[p] = Quorum

\* What an honest party has sent so far.
Sent(p) ==
    /\ b1[p] = IF round[p] < 2 THEN None ELSE HonestBroadcast(p)
    /\ b2[p] = IF round[p] < 3 THEN None ELSE HonestOpening(CommonValue(p))
    /\ \A q \in Others(p) :
          /\ u2[p][q] = IF round[p] < 3 THEN None ELSE HonestCommit(b1[q].ck, PairValue(p, q))
          /\ u3[p][q] = IF round[p] < 4 THEN None ELSE HonestOpening(PairValue(p, q))

\* A commitment a corrupt party may have given to p.
Offered(p, com) ==
    \/ com \in CommitmentsUnder(Key(p))
    \/ \E q \in Honest : com = HonestCommit(CommonKey, CommonValue(q))
    \/ \E q \in Honest, c \in Corrupt :
          b1[c] # None /\ com = HonestCommit(b1[c].ck, PairValue(q, c))

\* What an honest party has stored.
Stored(p) ==
    /\ round[p] >= 2 => keys[p][p] = Key(p) /\ commons[p][p] = HonestOpening(CommonValue(p))
    /\ round[p] >= 3 => \A q \in Quorum :
          b1[q] # None /\ keys[p][q] = b1[q].ck /\ commonComs[p][q] = b1[q].commitment
    /\ round[p] >= 4 =>
          /\ \A q \in Honest \ {p} : /\ round[q] >= 3
                                     /\ pairComs[p][q] = HonestCommit(Key(p), PairValue(q, p))
          /\ \A c \in Corrupt : Offered(p, pairComs[p][c])

\* The seed p has with i comes from a contribution that p opened.
SeedFrom(p, i, o) ==
    /\ pairComs[p][i] = Commit(Key(p), o.value, o.witness)
    /\ context[p].seeds[i].seed = PairSeed(p, i, o.value)

Done(p) == round[p] = 5 => \A i \in Others(p) : \E o \in AllOpenings : SeedFrom(p, i, o)

IInv ==
    /\ Shape
    /\ \A p \in Honest : Sent(p) /\ Stored(p) /\ Done(p)
    /\ BlameIsJust

-----------------------------------------------------------------------------
LEMMA TokenFacts ==
    ASSUME NEW p, NEW q, NEW r, NEW s
    PROVE  /\ PairValue(p, q) = PairValue(r, s) => p = r /\ q = s
           /\ PairValue(p, q) # CommonValue(r)
           /\ Key(p) = Key(q) => p = q
           /\ Key(p) # CommonKey
  BY DEF PairValue, CommonValue, Key, CommonKey

LEMMA OpeningFacts ==
    ASSUME NEW v
    PROVE  HonestOpening(v).value = v /\ HonestOpening(v).witness = HonestWitness(v)
  BY DEF HonestOpening, Opening

LEMMA BroadcastFacts ==
    ASSUME NEW p
    PROVE  /\ HonestBroadcast(p).ck = Key(p)
           /\ HonestBroadcast(p).commitment = HonestCommit(CommonKey, CommonValue(p))
  BY DEF HonestBroadcast

\* Nothing an honest party sends is taken for a missing or a malformed message.
LEMMA HonestPasses ==
    ASSUME NEW p \in Quorum, NEW q \in Quorum
    PROVE  /\ HonestBroadcast(p) \notin {None, Malformed}
           /\ HonestOpening(CommonValue(p)) \notin {None, Malformed}
           /\ HonestOpening(PairValue(p, q)) \notin {None, Malformed}
           /\ HonestOpening(CommonValue(p)) \in AllOpenings
           /\ HonestOpening(PairValue(p, q)) \in AllOpenings
           /\ HonestCommit(Key(q), PairValue(p, q)) \notin {None, Malformed, Unopenable}
  <1>1. CommonValue(p) \in Tokens /\ PairValue(p, q) \in Tokens
    BY DEF Tokens
  <1>2. HonestOpening(CommonValue(p)) \in AllOpenings /\ HonestOpening(PairValue(p, q)) \in AllOpenings
    BY <1>1 DEF AllOpenings, HonestOpening
  <1>3. Key(p) \in AllKeys /\ Key(q) \in AllKeys
    BY DEF AllKeys
  <1>4. [ck |-> Key(p), commitment |-> HonestCommit(CommonKey, CommonValue(p))] \notin {None, Malformed}
    BY <1>2, <1>3, SamplingAssumption, OpeningFacts DEF HonestCommit
  <1>5. HonestCommit(Key(q), PairValue(p, q)) \notin {None, Malformed, Unopenable}
    BY <1>2, <1>3, SamplingAssumption, OpeningFacts DEF HonestCommit
  <1> QED
    BY <1>2, <1>4, <1>5, SamplingAssumption DEF HonestBroadcast

\* The loops stop at a member of the set they look for, if there is one.
LEMMA FirstIsMember ==
    ASSUME NEW S \in SUBSET Quorum, S # {}
    PROVE  First(S) \in S
  <1> DEFINE less == {pair \in Nat \X Nat : pair[1] < pair[2]}
  <1>1. IsWellFoundedOn(less, Nat)
    BY NatLessThanWellFounded DEF OpToRel
  <1>2. S \subseteq Nat
    BY SessionAssumption
  <1>3. \E q \in S : \A id \in S : <<id, q>> \notin less
    <2> HIDE DEF less
    <2> QED
      BY <1>1, <1>2, WFMin
  <1>4. PICK q \in S : \A id \in S : <<id, q>> \notin less
    BY <1>3
  <1>5. ASSUME NEW id \in S PROVE q <= id
    <2>1. <<id, q>> \in Nat \X Nat /\ <<id, q>> \notin less
      BY <1>2, <1>4
    <2>2. ~(id < q)
      BY <2>1
    <2> QED
      BY <1>2, <2>2
  <1> QED
    BY <1>5 DEF First

-----------------------------------------------------------------------------
\* Broadcasts of round 1 stay, and rounds only go up.
Grows ==
    /\ \A q \in Quorum : b1[q] # None => b1'[q] = b1[q]
    /\ \A q \in Honest : round'[q] >= round[q]

\* What a step leaves of the state of an honest party other than round numbers.
SameParty(r) ==
    /\ round'[r] = round[r] /\ b1'[r] = b1[r] /\ b2'[r] = b2[r] /\ u2'[r] = u2[r]
    /\ u3'[r] = u3[r] /\ keys'[r] = keys[r] /\ commonComs'[r] = commonComs[r]
    /\ commons'[r] = commons[r] /\ pairComs'[r] = pairComs[r] /\ context'[r] = context[r]

\* A party that does nothing keeps its part of the invariant.
LEMMA Bystander ==
    ASSUME IInv, Grows, Shape', NEW r \in Honest, SameParty(r)
    PROVE  Sent(r)' /\ Stored(r)' /\ Done(r)'
  <1>0. Shape /\ Sent(r) /\ Stored(r) /\ Done(r) /\ r \in Quorum /\ Corrupt \subseteq Quorum
    BY SessionAssumption DEF IInv, Honest
  <1>1. round[r] \in 1 .. 5
    BY <1>0 DEF Shape
  <1>2. \A q \in Quorum : round[r] >= 3 => b1[q] # None /\ b1'[q] = b1[q]
    BY <1>0 DEF Stored, Grows
  <1>3. Sent(r)'
    BY <1>0, <1>1, <1>2 DEF Sent, SameParty, Others
  <1>4. Stored(r)'
    <2>1. round'[r] >= 2 => keys'[r][r] = Key(r) /\ commons'[r][r] = HonestOpening(CommonValue(r))
      BY <1>0 DEF Stored, SameParty
    <2>2. round'[r] >= 3 => \A q \in Quorum :
             b1'[q] # None /\ keys'[r][q] = b1'[q].ck /\ commonComs'[r][q] = b1'[q].commitment
      BY <1>0, <1>2 DEF Stored, SameParty
    <2>3. ASSUME round'[r] >= 4, NEW q \in Honest \ {r}
          PROVE  round'[q] >= 3 /\ pairComs'[r][q] = HonestCommit(Key(r), PairValue(q, r))
      <3>1. round[q] >= 3 /\ pairComs[r][q] = HonestCommit(Key(r), PairValue(q, r))
        BY <1>0, <2>3 DEF Stored, SameParty
      <3>2. round'[q] >= round[q] /\ round[q] \in Nat /\ round'[q] \in Nat
        BY <1>0 DEF Grows, Shape
      <3> QED
        BY <3>1, <3>2 DEF SameParty
    <2>4. ASSUME round'[r] >= 4, NEW c \in Corrupt
          PROVE  Offered(r, pairComs[r][c])'
      <3>1. Offered(r, pairComs[r][c])
        BY <1>0, <2>4 DEF Stored, SameParty
      <3>2. pairComs'[r][c] = pairComs[r][c]
        BY DEF SameParty
      <3> QED
        BY <1>0, <3>1, <3>2 DEF Grows, Offered
    <2> QED
      BY <2>1, <2>2, <2>3, <2>4 DEF Stored
  <1>5. Done(r)'
    <2>1. \A i, v : PairSeed(r, i, v)' = PairSeed(r, i, v)
      BY DEF PairSeed, CommonSeed, SameParty
    <2> QED
      BY <1>0, <2>1 DEF Done, SeedFrom, SameParty
  <1> QED
    BY <1>3, <1>4, <1>5

LEMMA InitIInv == Init => IInv
  <1> SUFFICES ASSUME Init PROVE IInv
    OBVIOUS
  <1>1. Shape
    BY DEF Init, Shape, PerPeer
  <1>2. ASSUME NEW p \in Honest PROVE Sent(p) /\ Stored(p) /\ Done(p)
    <2>1. round[p] = 1 /\ p \in Quorum
      BY DEF Init, Honest
    <2>2. Sent(p)
      BY <2>1 DEF Init, Sent, PerPeer, Others
    <2> QED
      BY <2>1, <2>2 DEF Stored, Done
  <1> QED
    BY <1>1, <1>2 DEF Init, IInv, BlameIsJust

LEMMA Round1Step ==
    ASSUME IInv, NEW p \in Honest, Round1(p)
    PROVE  IInv'
  <1>0. Shape /\ Sent(p) /\ p \in Quorum
    BY DEF IInv, Honest
  <1>1. /\ round[p] = 1
        /\ keys' = [keys EXCEPT ![p][p] = Key(p)]
        /\ commonComs' = [commonComs EXCEPT ![p][p] = HonestCommit(CommonKey, CommonValue(p))]
        /\ commons' = [commons EXCEPT ![p][p] = HonestOpening(CommonValue(p))]
        /\ b1' = [b1 EXCEPT ![p] = HonestBroadcast(p)]
        /\ round' = [round EXCEPT ![p] = @ + 1]
        /\ UNCHANGED <<b2, u2, u3, pairComs, context, blamed>>
    BY DEF Round1, Advance, HonestCommit, HonestOpening, HonestBroadcast
  <1>2. Shape'
    <2>1. round' \in [Honest -> 1 .. 5]
      BY <1>0, <1>1 DEF Shape
    <2>2. \A r \in Honest : DOMAIN keys'[r] = Quorum /\ DOMAIN commons'[r] = Quorum
      BY <1>0, <1>1 DEF Shape
    <2> QED
      BY <1>0, <1>1, <2>1, <2>2 DEF Shape
  <1>3. /\ round'[p] = 2 /\ b1'[p] = HonestBroadcast(p)
        /\ keys'[p][p] = Key(p) /\ commons'[p][p] = HonestOpening(CommonValue(p))
    BY <1>0, <1>1 DEF Shape
  <1>4. \A r \in Honest \ {p} : SameParty(r)
    BY <1>0, <1>1 DEF Shape, SameParty, Honest
  <1>5. Grows
    <2>1. \A q \in Quorum \ {p} : b1'[q] = b1[q]
      BY <1>0, <1>1 DEF Shape
    <2>2. b1[p] = None
      BY <1>0, <1>1 DEF Sent
    <2>3. \A q \in Honest : round'[q] >= round[q]
      BY <1>0, <1>1 DEF Shape
    <2> QED
      BY <2>1, <2>2, <2>3 DEF Grows
  <1>6. Sent(p)' /\ Stored(p)' /\ Done(p)'
    <2>1. Sent(p)'
      BY <1>0, <1>1, <1>3 DEF Sent
    <2>2. Stored(p)' /\ Done(p)'
      BY <1>3 DEF Stored, Done
    <2> QED
      BY <2>1, <2>2
  <1>7. BlameIsJust'
    BY <1>1 DEF IInv, BlameIsJust
  <1> QED
    BY <1>2, <1>4, <1>5, <1>6, <1>7, Bystander DEF IInv

LEMMA CorruptStep ==
    ASSUME IInv, NEW c \in Corrupt, CorruptRound1(c)
    PROVE  IInv'
  <1>0. Shape /\ c \in Quorum
    BY SessionAssumption DEF IInv
  <1>1. PICK msg : b1' = [b1 EXCEPT ![c] = msg]
    BY DEF CorruptRound1
  <1>2. b1[c] = None /\ UNCHANGED <<round, b2, u2, u3, keys, commonComs, commons, pairComs, context, blamed>>
    BY DEF CorruptRound1, store
  <1>3. Shape'
    BY <1>0, <1>1, <1>2 DEF Shape
  <1>4. \A q \in Quorum \ {c} : b1'[q] = b1[q]
    BY <1>0, <1>1 DEF Shape
  <1>5. \A r \in Honest : SameParty(r)
    BY <1>2, <1>4 DEF SameParty, Honest
  <1>6. Grows
    BY <1>0, <1>2, <1>4 DEF Grows, Shape
  <1>7. BlameIsJust'
    BY <1>2 DEF IInv, BlameIsJust
  <1> QED
    BY <1>3, <1>5, <1>6, <1>7, Bystander DEF IInv

LEMMA Round2Step ==
    ASSUME IInv, NEW p \in Honest, Round2(p)
    PROVE  IInv'
  <1>0. Shape /\ Sent(p) /\ Stored(p) /\ p \in Quorum
    BY DEF IInv, Honest
  <1>1. /\ round[p] = 2
        /\ \A q \in Others(p) : b1[q] \notin {None, Malformed}
        /\ keys' = [keys EXCEPT ![p] = [q \in Quorum |-> b1[q].ck]]
        /\ commonComs' = [commonComs EXCEPT ![p] = [q \in Quorum |-> b1[q].commitment]]
        /\ b2' = [b2 EXCEPT ![p] = commons[p][p]]
        /\ u2' = [u2 EXCEPT ![p] = [q \in Quorum |->
                     IF q = p THEN None ELSE HonestCommit(b1[q].ck, PairValue(p, q))]]
        /\ round' = [round EXCEPT ![p] = @ + 1]
        /\ UNCHANGED <<b1, u3, commons, pairComs, context, blamed>>
    BY DEF Round2, Advance, HonestCommit
  <1>2. Shape'
    <2>1. round' \in [Honest -> 1 .. 5]
      BY <1>0, <1>1 DEF Shape
    <2>2. \A r \in Honest : DOMAIN keys'[r] = Quorum /\ DOMAIN commons'[r] = Quorum
      BY <1>0, <1>1 DEF Shape
    <2> QED
      BY <1>0, <1>1, <2>1, <2>2 DEF Shape
  <1>3. b1[p] = HonestBroadcast(p) /\ b1[p] # None
    BY <1>0, <1>1, HonestPasses DEF Sent
  <1>4. /\ round'[p] = 3
        /\ \A q \in Quorum : keys'[p][q] = b1[q].ck /\ commonComs'[p][q] = b1[q].commitment
        /\ b2'[p] = commons[p][p]
        /\ \A q \in Others(p) : u2'[p][q] = HonestCommit(b1[q].ck, PairValue(p, q))
    BY <1>0, <1>1 DEF Shape, Others
  <1>5. \A r \in Honest \ {p} : SameParty(r)
    BY <1>0, <1>1 DEF Shape, SameParty
  <1>6. Grows
    BY <1>0, <1>1 DEF Grows, Shape
  <1>7. Sent(p)'
    <2>1. b1'[p] = HonestBroadcast(p) /\ b2'[p] = HonestOpening(CommonValue(p))
      BY <1>0, <1>1, <1>3, <1>4 DEF Stored
    <2>2. \A q \in Others(p) : u3[p][q] = None
      BY <1>0, <1>1 DEF Sent
    <2>3. \A q \in Others(p) : /\ u2'[p][q] = HonestCommit(b1'[q].ck, PairValue(p, q))
                               /\ u3'[p][q] = None
      BY <1>1, <1>4, <2>2
    <2> QED
      BY <1>4, <2>1, <2>3 DEF Sent
  <1>8. Stored(p)' /\ Done(p)'
    <2>1. keys'[p][p] = Key(p)
      BY <1>0, <1>3, <1>4, BroadcastFacts
    <2>2. \A q \in Quorum : b1[q] # None
      BY <1>1, <1>3 DEF Others
    <2> QED
      BY <1>0, <1>1, <1>4, <2>1, <2>2 DEF Stored, Done
  <1>9. BlameIsJust'
    BY <1>1 DEF IInv, BlameIsJust
  <1> QED
    BY <1>2, <1>5, <1>6, <1>7, <1>8, <1>9, Bystander DEF IInv

-----------------------------------------------------------------------------
\* What p is handed in Round3.
LEMMA Round3In ==
    ASSUME NEW p \in Honest, NEW in \in Round3Inputs(p)
    PROVE  /\ \A q \in Honest \ {p} : in.b[q] = b2[q] /\ in.u[q] = u2[q][p]
           /\ \A c \in Corrupt :
                 /\ in.b[c] \in Openings \cup SeenOpenings \cup {Malformed}
                 /\ in.u[c] \in CommitmentsUnder(Key(p)) \cup SeenCommitments \cup {Malformed}
  <1>0. p \notin Corrupt /\ Corrupt \subseteq Quorum
    BY SessionAssumption DEF Honest
  <1>1. PICK fb \in [Corrupt -> Openings \cup SeenOpenings \cup {Malformed}],
             fu \in [Corrupt -> CommitmentsUnder(Key(p)) \cup SeenCommitments \cup {Malformed}] :
           in = [b |-> Handed(b2, fb, p), u |-> Handed([q \in Honest |-> u2[q][p]], fu, p)]
    BY DEF Round3Inputs
  <1>2. in.b = Handed(b2, fb, p) /\ in.u = Handed([q \in Honest |-> u2[q][p]], fu, p)
    BY <1>1
  <1>3. \A q \in Honest \ {p} : in.b[q] = b2[q] /\ in.u[q] = u2[q][p]
    BY <1>2 DEF Handed, Others, Honest
  <1>4. \A c \in Corrupt : in.b[c] = fb[c] /\ in.u[c] = fu[c]
    BY <1>0, <1>2 DEF Handed, Others
  <1> QED
    BY <1>1, <1>3, <1>4

\* What p is handed in Round4.
LEMMA Round4In ==
    ASSUME NEW p \in Honest, NEW in \in Round4Inputs(p)
    PROVE  /\ \A q \in Honest \ {p} : in[q] = u3[q][p]
           /\ \A c \in Corrupt : in[c] \in Openings \cup SeenOpenings \cup {Malformed}
  <1>0. p \notin Corrupt /\ Corrupt \subseteq Quorum
    BY SessionAssumption DEF Honest
  <1>1. PICK fu \in [Corrupt -> Openings \cup SeenOpenings \cup {Malformed}] :
           in = Handed([q \in Honest |-> u3[q][p]], fu, p)
    BY DEF Round4Inputs
  <1>2. \A q \in Honest \ {p} : in[q] = u3[q][p]
    BY <1>1 DEF Handed, Others, Honest
  <1>3. \A c \in Corrupt : in[c] = fu[c]
    BY <1>0, <1>1 DEF Handed, Others
  <1> QED
    BY <1>1, <1>2, <1>3

\* The commitments corrupt parties can pass on.
LEMMA SeenIsOffered ==
    ASSUME IInv, NEW p \in Honest, NEW com \in SeenCommitments
    PROVE  Offered(p, com)
  <1>0. ASSUME NEW q \in Honest PROVE Sent(q) /\ Stored(q) /\ round[q] \in 1 .. 5
    BY <1>0 DEF IInv, Shape
  <1>1. CASE \E q \in Drawn : com = b1[q].commitment
    <2>1. PICK q \in Honest : b1[q] # None /\ com = b1[q].commitment
      BY <1>1 DEF Drawn
    <2>2. b1[q] = HonestBroadcast(q)
      BY <1>0, <2>1 DEF Sent
    <2> QED
      BY <2>1, <2>2, BroadcastFacts DEF Offered
  <1>2. CASE \E q \in Honest, c \in Corrupt : com = u2[q][c] /\ u2[q][c] # None
    <2>1. PICK q \in Honest, c \in Corrupt : com = u2[q][c] /\ u2[q][c] # None
      BY <1>2
    <2>2. c \in Others(q) /\ c \in Quorum
      BY SessionAssumption DEF Others, Honest
    <2>3. round[q] >= 3 /\ com = HonestCommit(b1[c].ck, PairValue(q, c))
      BY <1>0, <2>1, <2>2 DEF Sent
    <2>4. b1[c] # None
      BY <1>0, <2>2, <2>3 DEF Stored
    <2> QED
      BY <2>3, <2>4 DEF Offered
  <1> QED
    BY <1>1, <1>2 DEF SeenCommitments

LEMMA SeenIsOpening ==
    ASSUME IInv
    PROVE  SeenOpenings \subseteq AllOpenings
  <1> SUFFICES ASSUME NEW o \in SeenOpenings PROVE o \in AllOpenings
    OBVIOUS
  <1>0. ASSUME NEW q \in Honest PROVE Sent(q) /\ q \in Quorum /\ round[q] \in 1 .. 5
    BY <1>0 DEF IInv, Shape, Honest
  <1>1. CASE \E q \in Honest : o = b2[q] /\ b2[q] # None
    <2>1. PICK q \in Honest : o = b2[q] /\ b2[q] # None
      BY <1>1
    <2>2. o = HonestOpening(CommonValue(q))
      BY <1>0, <2>1 DEF Sent
    <2> QED
      BY <1>0, <2>2, HonestPasses
  <1>2. CASE \E q \in Honest, c \in Corrupt : o = u3[q][c] /\ u3[q][c] # None
    <2>1. PICK q \in Honest, c \in Corrupt : o = u3[q][c] /\ u3[q][c] # None
      BY <1>2
    <2>2. c \in Others(q) /\ c \in Quorum
      BY SessionAssumption DEF Others, Honest
    <2>3. o = HonestOpening(PairValue(q, c))
      BY <1>0, <2>1, <2>2 DEF Sent
    <2> QED
      BY <1>0, <2>2, <2>3, HonestPasses
  <1> QED
    BY <1>1, <1>2 DEF SeenOpenings

\* In Round3, what comes from an honest party is well formed and opens.
LEMMA Round3Honest ==
    ASSUME IInv, NEW p \in Honest, Round3Ready(p), NEW in \in Round3Inputs(p),
           NEW q \in Honest \ {p}
    PROVE  /\ round[q] >= 3
           /\ in.b[q] = HonestOpening(CommonValue(q)) /\ in.b[q] # Malformed
           /\ in.u[q] = HonestCommit(Key(p), PairValue(q, p)) /\ in.u[q] # Malformed
           /\ in.u[q] = u2[q][p]
           /\ Opens(CommonKey, commonComs[p][q], in.b[q])
  <1>0. /\ Sent(p) /\ Stored(p) /\ Sent(q) /\ Stored(q) /\ p \in Quorum /\ q \in Quorum
        /\ p \in Others(q) /\ round[q] \in 1 .. 5
    BY DEF IInv, Shape, Honest, Others
  <1>1. round[p] = 3 /\ b2[q] # None
    BY DEF Round3Ready
  <1>2. round[q] >= 3 /\ b2[q] = HonestOpening(CommonValue(q))
    BY <1>0, <1>1 DEF Sent
  <1>3. b1[p] = HonestBroadcast(p) /\ b1[q] = HonestBroadcast(q)
    BY <1>0, <1>1, <1>2 DEF Sent
  <1>4. u2[q][p] = HonestCommit(Key(p), PairValue(q, p))
    BY <1>0, <1>2, <1>3, BroadcastFacts DEF Sent
  <1>5. commonComs[p][q] = HonestCommit(CommonKey, CommonValue(q))
    BY <1>0, <1>1, <1>3, BroadcastFacts DEF Stored
  <1>6. Opens(CommonKey, commonComs[p][q], HonestOpening(CommonValue(q)))
    BY <1>5, OpeningFacts DEF Opens, HonestCommit
  <1> QED
    BY <1>0, <1>2, <1>4, <1>6, Round3In, HonestPasses

\* In Round4, what comes from an honest party is well formed and opens.
LEMMA Round4Honest ==
    ASSUME IInv, NEW p \in Honest, Round4Ready(p), NEW in \in Round4Inputs(p),
           NEW q \in Honest \ {p}
    PROVE  /\ in[q] = HonestOpening(PairValue(q, p)) /\ in[q] # Malformed
           /\ Opens(keys[p][p], pairComs[p][q], in[q])
  <1>0. /\ Stored(p) /\ Sent(q) /\ p \in Quorum /\ q \in Quorum
        /\ p \in Others(q) /\ round[q] \in 1 .. 5
    BY DEF IInv, Shape, Honest, Others
  <1>1. round[p] = 4 /\ u3[q][p] # None
    BY DEF Round4Ready
  <1>2. u3[q][p] = HonestOpening(PairValue(q, p))
    BY <1>0, <1>1 DEF Sent
  <1>3. keys[p][p] = Key(p) /\ pairComs[p][q] = HonestCommit(Key(p), PairValue(q, p))
    BY <1>0, <1>1 DEF Stored
  <1>4. Opens(keys[p][p], pairComs[p][q], HonestOpening(PairValue(q, p)))
    BY <1>3, OpeningFacts DEF Opens, HonestCommit
  <1> QED
    BY <1>0, <1>2, <1>4, Round4In, HonestPasses

-----------------------------------------------------------------------------
LEMMA Round3Step ==
    ASSUME IInv, NEW p \in Honest, Round3(p)
    PROVE  IInv'
  <1>0. Shape /\ Sent(p) /\ Stored(p) /\ p \in Quorum
    BY DEF IInv, Honest
  <1>1. Round3Ready(p) /\ round[p] = 3
    BY DEF Round3, Round3Ready
  <1>2. PICK in \in Round3Inputs(p) :
           /\ MalformedIn(p, in) = {}
           /\ StoreRound3(p, in, Others(p))
    BY DEF Round3
  <1>3. /\ commons' = [commons EXCEPT ![p] =
              [q \in Quorum |-> IF q \in Others(p) THEN in.b[q] ELSE @[q]]]
        /\ pairComs' = [pairComs EXCEPT ![p] =
              [q \in Quorum |-> IF q \in Others(p) THEN in.u[q] ELSE @[q]]]
    BY <1>2 DEF StoreRound3
  <1>4. /\ u3' = [u3 EXCEPT ![p] = [q \in Quorum |->
                     IF q = p THEN None ELSE HonestOpening(PairValue(p, q))]]
        /\ round' = [round EXCEPT ![p] = @ + 1]
        /\ UNCHANGED <<b1, b2, u2, keys, commonComs, context, blamed>>
    BY DEF Round3, Advance, HonestOpening
  <1>5. Shape'
    <2>1. round' \in [Honest -> 1 .. 5]
      BY <1>0, <1>1, <1>4 DEF Shape
    <2>2. \A r \in Honest : DOMAIN keys'[r] = Quorum /\ DOMAIN commons'[r] = Quorum
      BY <1>0, <1>3, <1>4 DEF Shape
    <2> QED
      BY <1>0, <1>3, <1>4, <2>1, <2>2 DEF Shape
  <1>6. /\ round'[p] = 4
        /\ commons'[p][p] = commons[p][p]
        /\ \A q \in Others(p) : pairComs'[p][q] = in.u[q] /\ u3'[p][q] = HonestOpening(PairValue(p, q))
    BY <1>0, <1>1, <1>3, <1>4 DEF Shape, Others
  <1>7. \A r \in Honest \ {p} : SameParty(r)
    BY <1>0, <1>3, <1>4 DEF Shape, SameParty
  <1>8. Grows
    BY <1>0, <1>1, <1>4 DEF Grows, Shape
  <1>9. Sent(p)'
    <2>1. /\ b1[p] = HonestBroadcast(p) /\ b2[p] = HonestOpening(CommonValue(p))
          /\ \A q \in Others(p) : u2[p][q] = HonestCommit(b1[q].ck, PairValue(p, q))
      BY <1>0, <1>1 DEF Sent
    <2>2. /\ b1'[p] = HonestBroadcast(p) /\ b2'[p] = HonestOpening(CommonValue(p))
          /\ \A q \in Others(p) : u2'[p][q] = HonestCommit(b1'[q].ck, PairValue(p, q))
      BY <1>4, <2>1
    <2> QED
      BY <1>6, <2>2 DEF Sent
  <1>10. Stored(p)'
    <2>1. keys'[p][p] = Key(p) /\ commons'[p][p] = HonestOpening(CommonValue(p))
      BY <1>0, <1>1, <1>4, <1>6 DEF Stored
    <2>2. \A q \in Quorum :
             b1'[q] # None /\ keys'[p][q] = b1'[q].ck /\ commonComs'[p][q] = b1'[q].commitment
      BY <1>0, <1>1, <1>4 DEF Stored
    <2>3. ASSUME NEW q \in Honest \ {p}
          PROVE  round'[q] >= 3 /\ pairComs'[p][q] = HonestCommit(Key(p), PairValue(q, p))
      <3>1. round[q] >= 3 /\ in.u[q] = HonestCommit(Key(p), PairValue(q, p))
        BY <1>1, Round3Honest
      <3>2. q \in Others(p) /\ round'[q] = round[q]
        BY <1>7 DEF SameParty, Others, Honest
      <3> QED
        BY <1>6, <3>1, <3>2
    <2>4. ASSUME NEW c \in Corrupt
          PROVE  Offered(p, pairComs[p][c])'
      <3>1. c \in Others(p) /\ c \in Quorum
        BY SessionAssumption DEF Others, Honest
      <3>2. in.u[c] # Malformed
        BY <1>2, <3>1 DEF MalformedIn
      <3>3. in.u[c] \in CommitmentsUnder(Key(p)) \/ in.u[c] \in SeenCommitments
        BY <3>2, Round3In
      <3>4. Offered(p, in.u[c])
        BY <3>3, SeenIsOffered DEF Offered
      <3>5. pairComs'[p][c] = in.u[c]
        BY <1>6, <3>1
      <3> QED
        BY <1>4, <3>4, <3>5 DEF Offered
    <2> QED
      BY <2>1, <2>2, <2>3, <2>4 DEF Stored
  <1>11. Done(p)'
    BY <1>6 DEF Done
  <1>12. BlameIsJust'
    BY <1>4 DEF IInv, BlameIsJust
  <1> QED
    BY <1>5, <1>7, <1>8, <1>9, <1>10, <1>11, <1>12, Bystander DEF IInv

LEMMA Round4Step ==
    ASSUME IInv, NEW p \in Honest, Round4(p)
    PROVE  IInv'
  <1>0. Shape /\ Sent(p) /\ Stored(p) /\ p \in Quorum
    BY DEF IInv, Honest
  <1>1. Round4Ready(p) /\ round[p] = 4
    BY DEF Round4, Round4Ready
  <1>2. PICK in \in Round4Inputs(p) :
           /\ \A q \in Others(p) : in[q] # Malformed
           /\ BadPair(p, in) = {}
           /\ context' = [context EXCEPT ![p] =
                 NewContext(p, CommonSeed(p), [q \in Others(p) |-> PairSeed(p, q, in[q].value)])]
    BY DEF Round4
  <1>3. /\ round' = [round EXCEPT ![p] = @ + 1]
        /\ UNCHANGED <<b1, b2, u2, u3, keys, commonComs, commons, pairComs, blamed>>
    BY DEF Round4, Advance, wires, store
  <1>4. Shape'
    <2>1. round' \in [Honest -> 1 .. 5]
      BY <1>0, <1>1, <1>3 DEF Shape
    <2> QED
      BY <1>0, <1>2, <1>3, <2>1 DEF Shape
  <1>5. round'[p] = 5 /\ \A i \in Others(p) : context'[p].seeds[i].seed = PairSeed(p, i, in[i].value)
    BY <1>0, <1>1, <1>2, <1>3 DEF Shape, NewContext
  <1>6. \A r \in Honest \ {p} : SameParty(r)
    BY <1>0, <1>2, <1>3 DEF Shape, SameParty
  <1>7. Grows
    BY <1>0, <1>1, <1>3 DEF Grows, Shape
  <1>8. Sent(p)'
    <2>1. /\ b1[p] = HonestBroadcast(p) /\ b2[p] = HonestOpening(CommonValue(p))
          /\ \A q \in Others(p) : /\ u2[p][q] = HonestCommit(b1[q].ck, PairValue(p, q))
                                   /\ u3[p][q] = HonestOpening(PairValue(p, q))
      BY <1>0, <1>1 DEF Sent
    <2>2. /\ b1'[p] = HonestBroadcast(p) /\ b2'[p] = HonestOpening(CommonValue(p))
          /\ \A q \in Others(p) : /\ u2'[p][q] = HonestCommit(b1'[q].ck, PairValue(p, q))
                                   /\ u3'[p][q] = HonestOpening(PairValue(p, q))
      BY <1>3, <2>1
    <2> QED
      BY <1>5, <2>2 DEF Sent
  <1>9. Stored(p)'
    <2>1. /\ keys[p][p] = Key(p) /\ commons[p][p] = HonestOpening(CommonValue(p))
          /\ \A q \in Quorum :
                b1[q] # None /\ keys[p][q] = b1[q].ck /\ commonComs[p][q] = b1[q].commitment
          /\ \A q \in Honest \ {p} : /\ round[q] >= 3
                                      /\ pairComs[p][q] = HonestCommit(Key(p), PairValue(q, p))
          /\ \A c \in Corrupt : Offered(p, pairComs[p][c])
      BY <1>0, <1>1 DEF Stored
    <2>2. \A q \in Honest \ {p} : round'[q] = round[q]
      BY <1>6 DEF SameParty
    <2>3. \A c \in Corrupt : Offered(p, pairComs[p][c])'
      BY <1>3, <2>1 DEF Offered
    <2> QED
      BY <1>3, <2>1, <2>2, <2>3 DEF Stored
  <1>10. Done(p)'
    <2> SUFFICES ASSUME NEW i \in Others(p)
                 PROVE  \E o \in AllOpenings : SeedFrom(p, i, o)'
      BY DEF Done
    <2>1. in[i] \in AllOpenings
      <3>1. CASE i \in Corrupt
        BY <1>2, <3>1, Round4In, SeenIsOpening DEF AllOpenings
      <3>2. CASE i \in Honest
        <4>1. i \in Honest \ {p} /\ i \in Quorum
          BY <3>2 DEF Others
        <4>2. in[i] = HonestOpening(PairValue(i, p))
          BY <1>1, <4>1, Round4Honest
        <4> QED
          BY <1>0, <4>1, <4>2, HonestPasses
      <3> QED
        BY <3>1, <3>2 DEF Others, Honest
    <2>2. pairComs[p][i] = Commit(Key(p), in[i].value, in[i].witness)
      BY <1>0, <1>1, <1>2 DEF BadPair, Opens, Stored
    <2>3. PairSeed(p, i, in[i].value)' = PairSeed(p, i, in[i].value)
      BY <1>3 DEF PairSeed, CommonSeed
    <2>4. SeedFrom(p, i, in[i])'
      BY <1>3, <1>5, <2>2, <2>3 DEF SeedFrom
    <2> QED
      BY <2>1, <2>4
  <1>11. BlameIsJust'
    BY <1>3 DEF IInv, BlameIsJust
  <1> QED
    BY <1>4, <1>6, <1>7, <1>8, <1>9, <1>10, <1>11, Bystander DEF IInv

-----------------------------------------------------------------------------
\* An error names a party of a set that holds no honest one.
LEMMA BlamesCorrupt ==
    ASSUME IInv, NEW p \in Honest, NEW S \in SUBSET Others(p), S # {}, Error(p, First(S)),
           \A q \in Honest \ {p} : q \notin S
    PROVE  BlameIsJust'
  <1>1. First(S) \in S
    BY FirstIsMember DEF Others
  <1>2. First(S) \in Corrupt
    BY <1>1 DEF Others, Honest
  <1>3. blamed' = blamed \cup {<<p, First(S)>>}
    BY DEF Error
  <1> QED
    BY <1>2, <1>3 DEF IInv, BlameIsJust

\* An error of p that leaves everything but p's record of contributions and
\* pairwise commitments alone.
LEMMA ErrorStep ==
    ASSUME IInv, NEW p \in Honest, BlameIsJust',
           UNCHANGED <<round, b1, b2, u2, u3, keys, commonComs, context>>,
           \/ UNCHANGED <<commons, pairComs>>
           \/ /\ round[p] = 3
              /\ \E in, ids : p \notin ids /\ StoreRound3(p, in, ids)
    PROVE  IInv'
  <1>0. Shape /\ Sent(p) /\ Stored(p) /\ p \in Quorum
    BY DEF IInv, Honest
  <1>1. Grows
    BY <1>0 DEF Grows, Shape
  <1>2. CASE UNCHANGED <<commons, pairComs>>
    <2>1. Shape' /\ \A r \in Honest : SameParty(r)
      BY <1>0, <1>2 DEF Shape, SameParty
    <2> QED
      BY <1>1, <2>1, Bystander DEF IInv
  <1>3. CASE round[p] = 3 /\ \E in, ids : p \notin ids /\ StoreRound3(p, in, ids)
    <2>1. PICK in, ids : p \notin ids /\ StoreRound3(p, in, ids)
      BY <1>3
    <2>2. /\ commons' = [commons EXCEPT ![p] =
                [q \in Quorum |-> IF q \in ids THEN in.b[q] ELSE @[q]]]
          /\ pairComs' = [pairComs EXCEPT ![p] =
                [q \in Quorum |-> IF q \in ids THEN in.u[q] ELSE @[q]]]
      BY <2>1 DEF StoreRound3
    <2>3. Shape'
      <3>1. \A r \in Honest : DOMAIN keys'[r] = Quorum /\ DOMAIN commons'[r] = Quorum
        BY <1>0, <2>2 DEF Shape
      <3> QED
        BY <1>0, <2>2, <3>1 DEF Shape
    <2>4. commons'[p][p] = commons[p][p] /\ round'[p] = 3
      BY <1>0, <1>3, <2>1, <2>2 DEF Shape
    <2>5. \A r \in Honest \ {p} : SameParty(r)
      BY <1>0, <2>2 DEF Shape, SameParty
    <2>6. Sent(p)'
      BY <1>0 DEF Sent
    <2>7. Stored(p)' /\ Done(p)'
      BY <1>0, <1>3, <2>4 DEF Stored, Done
    <2> QED
      BY <1>1, <2>3, <2>5, <2>6, <2>7, Bystander DEF IInv
  <1> QED
    BY <1>2, <1>3

LEMMA Round2ErrorStep ==
    ASSUME IInv, NEW p \in Honest, Round2Error(p)
    PROVE  IInv'
  <1> DEFINE malformed == {q \in Others(p) : b1[q] = Malformed}
  <1>1. /\ \A q \in Others(p) : b1[q] # None
        /\ malformed # {} /\ Error(p, First(malformed))
        /\ UNCHANGED <<round, b1, b2, u2, u3, keys, commonComs, commons, pairComs, context>>
    BY DEF Round2Error, wires, store
  <1>2. \A q \in Honest \ {p} : q \notin malformed
    BY <1>1, HonestPasses DEF IInv, Sent, Others, Honest
  <1>3. BlameIsJust'
    <2>1. malformed \in SUBSET Others(p)
      OBVIOUS
    <2> HIDE DEF malformed
    <2> QED
      BY <1>1, <1>2, <2>1, BlamesCorrupt
  <1> QED
    BY <1>1, <1>3, ErrorStep

LEMMA Round3ErrorStep ==
    ASSUME IInv, NEW p \in Honest, Round3Error(p)
    PROVE  IInv'
  <1>1. /\ Round3Ready(p) /\ round[p] = 3
        /\ UNCHANGED <<round, b1, b2, u2, u3, keys, commonComs, context>>
    BY DEF Round3Error, Round3Ready, wires
  <1>2. PICK in \in Round3Inputs(p) :
          \/ /\ MalformedIn(p, in) # {}
             /\ Error(p, First(MalformedIn(p, in)))
             /\ UNCHANGED <<commons, pairComs>>
          \/ /\ BadCommon(p, in) # {}
             /\ Error(p, First(BadCommon(p, in)))
             /\ StoreRound3(p, in, {id \in Others(p) : id < First(BadCommon(p, in))})
    BY DEF Round3Error
  <1>3. \A q \in Honest \ {p} : q \notin MalformedIn(p, in) /\ q \notin BadCommon(p, in)
    <2> TAKE q \in Honest \ {p}
    <2>1. in.b[q] # Malformed /\ in.u[q] # Malformed /\ Opens(CommonKey, commonComs[p][q], in.b[q])
      BY <1>1, Round3Honest
    <2> QED
      BY <2>1 DEF MalformedIn, BadCommon
  <1>4. MalformedIn(p, in) \in SUBSET Others(p) /\ BadCommon(p, in) \in SUBSET Others(p)
    BY DEF MalformedIn, BadCommon
  <1>5. CASE MalformedIn(p, in) # {} /\ Error(p, First(MalformedIn(p, in))) /\ UNCHANGED <<commons, pairComs>>
    <2>1. BlameIsJust'
      BY <1>3, <1>4, <1>5, BlamesCorrupt
    <2> QED
      BY <1>1, <1>5, <2>1, ErrorStep
  <1>6. CASE /\ BadCommon(p, in) # {}
             /\ Error(p, First(BadCommon(p, in)))
             /\ StoreRound3(p, in, {id \in Others(p) : id < First(BadCommon(p, in))})
    <2>1. BlameIsJust'
      BY <1>3, <1>4, <1>6, BlamesCorrupt
    <2>2. p \notin {id \in Others(p) : id < First(BadCommon(p, in))}
      BY DEF Others
    <2> QED
      BY <1>1, <1>6, <2>1, <2>2, ErrorStep
  <1> QED
    BY <1>2, <1>5, <1>6

LEMMA Round4ErrorStep ==
    ASSUME IInv, NEW p \in Honest, Round4Error(p)
    PROVE  IInv'
  <1>1. /\ Round4Ready(p)
        /\ UNCHANGED <<round, b1, b2, u2, u3, keys, commonComs, commons, pairComs, context>>
    BY DEF Round4Error, wires, store
  <1>2. PICK in \in Round4Inputs(p) :
          LET malformed == {q \in Others(p) : in[q] = Malformed}
          IN  \/ malformed # {} /\ Error(p, First(malformed))
              \/ BadPair(p, in) # {} /\ Error(p, First(BadPair(p, in)))
    BY DEF Round4Error
  <1> DEFINE malformed == {q \in Others(p) : in[q] = Malformed}
  <1>3. \A q \in Honest \ {p} : q \notin malformed /\ q \notin BadPair(p, in)
    <2> TAKE q \in Honest \ {p}
    <2>1. in[q] # Malformed /\ Opens(keys[p][p], pairComs[p][q], in[q])
      BY <1>1, Round4Honest
    <2> QED
      BY <2>1 DEF BadPair
  <1>4. malformed \in SUBSET Others(p) /\ BadPair(p, in) \in SUBSET Others(p)
    BY DEF BadPair
  <1>5. \/ malformed # {} /\ Error(p, First(malformed))
        \/ BadPair(p, in) # {} /\ Error(p, First(BadPair(p, in)))
    BY <1>2
  <1>6. BlameIsJust'
    <2> HIDE DEF malformed
    <2> QED
      BY <1>3, <1>4, <1>5, BlamesCorrupt
  <1> QED
    BY <1>1, <1>6, ErrorStep

LEMMA IInvStep == IInv /\ [Next]_vars => IInv'
  <1> SUFFICES ASSUME IInv, [Next]_vars PROVE IInv'
    OBVIOUS
  <1>1. CASE UNCHANGED vars
    <2>1. Shape' /\ Grows /\ BlameIsJust' /\ \A r \in Honest : SameParty(r)
      BY <1>1 DEF IInv, Shape, Grows, BlameIsJust, SameParty, vars
    <2> QED
      BY <2>1, Bystander DEF IInv
  <1>2. ASSUME NEW p \in Honest,
               \/ Round1(p) \/ Round2(p) \/ Round3(p) \/ Round4(p)
               \/ Round2Error(p) \/ Round3Error(p) \/ Round4Error(p)
        PROVE  IInv'
    BY <1>2, Round1Step, Round2Step, Round3Step, Round4Step,
       Round2ErrorStep, Round3ErrorStep, Round4ErrorStep
  <1> QED
    BY <1>1, <1>2, CorruptStep DEF Next

LEMMA IInvHolds == Spec => []IInv
  BY InitIInv, IInvStep, PTL DEF Spec

-----------------------------------------------------------------------------
\* No error of session setup names a party that follows the protocol, also when
\* rounds are called again after an error.
THEOREM BlameIsJustHolds == Spec => []BlameIsJust
  <1>1. IInv => BlameIsJust
    BY DEF IInv
  <1> QED
    BY <1>1, IInvHolds, PTL

\* The contributions of two honest parties to their seed are both committed to,
\* each under the key of the other, before the first is opened.
THEOREM PairCommittedFirstHolds == Spec => PairCommittedFirst
  <1>1. ASSUME IInv, IInv', [Next]_vars, NEW p \in Honest, NEW q \in Honest, p # q, u3'[p][q] # None
        PROVE  pairComs'[p][q] = u2[q][p] /\ Opens(Key(q), u2[p][q], u3'[p][q])
    <2>0. p \in Quorum /\ q \in Quorum /\ q \in Others(p) /\ p \in Others(q)
      BY <1>1 DEF Honest, Others
    <2>1. Sent(p)' /\ Stored(p)' /\ Sent(p) /\ Sent(q) /\ Stored(p) /\ Stored(q) /\ Shape
      BY <1>1 DEF IInv
    <2>2. round'[p] >= 4 /\ u3'[p][q] = HonestOpening(PairValue(p, q))
      <3>1. u3'[p][q] = IF round'[p] < 4 THEN None ELSE HonestOpening(PairValue(p, q))
        BY <2>0, <2>1 DEF Sent
      <3>2. round'[p] \in 1 .. 5
        BY <1>1 DEF IInv, Shape
      <3> QED
        BY <1>1, <3>1, <3>2
    <2>3. pairComs'[p][q] = HonestCommit(Key(p), PairValue(q, p)) /\ round'[q] >= 3
      BY <1>1, <2>1, <2>2 DEF Stored
    <2>4. round[p] >= 3 /\ round[q] >= 3
      <3>1. CASE round[p] >= 4
        BY <1>1, <2>1, <3>1 DEF Stored, Shape
      <3>2. CASE ~(round[p] >= 4)
        <4>1. Round3(p)
          <5>1. ~UNCHANGED round /\ round[p] \in 1 .. 3
            BY <2>1, <2>2, <3>2 DEF Shape
          <5>2. PICK r \in Honest : Round1(r) \/ Round2(r) \/ Round3(r) \/ Round4(r)
            BY <1>1, <5>1 DEF Next, vars, Round2Error, Round3Error, Round4Error, CorruptRound1
          <5>3. /\ round' = [round EXCEPT ![r] = @ + 1]
                /\ Round1(r) => round[r] = 1
                /\ Round2(r) => round[r] = 2
                /\ Round4(r) => round[r] = 4
            BY <5>2 DEF Round1, Round2, Round3, Round4, Round4Ready, Advance
          <5>4. r = p
            BY <2>1, <2>2, <5>1, <5>3 DEF Shape
          <5>5. round'[p] = round[p] + 1
            BY <2>1, <5>3, <5>4 DEF Shape
          <5> QED
            BY <2>2, <5>1, <5>2, <5>3, <5>4, <5>5
        <4>2. Round3Ready(p) /\ round[p] = 3
          BY <4>1 DEF Round3, Round3Ready
        <4>3. b2[q] # None
          BY <1>1, <4>2 DEF Round3Ready
        <4> QED
          BY <2>1, <4>2, <4>3 DEF Sent, Shape
      <3> QED
        BY <3>1, <3>2
    <2>5. /\ b1[p] = HonestBroadcast(p) /\ b1[q] = HonestBroadcast(q)
          /\ u2[q][p] = HonestCommit(b1[p].ck, PairValue(q, p))
          /\ u2[p][q] = HonestCommit(b1[q].ck, PairValue(p, q))
      BY <2>0, <2>1, <2>4 DEF Sent, Shape
    <2> QED
      BY <2>2, <2>3, <2>5, BroadcastFacts, OpeningFacts DEF Opens, HonestCommit
  <1>2. IInv /\ IInv' /\ [Next]_vars =>
           [\A p, q \in Honest : p # q /\ u3'[p][q] # None =>
               /\ pairComs'[p][q] = u2[q][p]
               /\ Opens(Key(q), u2[p][q], u3'[p][q])]_vars
    BY <1>1
  <1> QED
    BY <1>2, IInvHolds, PTL DEF Spec, PairCommittedFirst

\* A contribution that an honest party drew for somebody else opens for p only if
\* a corrupt party passed it on and the party it was drawn for has p's key.
LEMMA PassedOn ==
    ASSUME IInv, NEW p \in Honest, round[p] = 5, NEW i \in Corrupt,
           NEW q \in Honest, NEW j \in Quorum, NEW w,
           pairComs[p][i] = Commit(Key(p), PairValue(q, j), w),
           NEW o \in AllOpenings, o.value = PairValue(q, j), o.witness = w
    PROVE  b1[j].ck = Key(p)
  <1>0. Stored(p) /\ p \in Quorum /\ q \in Quorum
    BY DEF IInv, Honest
  <1>1. Offered(p, pairComs[p][i])
    BY <1>0 DEF Stored
  <1>2. CASE pairComs[p][i] \in CommitmentsUnder(Key(p))
    <2>1. Key(p) \in AllKeys /\ PairValue(q, j) \in Tokens
      BY <1>0 DEF AllKeys, Tokens
    <2>2. pairComs[p][i] # Unopenable
      BY <2>1, SamplingAssumption
    <2>3. PICK f \in Openings : pairComs[p][i] = Commit(Key(p), f.value, f.witness)
      BY <1>2, <2>2 DEF CommitmentsUnder
    <2>4. f.value \in Forged
      BY <2>3 DEF Openings, Opening
    <2>5. f.value = PairValue(q, j)
      BY <2>3 DEF Commit
    <2> QED
      BY <2>1, <2>4, <2>5, SamplingAssumption
  <1>3. CASE \E r \in Honest : pairComs[p][i] = HonestCommit(CommonKey, CommonValue(r))
    <2>1. Key(p) = CommonKey
      BY <1>3 DEF Commit, HonestCommit
    <2> QED
      BY <2>1, TokenFacts
  <1>4. CASE \E r \in Honest, c \in Corrupt : pairComs[p][i] = HonestCommit(b1[c].ck, PairValue(r, c))
    <2>1. PICK r \in Honest, c \in Corrupt : pairComs[p][i] = HonestCommit(b1[c].ck, PairValue(r, c))
      BY <1>4
    <2>2. Key(p) = b1[c].ck /\ PairValue(q, j) = PairValue(r, c)
      BY <2>1 DEF Commit, HonestCommit
    <2> QED
      BY <2>2, TokenFacts
  <1> QED
    BY <1>1, <1>2, <1>3, <1>4 DEF Offered

\* The contribution of somebody else to the seed of p and i is one that an honest
\* q drew for another party: i is corrupt and that party has p's key.
LEMMA ForeignContribution ==
    ASSUME IInv, NEW p \in Honest, round[p] = 5, NEW i \in Others(p),
           NEW q \in Honest, NEW j \in Others(q), {p, i} # {q, j},
           NEW o \in AllOpenings, SeedFrom(p, i, o), o.value = PairValue(q, j)
    PROVE  i \in Corrupt /\ b1[j].ck = Key(p)
  <1>0. Stored(p) /\ i \in Quorum /\ j \in Quorum
    BY DEF IInv, Others
  <1>1. pairComs[p][i] = Commit(Key(p), o.value, o.witness)
    BY DEF SeedFrom
  <1>2. i \in Corrupt
    <2> SUFFICES ASSUME i \notin Corrupt PROVE FALSE
      OBVIOUS
    <2>1. i \in Honest \ {p}
      BY <1>0 DEF Honest, Others
    <2>2. pairComs[p][i] = HonestCommit(Key(p), PairValue(i, p))
      BY <1>0, <2>1 DEF Stored
    <2>3. PairValue(i, p) = PairValue(q, j)
      BY <1>1, <2>2 DEF Commit, HonestCommit
    <2> QED
      BY <2>3, TokenFacts
  <1> QED
    BY <1>0, <1>1, <1>2, PassedOn

\* With at most one corrupt party, no two pairs that include an honest party
\* have the same pairwise seed: a party with two partners cannot have the key of
\* both, so it can pass on a contribution in one direction only.
THEOREM PairwiseDistinctHolds ==
    ASSUME \A c, d \in Corrupt : c = d
    PROVE  Spec => []PairwiseDistinct
  <1>1. ASSUME IInv, NEW p \in Honest, NEW q \in Honest, round[p] = 5, round[q] = 5,
               NEW i \in Others(p), NEW j \in Others(q), {p, i} # {q, j}, p < i, j < q,
               context[p].seeds[i].seed = context[q].seeds[j].seed
        PROVE  FALSE
    <2>1. PICK o \in AllOpenings : SeedFrom(p, i, o)
      BY <1>1 DEF IInv, Done
    <2>2. PICK u \in AllOpenings : SeedFrom(q, j, u)
      BY <1>1 DEF IInv, Done
    <2>3. ~(q < j)
      BY <1>1, SessionAssumption DEF Others, Honest
    <2>4. <<CommonSeed(p), PairValue(p, i), o.value>> = <<CommonSeed(q), u.value, PairValue(q, j)>>
      BY <1>1, <2>1, <2>2, <2>3 DEF SeedFrom, PairSeed
    <2>5. o.value = PairValue(q, j) /\ u.value = PairValue(p, i)
      BY <2>4
    <2>6. i \in Corrupt /\ b1[j].ck = Key(p)
      BY <1>1, <2>1, <2>5, ForeignContribution
    <2>7. j \in Corrupt /\ b1[i].ck = Key(q)
      BY <1>1, <2>2, <2>5, ForeignContribution
    <2>8. i = j /\ p = q
      BY <2>6, <2>7, TokenFacts
    <2> QED
      BY <1>1, <2>8
  <1>2. ASSUME IInv, NEW p \in Honest, NEW q \in Honest, round[p] = 5, round[q] = 5,
               NEW i \in Others(p), NEW j \in Others(q), {p, i} # {q, j}, (p < i) <=> (q < j),
               context[p].seeds[i].seed = context[q].seeds[j].seed
        PROVE  FALSE
    <2>1. PICK o \in AllOpenings : SeedFrom(p, i, o)
      BY <1>2 DEF IInv, Done
    <2>2. PICK u \in AllOpenings : SeedFrom(q, j, u)
      BY <1>2 DEF IInv, Done
    <2>3. PairSeed(p, i, o.value) = PairSeed(q, j, u.value)
      BY <1>2, <2>1, <2>2 DEF SeedFrom
    <2>4. PairValue(p, i) = PairValue(q, j)
      <3>1. CASE p < i
        <4>1. <<CommonSeed(p), PairValue(p, i), o.value>> = <<CommonSeed(q), PairValue(q, j), u.value>>
          BY <1>2, <2>3, <3>1 DEF PairSeed
        <4> QED
          BY <4>1
      <3>2. CASE ~(p < i)
        <4>1. <<CommonSeed(p), o.value, PairValue(p, i)>> = <<CommonSeed(q), u.value, PairValue(q, j)>>
          BY <1>2, <2>3, <3>2 DEF PairSeed
        <4> QED
          BY <4>1
      <3> QED
        BY <3>1, <3>2
    <2> QED
      BY <1>2, <2>4, TokenFacts
  <1>3. IInv => PairwiseDistinct
    <2> SUFFICES ASSUME IInv, NEW p \in Honest, NEW q \in Honest, round[p] = 5, round[q] = 5,
                        NEW i \in Others(p), NEW j \in Others(q), {p, i} # {q, j},
                        context[p].seeds[i].seed = context[q].seeds[j].seed
                 PROVE  FALSE
      BY DEF PairwiseDistinct, Finished
    <2>1. p \in Nat /\ q \in Nat /\ i \in Nat /\ j \in Nat /\ p # i /\ q # j
      BY SessionAssumption DEF Others, Honest
    <2>2. CASE (p < i) <=> (q < j)
      BY <1>2, <2>2
    <2>3. CASE p < i /\ j < q
      BY <1>1, <2>3
    <2>4. CASE q < j /\ i < p
      BY <1>1, <2>4
    <2> QED
      BY <2>1, <2>2, <2>3, <2>4
  <1> QED
    BY <1>3, IInvHolds, PTL

-----------------------------------------------------------------------------
(***************************************************************************)
(* The contexts.  What an honest party has stored of everybody's common    *)
(* contribution is the opening of the commitment broadcast in round 1, so  *)
(* all of them end with the same common seed and, for each two, the same   *)
(* pairwise seed.                                                          *)
(***************************************************************************)

\* The only opening of the commitment that r broadcast.
OpeningOf(r) == Opening(b1[r].commitment.value, b1[r].commitment.witness)

IsContext(p, theirs) ==
    /\ context[p] = NewContext(p, CommonSeed(p), [q \in Others(p) |-> PairSeed(p, q, theirs[q])])
    /\ \A q \in Honest \ {p} : theirs[q] = PairValue(q, p)

Opened(p) == round[p] >= 4 => \A r \in Quorum : commons[p][r] = OpeningOf(r)

HasContext(p) == round[p] = 5 => \E theirs : IsContext(p, theirs)

ContextInv == \A p \in Honest : Opened(p) /\ HasContext(p)

LEMMA AnyOpening ==
    ASSUME NEW o \in AllOpenings
    PROVE  o = Opening(o.value, o.witness)
  <1>1. CASE o \in Openings
    BY <1>1 DEF Openings, Opening
  <1>2. CASE \E value \in Tokens : o = Opening(value, HonestWitness(value))
    BY <1>2 DEF Opening
  <1> QED
    BY <1>1, <1>2 DEF AllOpenings

LEMMA ContextBystander ==
    ASSUME IInv, ContextInv, Grows, NEW r \in Honest, SameParty(r)
    PROVE  Opened(r)' /\ HasContext(r)'
  <1>0. Stored(r) /\ Opened(r) /\ HasContext(r) /\ round[r] \in 1 .. 5
    BY DEF IInv, ContextInv, Shape
  <1>1. Opened(r)'
    <2> SUFFICES ASSUME round'[r] >= 4, NEW q \in Quorum
                 PROVE  commons'[r][q] = OpeningOf(q)'
      BY DEF Opened
    <2>1. round[r] >= 4 /\ round[r] >= 3
      BY <1>0 DEF SameParty
    <2>2. b1[q] # None /\ commons[r][q] = OpeningOf(q)
      BY <1>0, <2>1 DEF Stored, Opened
    <2>3. b1'[q] = b1[q] /\ commons'[r] = commons[r]
      BY <2>2 DEF Grows, SameParty
    <2> QED
      BY <2>2, <2>3 DEF OpeningOf
  <1>2. HasContext(r)'
    <2> SUFFICES ASSUME round'[r] = 5
                 PROVE  \E theirs : IsContext(r, theirs)'
      BY DEF HasContext
    <2>1. PICK theirs : IsContext(r, theirs)
      BY <1>0 DEF HasContext, SameParty
    <2>2. CommonSeed(r)' = CommonSeed(r)
      BY DEF CommonSeed, SameParty
    <2>3. \A q, v : PairSeed(r, q, v)' = PairSeed(r, q, v)
      BY <2>2 DEF PairSeed
    <2>4. [q \in Others(r) |-> PairSeed(r, q, theirs[q])]' = [q \in Others(r) |-> PairSeed(r, q, theirs[q])]
      BY <2>3
    <2>5. IsContext(r, theirs)'
      BY <2>1, <2>2, <2>4 DEF IsContext, SameParty
    <2> QED
      BY <2>5
  <1> QED
    BY <1>1, <1>2

\* Every step but Round3 and Round4 leaves parties past Round3 alone.
LEMMA ContextUnfinished ==
    ASSUME IInv, ContextInv, Grows, NEW p \in Honest, round'[p] < 4, round'[p] \in Nat,
           \A r \in Honest \ {p} : SameParty(r)
    PROVE  ContextInv'
  <1>1. Opened(p)' /\ HasContext(p)'
    BY DEF Opened, HasContext
  <1> QED
    BY <1>1, ContextBystander DEF ContextInv

LEMMA ContextRound3 ==
    ASSUME IInv, ContextInv, NEW p \in Honest, Round3(p)
    PROVE  ContextInv'
  <1>0. Shape /\ Stored(p) /\ Sent(p) /\ p \in Quorum
    BY DEF IInv, Honest
  <1>1. round[p] = 3
    BY DEF Round3, Round3Ready
  <1>2. PICK in \in Round3Inputs(p) :
           /\ MalformedIn(p, in) = {}
           /\ BadCommon(p, in) = {}
           /\ StoreRound3(p, in, Others(p))
    BY DEF Round3
  <1>3. /\ commons' = [commons EXCEPT ![p] =
              [q \in Quorum |-> IF q \in Others(p) THEN in.b[q] ELSE @[q]]]
        /\ pairComs' = [pairComs EXCEPT ![p] =
              [q \in Quorum |-> IF q \in Others(p) THEN in.u[q] ELSE @[q]]]
    BY <1>2 DEF StoreRound3
  <1>4. /\ u3' = [u3 EXCEPT ![p] = [q \in Quorum |->
                     IF q = p THEN None ELSE HonestOpening(PairValue(p, q))]]
        /\ round' = [round EXCEPT ![p] = @ + 1]
        /\ UNCHANGED <<b1, b2, u2, keys, commonComs, context, blamed>>
    BY DEF Round3, Advance, HonestOpening
  <1>5. /\ round'[p] = 4 /\ commons'[p][p] = commons[p][p]
        /\ \A q \in Others(p) : commons'[p][q] = in.b[q]
    BY <1>0, <1>1, <1>3, <1>4 DEF Shape, Others
  <1>6. Grows /\ \A r \in Honest \ {p} : SameParty(r)
    <2>1. \A r \in Honest \ {p} : SameParty(r)
      BY <1>0, <1>3, <1>4 DEF Shape, SameParty
    <2>2. Grows
      BY <1>0, <1>1, <1>4 DEF Grows, Shape
    <2> QED
      BY <2>1, <2>2
  <1>7. ASSUME NEW r \in Quorum
        PROVE  commons'[p][r] = OpeningOf(r)
    <2>1. CASE r = p
      <3>1. commons[p][p] = HonestOpening(CommonValue(p)) /\ b1[p] = HonestBroadcast(p)
        BY <1>0, <1>1 DEF Stored, Sent
      <3>2. b1[p].commitment = HonestCommit(CommonKey, CommonValue(p))
        BY <3>1, BroadcastFacts
      <3>3. OpeningOf(p) = HonestOpening(CommonValue(p))
        BY <3>2 DEF OpeningOf, HonestCommit, HonestOpening, Commit
      <3> QED
        BY <1>5, <2>1, <3>1, <3>3
    <2>2. CASE r # p
      <3>1. r \in Others(p)
        BY <2>2 DEF Others
      <3>2. in.b[r] # Malformed
        BY <1>2, <3>1 DEF MalformedIn
      <3>3. in.b[r] \in AllOpenings
        <4>3. CASE r \in Corrupt
          BY <3>2, <4>3, Round3In, SeenIsOpening DEF AllOpenings
        <4>4. CASE r \notin Corrupt
          <5>1. r \in Honest \ {p} /\ Round3Ready(p)
            BY <2>2, <4>4 DEF Honest, Round3
          <5>2. in.b[r] = HonestOpening(CommonValue(r))
            BY <5>1, Round3Honest
          <5> QED
            BY <5>2, HonestPasses
        <4> QED
          BY <4>3, <4>4
      <3>4. b1[r].commitment = Commit(CommonKey, in.b[r].value, in.b[r].witness)
        <4>1. commonComs[p][r] = b1[r].commitment
          BY <1>0, <1>1 DEF Stored
        <4>2. Opens(CommonKey, commonComs[p][r], in.b[r])
          BY <1>2, <3>1 DEF BadCommon
        <4> QED
          BY <4>1, <4>2 DEF Opens
      <3>5. OpeningOf(r) = Opening(in.b[r].value, in.b[r].witness)
        BY <3>4 DEF OpeningOf, Commit
      <3> QED
        BY <1>5, <3>1, <3>3, <3>5, AnyOpening
    <2> QED
      BY <2>1, <2>2
  <1>8. Opened(p)' /\ HasContext(p)'
    <2>1. \A r : OpeningOf(r)' = OpeningOf(r)
      BY <1>4 DEF OpeningOf
    <2> QED
      BY <1>5, <1>7, <2>1 DEF Opened, HasContext
  <1> QED
    BY <1>6, <1>8, ContextBystander DEF ContextInv

LEMMA ContextRound4 ==
    ASSUME IInv, ContextInv, NEW p \in Honest, Round4(p)
    PROVE  ContextInv'
  <1>0. Shape /\ Opened(p)
    BY DEF IInv, ContextInv
  <1>1. Round4Ready(p) /\ round[p] = 4
    BY DEF Round4, Round4Ready
  <1>2. PICK in \in Round4Inputs(p) :
           context' = [context EXCEPT ![p] =
                 NewContext(p, CommonSeed(p), [q \in Others(p) |-> PairSeed(p, q, in[q].value)])]
    BY DEF Round4
  <1>3. /\ round' = [round EXCEPT ![p] = @ + 1]
        /\ UNCHANGED <<b1, b2, u2, u3, keys, commonComs, commons, pairComs, blamed>>
    BY DEF Round4, Advance, wires, store
  <1>4. Grows /\ \A r \in Honest \ {p} : SameParty(r)
    <2>1. \A r \in Honest \ {p} : SameParty(r)
      BY <1>0, <1>2, <1>3 DEF Shape, SameParty
    <2>2. Grows
      BY <1>0, <1>1, <1>3 DEF Grows, Shape
    <2> QED
      BY <2>1, <2>2
  <1>5. Opened(p)'
    <2>1. \A r \in Quorum : commons[p][r] = OpeningOf(r)
      BY <1>0, <1>1 DEF Opened
    <2>2. \A r : OpeningOf(r)' = OpeningOf(r)
      BY <1>3 DEF OpeningOf
    <2> QED
      BY <1>3, <2>1, <2>2 DEF Opened
  <1>6. HasContext(p)'
    <2> DEFINE theirs == [q \in Others(p) |-> in[q].value]
    <2>1. [q \in Others(p) |-> PairSeed(p, q, in[q].value)] = [q \in Others(p) |-> PairSeed(p, q, theirs[q])]
      OBVIOUS
    <2>2. context'[p] = NewContext(p, CommonSeed(p), [q \in Others(p) |-> PairSeed(p, q, theirs[q])])
      <3>1. context'[p] = NewContext(p, CommonSeed(p), [q \in Others(p) |-> PairSeed(p, q, in[q].value)])
        BY <1>0, <1>2 DEF Shape
      <3> QED
        BY <2>1, <3>1
    <2>3. \A q \in Honest \ {p} : theirs[q] = PairValue(q, p)
      <3> TAKE q \in Honest \ {p}
      <3>1. in[q] = HonestOpening(PairValue(q, p)) /\ q \in Others(p)
        BY <1>1, Round4Honest DEF Others, Honest
      <3> QED
        BY <3>1, OpeningFacts
    <2> HIDE DEF theirs
    <2>4. CommonSeed(p)' = CommonSeed(p)
      BY <1>3 DEF CommonSeed
    <2>5. \A q, v : PairSeed(p, q, v)' = PairSeed(p, q, v)
      BY <2>4 DEF PairSeed
    <2>6. [q \in Others(p) |-> PairSeed(p, q, theirs[q])]' = [q \in Others(p) |-> PairSeed(p, q, theirs[q])]
      BY <2>5
    <2>7. IsContext(p, theirs)'
      BY <2>2, <2>3, <2>4, <2>6 DEF IsContext
    <2> QED
      BY <2>7 DEF HasContext
  <1> QED
    BY <1>4, <1>5, <1>6, ContextBystander DEF ContextInv

LEMMA ContextStep == IInv /\ ContextInv /\ [Next]_vars => ContextInv'
  <1> SUFFICES ASSUME IInv, ContextInv, [Next]_vars PROVE ContextInv'
    OBVIOUS
  <1>0. Shape
    BY DEF IInv
  <1>1. CASE UNCHANGED vars \/ \E c \in Corrupt : CorruptRound1(c)
    <2>1. UNCHANGED <<round, b2, u2, u3, keys, commonComs, commons, pairComs, context>>
      BY <1>1 DEF vars, CorruptRound1, store
    <2>2. \A q \in Quorum : b1'[q] # b1[q] => b1[q] = None /\ q \notin Honest
      <3>1. CASE UNCHANGED vars
        BY <3>1 DEF vars
      <3>2. ASSUME NEW c \in Corrupt, CorruptRound1(c)
            PROVE  \A q \in Quorum : b1'[q] # b1[q] => b1[q] = None /\ q \notin Honest
        <4>1. b1[c] = None /\ \E msg : b1' = [b1 EXCEPT ![c] = msg]
          BY <3>2 DEF CorruptRound1
        <4> QED
          BY <1>0, <4>1 DEF Shape, Honest
      <3> QED
        BY <1>1, <3>1, <3>2
    <2>3. Grows
      BY <1>0, <2>1, <2>2 DEF Grows, Shape
    <2>4. \A r \in Honest : SameParty(r)
      BY <2>1, <2>2 DEF SameParty, Honest
    <2> QED
      BY <2>3, <2>4, ContextBystander DEF ContextInv
  <1>2. ASSUME NEW p \in Honest, Round1(p) PROVE ContextInv'
    <2>1. /\ round[p] = 1
          /\ \E x : keys' = [keys EXCEPT ![p][p] = x]
          /\ \E x : commonComs' = [commonComs EXCEPT ![p][p] = x]
          /\ \E x : commons' = [commons EXCEPT ![p][p] = x]
          /\ \E x : b1' = [b1 EXCEPT ![p] = x]
          /\ round' = [round EXCEPT ![p] = @ + 1]
          /\ UNCHANGED <<b2, u2, u3, pairComs, context, blamed>>
      BY <1>2 DEF Round1, Advance
    <2>2. \A r \in Honest \ {p} : SameParty(r)
      BY <1>0, <2>1 DEF Shape, SameParty, Honest
    <2>3. b1[p] = None /\ \A q \in Quorum \ {p} : b1'[q] = b1[q]
      BY <1>0, <2>1 DEF Shape, IInv, Sent
    <2>4. Grows /\ round'[p] = 2
      BY <1>0, <2>1, <2>3 DEF Grows, Shape
    <2> QED
      BY <2>2, <2>4, ContextUnfinished
  <1>3. ASSUME NEW p \in Honest, Round2(p) PROVE ContextInv'
    <2>1. /\ round[p] = 2
          /\ \E x : keys' = [keys EXCEPT ![p] = x]
          /\ \E x : commonComs' = [commonComs EXCEPT ![p] = x]
          /\ \E x : b2' = [b2 EXCEPT ![p] = x]
          /\ \E x : u2' = [u2 EXCEPT ![p] = x]
          /\ round' = [round EXCEPT ![p] = @ + 1]
          /\ UNCHANGED <<b1, u3, commons, pairComs, context, blamed>>
      BY <1>3 DEF Round2, Advance
    <2>2. \A r \in Honest \ {p} : SameParty(r)
      BY <1>0, <2>1 DEF Shape, SameParty
    <2>3. Grows /\ round'[p] = 3
      BY <1>0, <2>1 DEF Grows, Shape
    <2> QED
      BY <2>2, <2>3, ContextUnfinished
  <1>4. ASSUME NEW p \in Honest, Round2Error(p) \/ Round4Error(p) PROVE ContextInv'
    <2>1. UNCHANGED <<round, b1, b2, u2, u3, keys, commonComs, commons, pairComs, context>>
      BY <1>4 DEF Round2Error, Round4Error, wires, store
    <2>2. Grows /\ \A r \in Honest : SameParty(r)
      BY <1>0, <2>1 DEF Grows, Shape, SameParty
    <2> QED
      BY <2>2, ContextBystander DEF ContextInv
  <1>5. ASSUME NEW p \in Honest, Round3Error(p) PROVE ContextInv'
    <2>1. /\ round[p] = 3
          /\ UNCHANGED <<round, b1, b2, u2, u3, keys, commonComs, context>>
      BY <1>5 DEF Round3Error, Round3Ready, wires
    <2>2. \/ UNCHANGED <<commons, pairComs>>
          \/ /\ \E x : commons' = [commons EXCEPT ![p] = x]
             /\ \E x : pairComs' = [pairComs EXCEPT ![p] = x]
      BY <1>5 DEF Round3Error, StoreRound3
    <2>3. \A r \in Honest \ {p} : SameParty(r)
      BY <1>0, <2>1, <2>2 DEF Shape, SameParty
    <2>4. Grows /\ round'[p] = 3
      BY <1>0, <2>1 DEF Grows, Shape
    <2> QED
      BY <2>3, <2>4, ContextUnfinished
  <1> QED
    BY <1>1, <1>2, <1>3, <1>4, <1>5, ContextRound3, ContextRound4 DEF Next

LEMMA ContextInvHolds == Spec => [](IInv /\ ContextInv)
  <1>1. Init => ContextInv
    <2> SUFFICES ASSUME Init, NEW p \in Honest PROVE round[p] = 1
      BY DEF ContextInv, Opened, HasContext
    <2> QED
      BY DEF Init
  <1> QED
    BY <1>1, InitIInv, IInvStep, ContextStep, PTL DEF Spec

-----------------------------------------------------------------------------
LEMMA SameCommonSeed ==
    ASSUME IInv, ContextInv, NEW p \in Honest, NEW q \in Honest, Finished(p), Finished(q)
    PROVE  CommonSeed(p) = CommonSeed(q)
  <1>1. ASSUME NEW r \in Quorum
        PROVE  /\ keys[p][r] = keys[q][r] /\ commonComs[p][r] = commonComs[q][r]
               /\ commons[p][r] = commons[q][r]
    <2>1. round[p] >= 3 /\ round[p] >= 4 /\ round[q] >= 3 /\ round[q] >= 4
      BY DEF Finished
    <2>2. Stored(p) /\ Stored(q) /\ Opened(p) /\ Opened(q)
      BY DEF IInv, ContextInv
    <2> QED
      BY <2>1, <2>2 DEF Stored, Opened
  <1> QED
    BY <1>1 DEF CommonSeed

\* What a finished party's context consists of.
LEMMA ContextShape ==
    ASSUME IInv, ContextInv, NEW p \in Honest, Finished(p)
    PROVE  /\ context[p].common = CommonSeed(p)
           /\ context[p].tape = <<CommonSeed(p)>>
           /\ DOMAIN context[p].seeds = Others(p)
           /\ \A q \in Others(p) : \E seed :
                 context[p].seeds[q] = [ids |-> IF p < q THEN <<p, q>> ELSE <<q, p>>, seed |-> seed]
           /\ \A q \in Honest \ {p} :
                 context[p].seeds[q] = [ids  |-> IF p < q THEN <<p, q>> ELSE <<q, p>>,
                                        seed |-> PairSeed(p, q, PairValue(q, p))]
  <1>1. PICK theirs : IsContext(p, theirs)
    BY DEF ContextInv, HasContext, Finished
  <1> DEFINE seeds == [q \in Others(p) |-> PairSeed(p, q, theirs[q])]
  <1>2. context[p] = NewContext(p, CommonSeed(p), seeds)
    BY <1>1 DEF IsContext
  <1>3. \A q \in Honest \ {p} : q \in Others(p) /\ seeds[q] = PairSeed(p, q, PairValue(q, p))
    BY <1>1 DEF IsContext, Others, Honest
  <1> HIDE DEF seeds
  <1>4. /\ context[p].common = CommonSeed(p)
        /\ context[p].tape = <<CommonSeed(p)>>
        /\ context[p].seeds = [q \in Others(p) |->
              [ids |-> IF p < q THEN <<p, q>> ELSE <<q, p>>, seed |-> seeds[q]]]
    BY <1>2 DEF NewContext
  <1> QED
    BY <1>3, <1>4

\* "Both sides derive identical material."
LEMMA SameStream ==
    ASSUME IInv, ContextInv, NEW p \in Honest, NEW q \in Honest, p # q, Finished(p), Finished(q)
    PROVE  context[p].seeds[q] = context[q].seeds[p]
  <1>0. p \in Nat /\ q \in Nat
    BY SessionAssumption DEF Honest
  <1>1. CommonSeed(p) = CommonSeed(q)
    BY SameCommonSeed
  <1>2. PairSeed(p, q, PairValue(q, p)) = PairSeed(q, p, PairValue(p, q))
    BY <1>0, <1>1 DEF PairSeed
  <1>3. context[p].seeds[q] = [ids  |-> IF p < q THEN <<p, q>> ELSE <<q, p>>,
                               seed |-> PairSeed(p, q, PairValue(q, p))]
    BY ContextShape
  <1>4. context[q].seeds[p] = [ids  |-> IF q < p THEN <<q, p>> ELSE <<p, q>>,
                               seed |-> PairSeed(q, p, PairValue(p, q))]
    BY ContextShape
  <1> QED
    BY <1>0, <1>2, <1>3, <1>4

-----------------------------------------------------------------------------
(***************************************************************************)
(* Contexts derived from contexts.                                         *)
(***************************************************************************)

\* A stream of the context that a path leads to, read from a stream of the first.
Stream(base, path) ==
    IF Len(path) = 0 THEN base
    ELSE IF Len(path) = 1 THEN [from |-> base, quorum |-> path[1]]
    ELSE [from |-> [from |-> base, quorum |-> path[1]], quorum |-> path[2]]

Tape(seed, path) ==
    IF Len(path) = 0 THEN <<seed>>
    ELSE IF Len(path) = 1 THEN <<seed, path[1]>>
    ELSE <<seed, path[1], path[2]>>

Partners(p, path) ==
    IF Len(path) = 0 THEN Others(p) ELSE path[Len(path)] \ {p}

LEMMA AppendTuple ==
    ASSUME NEW x, NEW y, NEW z
    PROVE  Append(<<x>>, y) = <<x, y>> /\ Append(<<x, y>>, z) = <<x, y, z>>
  <1> DEFINE S == {x, y, z}
  <1>1. /\ <<x>> \in Seq(S) /\ <<x, y>> \in Seq(S) /\ <<x, y, z>> \in Seq(S)
        /\ Len(<<x>>) = 1 /\ Len(<<x, y>>) = 2 /\ Len(<<x, y, z>>) = 3
    OBVIOUS
  <1>2. x \in S /\ y \in S /\ z \in S
    OBVIOUS
  <1> HIDE DEF S
  <1>3. Append(<<x>>, y) = <<x, y>>
    <2>1. /\ Append(<<x>>, y) \in Seq(S) /\ Len(Append(<<x>>, y)) = 2
          /\ Append(<<x>>, y)[1] = x /\ Append(<<x>>, y)[2] = y
      BY <1>1, <1>2, AppendProperties
    <2>2. \A i \in 1 .. 2 : Append(<<x>>, y)[i] = <<x, y>>[i]
      BY <2>1
    <2> QED
      BY <1>1, <2>1, <2>2, SeqEqual
  <1>4. Append(<<x, y>>, z) = <<x, y, z>>
    <2>1. /\ Append(<<x, y>>, z) \in Seq(S) /\ Len(Append(<<x, y>>, z)) = 3
          /\ Append(<<x, y>>, z)[1] = x /\ Append(<<x, y>>, z)[2] = y /\ Append(<<x, y>>, z)[3] = z
      BY <1>1, <1>2, AppendProperties
    <2>2. \A i \in 1 .. 3 : Append(<<x, y>>, z)[i] = <<x, y, z>>[i]
      BY <2>1
    <2> QED
      BY <1>1, <2>1, <2>2, SeqEqual
  <1> QED
    BY <1>3, <1>4

LEMMA PathCases ==
    ASSUME NEW path \in Paths
    PROVE  \/ path = <<>> /\ Len(path) = 0
           \/ /\ Len(path) = 1 /\ path = <<path[1]>> /\ path[1] \in SUBSET Quorum
           \/ /\ Len(path) = 2 /\ path = <<path[1], path[2]>>
              /\ path[1] \in SUBSET Quorum /\ path[2] \in SUBSET Quorum
  <1>1. CASE path = <<>>
    BY <1>1
  <1>2. CASE \E sub \in SubQuorums : path = <<sub>>
    BY <1>2 DEF SubQuorums
  <1>3. CASE \E sub \in SubQuorums, subsub \in SubQuorums : path = <<sub, subsub>>
    BY <1>3 DEF SubQuorums
  <1> QED
    BY <1>1, <1>2, <1>3 DEF Paths

LEMMA OpenFacts ==
    ASSUME NEW p, NEW path \in Open(p)
    PROVE  /\ path \in Paths
           /\ Len(path) \in {1, 2} => p \in path[1]
           /\ Len(path) = 2 => p \in path[2] /\ path[2] \subseteq path[1]
  <1>1. /\ path \in Paths
        /\ \A i \in 1 .. Len(path) : p \in path[i]
        /\ \A i \in 2 .. Len(path) : path[i] \subseteq path[i - 1]
    BY DEF Open
  <1>2. Len(path) \in {1, 2} => p \in path[1]
    BY <1>1
  <1>3. Len(path) = 2 => p \in path[2] /\ path[2] \subseteq path[1]
    <2> SUFFICES ASSUME Len(path) = 2 PROVE p \in path[2] /\ path[2] \subseteq path[1]
      OBVIOUS
    <2>1. 2 \in 1 .. Len(path) /\ 2 \in 2 .. Len(path) /\ 2 - 1 = 1
      OBVIOUS
    <2>2. path[2] \subseteq path[2 - 1]
      BY <1>1, <2>1
    <2> QED
      BY <1>1, <2>1, <2>2
  <1> QED
    BY <1>1, <1>2, <1>3

\* The first context's streams, before any sub-context.
IsBase(s) == \E ids, seed : s = [ids |-> ids, seed |-> seed]

LEMMA WrappedIsNotBase ==
    ASSUME NEW s, IsBase(s), NEW x, NEW y
    PROVE  s # [from |-> x, quorum |-> y]
  <1>1. DOMAIN s = {"ids", "seed"}
    BY DEF IsBase
  <1>2. DOMAIN [from |-> x, quorum |-> y] = {"from", "quorum"}
    OBVIOUS
  <1>3. "ids" \notin {"from", "quorum"}
    OBVIOUS
  <1> QED
    BY <1>1, <1>2, <1>3

\* Different paths lead to different streams, and one path to different streams
\* from different ones.
LEMMA StreamInjective ==
    ASSUME NEW s, NEW t, IsBase(s), IsBase(t), NEW a \in Paths, NEW b \in Paths,
           Stream(s, a) = Stream(t, b)
    PROVE  a = b /\ s = t
  <1> DEFINE wrap(x, y) == [from |-> x, quorum |-> y]
  <1>0. \A x, y : s # wrap(x, y) /\ t # wrap(x, y)
    BY WrappedIsNotBase
  <1>00. \A x, y, v, w : wrap(x, y) = wrap(v, w) => x = v /\ y = w
    <2> TAKE x, y, v, w
    <2>1. wrap(x, y).from = x /\ wrap(x, y).quorum = y /\ wrap(v, w).from = v /\ wrap(v, w).quorum = w
      OBVIOUS
    <2> QED
      BY <2>1
  <1>1. /\ Len(a) = 0 => Stream(s, a) = s
        /\ Len(a) = 1 => Stream(s, a) = wrap(s, a[1])
        /\ Len(a) = 2 => Stream(s, a) = wrap(wrap(s, a[1]), a[2])
    BY DEF Stream
  <1>2. /\ Len(b) = 0 => Stream(t, b) = t
        /\ Len(b) = 1 => Stream(t, b) = wrap(t, b[1])
        /\ Len(b) = 2 => Stream(t, b) = wrap(wrap(t, b[1]), b[2])
    BY DEF Stream
  <1> HIDE DEF wrap
  <1>3. CASE a = <<>> /\ Len(a) = 0
    <2>1. Len(b) = 0 /\ b = <<>>
      BY <1>0, <1>1, <1>2, <1>3, PathCases
    <2> QED
      BY <1>1, <1>2, <1>3, <2>1
  <1>4. CASE Len(a) = 1 /\ a = <<a[1]>>
    <2>1. Len(b) = 1 /\ b = <<b[1]>>
      <3>1. Len(b) # 0
        BY <1>0, <1>1, <1>2, <1>4
      <3>2. Len(b) # 2
        BY <1>0, <1>00, <1>1, <1>2, <1>4
      <3> QED
        BY <3>1, <3>2, PathCases
    <2>2. wrap(s, a[1]) = wrap(t, b[1])
      BY <1>1, <1>2, <1>4, <2>1
    <2>3. s = t /\ a[1] = b[1]
      BY <1>00, <2>2
    <2> QED
      BY <1>4, <2>1, <2>3
  <1>5. CASE Len(a) = 2 /\ a = <<a[1], a[2]>>
    <2>1. Len(b) = 2 /\ b = <<b[1], b[2]>>
      <3>1. Len(b) # 0
        BY <1>0, <1>1, <1>2, <1>5
      <3>2. Len(b) # 1
        BY <1>0, <1>00, <1>1, <1>2, <1>5
      <3> QED
        BY <3>1, <3>2, PathCases
    <2>2. wrap(wrap(s, a[1]), a[2]) = wrap(wrap(t, b[1]), b[2])
      BY <1>1, <1>2, <1>5, <2>1
    <2>3. wrap(s, a[1]) = wrap(t, b[1]) /\ a[2] = b[2]
      BY <1>00, <2>2
    <2>4. s = t /\ a[1] = b[1]
      BY <1>00, <2>3
    <2> QED
      BY <1>5, <2>1, <2>3, <2>4
  <1> QED
    BY <1>3, <1>4, <1>5, PathCases

\* What a derived context consists of.
LEMMA DerivedShape ==
    ASSUME IInv, ContextInv, NEW p \in Honest, Finished(p), NEW path \in Open(p)
    PROVE  /\ Derived(p, path).common = CommonSeed(p)
           /\ Derived(p, path).tape = Tape(CommonSeed(p), path)
           /\ Derived(p, path).seeds =
                 [q \in Partners(p, path) |-> Stream(context[p].seeds[q], path)]
           /\ Partners(p, path) \subseteq Others(p)
  <1>0. /\ context[p].common = CommonSeed(p)
        /\ context[p].tape = <<CommonSeed(p)>>
        /\ DOMAIN context[p].seeds = Others(p)
    BY ContextShape
  <1>1. path \in Paths /\ (Len(path) \in {1, 2} => p \in path[1])
        /\ (Len(path) = 2 => p \in path[2] /\ path[2] \subseteq path[1])
    BY OpenFacts
  <1>2. CASE path = <<>> /\ Len(path) = 0
    <2>1. Derived(p, path) = context[p]
      BY <1>2 DEF Derived
    <2>2. \A q : Stream(context[p].seeds[q], path) = context[p].seeds[q]
      BY <1>2 DEF Stream
    <2>3. Partners(p, path) = Others(p)
      BY <1>2 DEF Partners
    <2>4. context[p].seeds = [q \in Others(p) |-> context[p].seeds[q]]
      <3>1. PICK theirs : IsContext(p, theirs)
        BY DEF ContextInv, HasContext, Finished
      <3> DEFINE seeds == [q \in Others(p) |-> PairSeed(p, q, theirs[q])]
      <3>2. context[p] = NewContext(p, CommonSeed(p), seeds)
        BY <3>1 DEF IsContext
      <3> HIDE DEF seeds
      <3>3. context[p].seeds = [q \in Others(p) |->
                [ids |-> IF p < q THEN <<p, q>> ELSE <<q, p>>, seed |-> seeds[q]]]
        BY <3>2 DEF NewContext
      <3> QED
        BY <3>3
    <2>5. Tape(CommonSeed(p), path) = <<CommonSeed(p)>>
      BY <1>2 DEF Tape
    <2> QED
      BY <1>0, <2>1, <2>2, <2>3, <2>4, <2>5
  <1>3. CASE Len(path) = 1 /\ path = <<path[1]>> /\ path[1] \in SUBSET Quorum
    <2>1. Derived(p, path) = SubContext(p, context[p], path[1])
      BY <1>3 DEF Derived
    <2>2. \A q : Stream(context[p].seeds[q], path) = [from |-> context[p].seeds[q], quorum |-> path[1]]
      BY <1>3 DEF Stream
    <2>3. Partners(p, path) = path[1] \ {p}
      BY <1>3 DEF Partners
    <2>4. /\ Derived(p, path).common = context[p].common
          /\ Derived(p, path).tape = Append(context[p].tape, path[1])
          /\ Derived(p, path).seeds = [q \in path[1] \ {p} |-> [from |-> context[p].seeds[q], quorum |-> path[1]]]
      BY <2>1 DEF SubContext
    <2>5. Tape(CommonSeed(p), path) = Append(<<CommonSeed(p)>>, path[1])
      BY <1>3, AppendTuple DEF Tape
    <2> QED
      BY <1>0, <1>3, <2>2, <2>3, <2>4, <2>5 DEF Others
  <1>4. CASE Len(path) = 2 /\ path = <<path[1], path[2]>> /\ path[1] \in SUBSET Quorum /\ path[2] \in SUBSET Quorum
    <2> DEFINE first == SubContext(p, context[p], path[1])
    <2>1. Derived(p, path) = SubContext(p, first, path[2])
      BY <1>4 DEF Derived
    <2>2. \A q : Stream(context[p].seeds[q], path) =
                   [from |-> [from |-> context[p].seeds[q], quorum |-> path[1]], quorum |-> path[2]]
      BY <1>4 DEF Stream
    <2>3. Partners(p, path) = path[2] \ {p}
      BY <1>4 DEF Partners
    <2>4. /\ first.common = context[p].common
          /\ first.tape = Append(context[p].tape, path[1])
          /\ first.seeds = [q \in path[1] \ {p} |-> [from |-> context[p].seeds[q], quorum |-> path[1]]]
      BY DEF SubContext
    <2> HIDE DEF first
    <2>5. /\ Derived(p, path).common = first.common
          /\ Derived(p, path).tape = Append(first.tape, path[2])
          /\ Derived(p, path).seeds = [q \in path[2] \ {p} |-> [from |-> first.seeds[q], quorum |-> path[2]]]
      BY <2>1 DEF SubContext
    <2>6. \A q \in path[2] \ {p} : first.seeds[q] = [from |-> context[p].seeds[q], quorum |-> path[1]]
      BY <1>1, <1>4, <2>4
    <2>7. Tape(CommonSeed(p), path) = Append(Append(<<CommonSeed(p)>>, path[1]), path[2])
      BY <1>4, AppendTuple DEF Tape
    <2>8. Derived(p, path).seeds = [q \in Partners(p, path) |-> Stream(context[p].seeds[q], path)]
      <3>1. \A q \in path[2] \ {p} :
               [from |-> first.seeds[q], quorum |-> path[2]] = Stream(context[p].seeds[q], path)
        BY <2>2, <2>6
      <3> QED
        BY <2>3, <2>5, <3>1
    <2>9. Derived(p, path).tape = Tape(CommonSeed(p), path) /\ Derived(p, path).common = CommonSeed(p)
      BY <1>0, <2>4, <2>5, <2>7
    <2> QED
      BY <1>4, <2>3, <2>8, <2>9 DEF Others
  <1> QED
    BY <1>1, <1>2, <1>3, <1>4, PathCases

\* The streams of finished parties are those of their pairs.
LEMMA StreamsMeet ==
    ASSUME IInv, ContextInv, NEW p \in Honest, NEW q \in Honest, Finished(p), Finished(q),
           NEW i \in Others(p), NEW j \in Others(q),
           context[p].seeds[i] = context[q].seeds[j]
    PROVE  \/ p = q /\ i = j
           \/ p = j /\ i = q
  <1>0. p \in Nat /\ q \in Nat /\ i \in Nat /\ j \in Nat /\ p # i /\ q # j
    BY SessionAssumption DEF Honest, Others
  <1>1. PICK v : context[p].seeds[i] = [ids |-> IF p < i THEN <<p, i>> ELSE <<i, p>>, seed |-> v]
    BY ContextShape
  <1>2. PICK w : context[q].seeds[j] = [ids |-> IF q < j THEN <<q, j>> ELSE <<j, q>>, seed |-> w]
    BY ContextShape
  <1> DEFINE mine == IF p < i THEN <<p, i>> ELSE <<i, p>>
             theirs == IF q < j THEN <<q, j>> ELSE <<j, q>>
  <1>3. mine = theirs
    <2> HIDE DEF mine, theirs
    <2>1. [ids |-> mine, seed |-> v].ids = [ids |-> theirs, seed |-> w].ids
      BY <1>1, <1>2 DEF mine, theirs
    <2> QED
      BY <2>1
  <1> QED
    BY <1>0, <1>3

LEMMA BaseStreams ==
    ASSUME IInv, ContextInv, NEW p \in Honest, Finished(p), NEW i \in Others(p)
    PROVE  IsBase(context[p].seeds[i])
  BY ContextShape DEF IsBase

\* Contexts of finished parties agree on the common seed, and on the transcript
\* exactly when they were derived along the same path; on different paths they
\* have no stream in common, whoever is corrupt.
THEOREM ContextsSeparateHolds == Spec => []ContextsSeparate
  <1>1. IInv /\ ContextInv => ContextsSeparate
    <2> SUFFICES ASSUME IInv, ContextInv, NEW p \in Honest, NEW q \in Honest, Finished(p), Finished(q),
                        NEW a \in Open(p), NEW b \in Open(q)
                 PROVE  /\ Derived(p, a).common = Derived(q, b).common
                        /\ (a = b) <=> (Derived(p, a).tape = Derived(q, b).tape)
                        /\ a # b => \A i \in DOMAIN Derived(p, a).seeds, j \in DOMAIN Derived(q, b).seeds :
                              Derived(p, a).seeds[i] # Derived(q, b).seeds[j]
      BY DEF ContextsSeparate
    <2>1. /\ Derived(p, a).common = CommonSeed(p)
          /\ Derived(p, a).tape = Tape(CommonSeed(p), a)
          /\ Derived(p, a).seeds = [i \in Partners(p, a) |-> Stream(context[p].seeds[i], a)]
          /\ Partners(p, a) \subseteq Others(p)
      BY DerivedShape
    <2>2. /\ Derived(q, b).common = CommonSeed(q)
          /\ Derived(q, b).tape = Tape(CommonSeed(q), b)
          /\ Derived(q, b).seeds = [j \in Partners(q, b) |-> Stream(context[q].seeds[j], b)]
          /\ Partners(q, b) \subseteq Others(q)
      BY DerivedShape
    <2>3. CommonSeed(p) = CommonSeed(q)
      BY SameCommonSeed
    <2>4. a \in Paths /\ b \in Paths
      BY OpenFacts
    <2>5. Tape(CommonSeed(p), a) = Tape(CommonSeed(p), b) => a = b
      <3> DEFINE seed == CommonSeed(p)
      <3> HIDE DEF seed
      <3> SUFFICES ASSUME Tape(seed, a) = Tape(seed, b) PROVE a = b
        BY DEF seed
      <3>1. CASE a = <<>> /\ Len(a) = 0
        BY <2>4, <3>1, PathCases DEF Tape
      <3>2. CASE Len(a) = 1 /\ a = <<a[1]>>
        BY <2>4, <3>2, PathCases DEF Tape
      <3>3. CASE Len(a) = 2 /\ a = <<a[1], a[2]>>
        BY <2>4, <3>3, PathCases DEF Tape
      <3> QED
        BY <2>4, <3>1, <3>2, <3>3, PathCases
    <2>6. ASSUME a # b, NEW i \in Partners(p, a), NEW j \in Partners(q, b),
                 Derived(p, a).seeds[i] = Derived(q, b).seeds[j]
          PROVE  FALSE
      <3>1. Stream(context[p].seeds[i], a) = Stream(context[q].seeds[j], b)
        BY <2>1, <2>2, <2>6
      <3>2. IsBase(context[p].seeds[i]) /\ IsBase(context[q].seeds[j])
        BY <2>1, <2>2, BaseStreams
      <3> QED
        BY <2>4, <2>6, <3>1, <3>2, StreamInjective
    <2> QED
      BY <2>1, <2>2, <2>3, <2>5, <2>6
  <1> QED
    BY <1>1, ContextInvHolds, PTL

\* What two honest parties add for each other cancels, in every context they
\* have in common, and nothing else does, whoever is corrupt.
THEOREM PairwiseSharesCancelHolds == Spec => []PairwiseSharesCancel
  <1>1. ASSUME IInv, ContextInv, NEW p \in Honest, NEW q \in Honest, p # q, Finished(p), Finished(q),
               NEW path \in Open(p) \cap Open(q)
        PROVE  LET mine   == SampleZeroShare(p, Derived(p, path))
                   theirs == SampleZeroShare(q, Derived(q, path))
                   common == mine \cap Negated(theirs)
               IN  /\ Cardinality(common) = 1
                   /\ common = {e \in mine : e.stream = Derived(p, path).seeds[q]}
                   /\ mine \cap theirs = {}
    <2> DEFINE mine   == SampleZeroShare(p, Derived(p, path))
               theirs == SampleZeroShare(q, Derived(q, path))
               common == mine \cap Negated(theirs)
               term(r, i) == [stream |-> Stream(context[r].seeds[i], path), sign |-> IF i < r THEN 0 - 1 ELSE 1]
    <2>0. p \in Nat /\ q \in Nat /\ p \in Quorum /\ q \in Quorum
      BY SessionAssumption DEF Honest
    <2>1. /\ Derived(p, path).seeds = [i \in Partners(p, path) |-> Stream(context[p].seeds[i], path)]
          /\ Partners(p, path) \subseteq Others(p)
          /\ Derived(q, path).seeds = [i \in Partners(q, path) |-> Stream(context[q].seeds[i], path)]
          /\ Partners(q, path) \subseteq Others(q)
      BY <1>1, DerivedShape
    <2>2. path \in Paths /\ q \in Partners(p, path) /\ p \in Partners(q, path)
      <3>1. path \in Paths /\ (Len(path) \in {1, 2} => p \in path[1]) /\ (Len(path) = 2 => p \in path[2])
        BY <1>1, OpenFacts
      <3>2. (Len(path) \in {1, 2} => q \in path[1]) /\ (Len(path) = 2 => q \in path[2])
        BY <1>1, OpenFacts
      <3>3. Len(path) = 0 \/ Len(path) = 1 \/ Len(path) = 2
        BY <3>1, PathCases
      <3> QED
        BY <1>1, <2>0, <3>1, <3>2, <3>3 DEF Partners, Others
    <2>3. \A e : e \in mine <=> \E i \in Partners(p, path) : e = term(p, i)
      BY <2>1 DEF SampleZeroShare
    <2>4. \A e : e \in theirs <=> \E j \in Partners(q, path) : e = term(q, j)
      BY <2>1 DEF SampleZeroShare
    <2>5. ASSUME NEW i \in Partners(p, path), NEW j \in Partners(q, path),
                 term(p, i).stream = term(q, j).stream
          PROVE  i = q /\ j = p
      <3>1. Stream(context[p].seeds[i], path) = Stream(context[q].seeds[j], path)
        BY <2>5
      <3>2. i \in Others(p) /\ j \in Others(q)
        BY <2>1
      <3>3. context[p].seeds[i] = context[q].seeds[j]
        BY <1>1, <2>2, <3>1, <3>2, BaseStreams, StreamInjective
      <3> QED
        BY <1>1, <3>2, <3>3, StreamsMeet
    <2>6. /\ term(p, q).stream = term(q, p).stream
          /\ term(p, q).sign = 0 - term(q, p).sign
          /\ term(p, q).sign # term(q, p).sign
      BY <1>1, <2>0, SameStream
    <2>7. ASSUME NEW i \in Partners(p, path), term(p, i).stream = term(p, q).stream
          PROVE  i = q
      BY <2>2, <2>5, <2>6, <2>7
    <2>8. \A r, i : term(r, i) = [stream |-> term(r, i).stream, sign |-> term(r, i).sign]
      OBVIOUS
    <2>9. Derived(p, path).seeds[q] = term(p, q).stream
      BY <2>1, <2>2
    <2> HIDE DEF mine, theirs, common, term
    <2>10. \A e : e \in Negated(theirs) <=>
                 \E j \in Partners(q, path) : e = [stream |-> term(q, j).stream, sign |-> 0 - term(q, j).sign]
      <3> DEFINE neg(e) == [e EXCEPT !.sign = 0 - @]
      <3>1. \A j : neg(term(q, j)) = [stream |-> term(q, j).stream, sign |-> 0 - term(q, j).sign]
        BY <2>8
      <3>2. Negated(theirs) = {neg(e) : e \in theirs}
        BY DEF Negated
      <3> HIDE DEF neg
      <3>3. \A e : e \in Negated(theirs) <=> \E j \in Partners(q, path) : e = neg(term(q, j))
        BY <2>4, <3>2
      <3> QED
        BY <3>1, <3>3
    <2>11. common = {term(p, q)}
      <3>1. term(p, q) \in common
        <4>1. term(p, q) = [stream |-> term(q, p).stream, sign |-> 0 - term(q, p).sign]
          BY <2>6, <2>8
        <4> QED
          BY <2>2, <2>3, <2>10, <4>1 DEF common
      <3>2. ASSUME NEW e \in common PROVE e = term(p, q)
        <4>1. PICK i \in Partners(p, path) : e = term(p, i)
          BY <2>3 DEF common
        <4>2. PICK j \in Partners(q, path) : e = [stream |-> term(q, j).stream, sign |-> 0 - term(q, j).sign]
          BY <2>10 DEF common
        <4>3. term(p, i).stream = term(q, j).stream
          BY <4>1, <4>2
        <4> QED
          BY <2>5, <4>1, <4>3
      <3> QED
        BY <3>1, <3>2
    <2>12. {e \in mine : e.stream = Derived(p, path).seeds[q]} = {term(p, q)}
      <3>1. term(p, q) \in mine
        BY <2>2, <2>3
      <3>2. ASSUME NEW e \in mine, e.stream = term(p, q).stream PROVE e = term(p, q)
        <4>1. PICK i \in Partners(p, path) : e = term(p, i)
          BY <2>3
        <4> QED
          BY <2>7, <3>2, <4>1
      <3> QED
        BY <2>9, <3>1, <3>2
    <2>13. mine \cap theirs = {}
      <3> SUFFICES ASSUME NEW e \in mine, e \in theirs PROVE FALSE
        OBVIOUS
      <3>1. PICK i \in Partners(p, path) : e = term(p, i)
        BY <2>3
      <3>2. PICK j \in Partners(q, path) : e = term(q, j)
        BY <2>4
      <3>3. i = q /\ j = p
        BY <2>5, <3>1, <3>2
      <3> QED
        BY <2>6, <3>1, <3>2, <3>3
    <2>14. Cardinality(common) = 1
      BY <2>11, FS_Singleton
    <2> QED
      BY <2>11, <2>12, <2>13, <2>14 DEF mine, theirs, common
  <1>2. IInv /\ ContextInv => PairwiseSharesCancel
    BY <1>1 DEF PairwiseSharesCancel
  <1> QED
    BY <1>2, ContextInvHolds, PTL
=============================================================================
