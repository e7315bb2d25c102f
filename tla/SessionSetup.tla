----------------------------- MODULE SessionSetup -----------------------------
(***************************************************************************)
(* pkg/mpc/session: the four rounds that give a quorum a common seed (from *)
(* which NewContext derives session ID and transcript) and one seed for    *)
(* each pair of parties.                                                   *)
(*                                                                         *)
(* A value sampled by an honest party is a token that names who drew it    *)
(* and what for, so a value that ends up in the wrong place shows.  Hash   *)
(* commitments are ideal: a commitment is the key, value and witness it    *)
(* was made from.  Round 1 goes over consistent broadcast (module          *)
(* ConsistentBroadcast); every other message of a corrupt party is chosen  *)
(* anew at each call that reads it.  A round that returned an error may be *)
(* called again, since the code leaves the round number as it was.         *)
(***************************************************************************)
EXTENDS Naturals, FiniteSets

CONSTANTS
    Quorum,       \* sharing IDs, ordered as numbers
    Corrupt,
    Forged,       \* values a corrupt party commits to
    Witnesses,
    Unopenable,   \* a commitment that opens to nothing
    Malformed,    \* a message Validate rejects: nil, or with a zero field
    None,
    MaxErrors     \* bound on the failed calls of one participant

ASSUME SessionAssumption ==
    /\ Quorum \subseteq Nat \ {0}
    /\ IsFiniteSet(Quorum)
    /\ Cardinality(Quorum) >= 2
    /\ Corrupt \subseteq Quorum
    /\ MaxErrors \in Nat

Honest == Quorum \ Corrupt
Others(p) == Quorum \ {p}

CommonKey == <<"common">>  \* commonCommitmentKey

\* Mutated form: the fixed key serves for the pairwise commitments, too.
Key_Fixed(id) == CommonKey

Key(id) == <<"ck", id>>
CommonValue(p) == <<"common", p>>
PairValue(p, q) == <<"pair", p, q>>
HonestWitness(value) == <<"witness", value>>

Commit(key, value, witness) == [key |-> key, value |-> value, witness |-> witness]
Opening(value, witness) == [value |-> value, witness |-> witness]
Opens(key, commitment, opening) ==
    commitment = Commit(key, opening.value, opening.witness)

Openings == {Opening(v, w) : v \in Forged, w \in Witnesses}
CommitmentsUnder(key) == {Commit(key, o.value, o.witness) : o \in Openings} \cup {Unopenable}

\* What honest parties draw, and every opening anybody may send.
Tokens == {CommonValue(p) : p \in Quorum} \cup {PairValue(p, q) : p \in Quorum, q \in Quorum}
AllKeys == {CommonKey} \cup {Key(p) : p \in Quorum}
AllOpenings == Openings \cup {Opening(value, HonestWitness(value)) : value \in Tokens}

\* Nobody guesses what an honest party draws, and what is drawn passes Validate,
\* which rejects zero values only.
ASSUME SamplingAssumption ==
    /\ Forged \cap Tokens = {}
    /\ AllOpenings \cap {None, Malformed} = {}
    /\ \A key \in AllKeys, o \in AllOpenings :
          /\ Commit(key, o.value, o.witness) \notin {None, Malformed, Unopenable}
          /\ [ck |-> key, commitment |-> Commit(CommonKey, o.value, o.witness)]
                \notin {None, Malformed}

VARIABLES
    round,      \* Participant.round
    errors,     \* failed calls so far
    b1,         \* Round1Broadcast delivered for each party: [ck, commitment]
    b2,         \* Round2Broadcast of each honest party: an opening
    u2,         \* u2[p][q]: Round2P2P from honest p to q, a commitment
    u3,         \* u3[p][q]: Round3P2P from honest p to q, an opening
    keys,       \* commitmentKeys
    commonComs, \* commonContributionCommitments
    commons,    \* commonContributions and commonContributionWitnesses
    pairComs,   \* pairwiseContributionCommitments
    context,    \* what Round4 returned
    blamed      \* <<accuser, culprit>> of every error tagged with a party

store == <<keys, commonComs, commons, pairComs>>
wires == <<b1, b2, u2, u3>>
vars == <<round, errors, b1, b2, u2, u3, keys, commonComs, commons, pairComs,
          context, blamed>>

PerPeer(x) == [p \in Honest |-> [q \in Quorum |-> x]]

Init ==
    /\ round = [p \in Honest |-> 1]
    /\ errors = [p \in Honest |-> 0]
    /\ b1 = [q \in Quorum |-> None]
    /\ b2 = [p \in Honest |-> None]
    /\ u2 = PerPeer(None)
    /\ u3 = PerPeer(None)
    /\ keys = PerPeer(None)
    /\ commonComs = PerPeer(None)
    /\ commons = PerPeer(None)
    /\ pairComs = PerPeer(None)
    /\ context = [p \in Honest |-> None]
    /\ blamed = {}

Advance(p) == round' = [round EXCEPT ![p] = @ + 1]

\* An error tagged with culprit, or without a tag when nobody is to blame.
Error(p, culprit) ==
    /\ errors[p] < MaxErrors
    /\ errors' = [errors EXCEPT ![p] = @ + 1]
    /\ blamed' = blamed \cup {<<p, culprit>>}

\* Every loop over the other parties goes in ID order and stops at the first.
First(S) == CHOOSE q \in S : \A id \in S : q <= id

\* What p is handed in a round: of honest parties what they sent, of corrupt
\* ones what forged says.
Handed(sentBy, forged, p) ==
    [q \in Others(p) |-> IF q \in Corrupt THEN forged[q] ELSE sentBy[q]]

-----------------------------------------------------------------------------
Round1(p) ==
    /\ round[p] = 1
    /\ LET value == CommonValue(p)
           com   == Commit(CommonKey, value, HonestWitness(value))
       IN  /\ keys' = [keys EXCEPT ![p][p] = Key(p)]
           /\ commonComs' = [commonComs EXCEPT ![p][p] = com]
           /\ commons' = [commons EXCEPT ![p][p] = Opening(value, HonestWitness(value))]
           /\ b1' = [b1 EXCEPT ![p] = [ck |-> Key(p), commitment |-> com]]
    /\ Advance(p)
    /\ UNCHANGED <<errors, b2, u2, u3, pairComs, context, blamed>>

\* What corrupt parties have seen and may send on as their own: keys and
\* commitments of round 1, and what honest parties sent to them.
Drawn == {q \in Honest : b1[q] # None}
SeenKeys == {b1[q].ck : q \in Drawn}
SeenCommitments ==
    ({b1[q].commitment : q \in Drawn} \cup {u2[q][c] : q \in Honest, c \in Corrupt}) \ {None}
SeenOpenings == ({b2[q] : q \in Honest} \cup {u3[q][c] : q \in Honest, c \in Corrupt}) \ {None}

\* A corrupt party's round-1 broadcast is fixed by its first delivery; its key
\* is any key, its commitment any commitment, somebody else's included.
CorruptRound1(c) ==
    /\ b1[c] = None
    /\ \E msg \in [ck : {Key(c), CommonKey} \cup SeenKeys,
                   commitment : CommitmentsUnder(CommonKey) \cup SeenCommitments]
                     \cup {Malformed} :
          b1' = [b1 EXCEPT ![c] = msg]
    /\ UNCHANGED <<round, errors, b2, u2, u3, store, context, blamed>>

\* Mutated form: pairwise contributions are committed to under the own key.
Round2_OwnKey(p) ==
    /\ round[p] = 2
    /\ \A q \in Others(p) : b1[q] \notin {None, Malformed}
    /\ keys' = [keys EXCEPT ![p] = [q \in Quorum |-> b1[q].ck]]
    /\ commonComs' = [commonComs EXCEPT ![p] = [q \in Quorum |-> b1[q].commitment]]
    /\ b2' = [b2 EXCEPT ![p] = commons[p][p]]
    /\ u2' = [u2 EXCEPT ![p] = [q \in Quorum |->
           IF q = p THEN None
           ELSE LET value == PairValue(p, q)
                IN  Commit(keys[p][p], value, HonestWitness(value))]]
    /\ Advance(p)
    /\ UNCHANGED <<errors, b1, u3, commons, pairComs, context, blamed>>

Round2(p) ==
    /\ round[p] = 2
    /\ \A q \in Others(p) : b1[q] \notin {None, Malformed}
    /\ keys' = [keys EXCEPT ![p] = [q \in Quorum |-> b1[q].ck]]
    /\ commonComs' = [commonComs EXCEPT ![p] = [q \in Quorum |-> b1[q].commitment]]
    /\ b2' = [b2 EXCEPT ![p] = commons[p][p]]
    /\ u2' = [u2 EXCEPT ![p] = [q \in Quorum |->
           IF q = p THEN None
           ELSE LET value == PairValue(p, q)
                IN  Commit(b1[q].ck, value, HonestWitness(value))]]
    /\ Advance(p)
    /\ UNCHANGED <<errors, b1, u3, commons, pairComs, context, blamed>>

Round2Error(p) ==
    /\ round[p] = 2
    /\ \A q \in Others(p) : b1[q] # None
    /\ LET malformed == {q \in Others(p) : b1[q] = Malformed}
       IN  malformed # {} /\ Error(p, First(malformed))
    /\ UNCHANGED <<round, wires, store, context>>

-----------------------------------------------------------------------------
\* The inputs of Round3 for p: round-2 broadcasts and unicasts.
Round3Inputs(p) ==
    {[b |-> Handed(b2, fb, p), u |-> Handed([q \in Honest |-> u2[q][p]], fu, p)]
        : fb \in [Corrupt -> Openings \cup SeenOpenings \cup {Malformed}],
          fu \in [Corrupt -> CommitmentsUnder(Key(p)) \cup SeenCommitments \cup {Malformed}]}

Round3Ready(p) ==
    /\ round[p] = 3
    /\ \A q \in Honest \ {p} : b2[q] # None

BadCommon(p, in) == {q \in Others(p) : ~Opens(CommonKey, commonComs[p][q], in.b[q])}

\* All broadcasts are validated before the first unicast.
MalformedIn(p, in) ==
    LET broadcasts == {q \in Others(p) : in.b[q] = Malformed}
    IN  IF broadcasts # {} THEN broadcasts ELSE {q \in Others(p) : in.u[q] = Malformed}

\* Store what came from the parties in ids, as the loop of Round3 does.
StoreRound3(p, in, ids) ==
    /\ commons' = [commons EXCEPT ![p] =
           [q \in Quorum |-> IF q \in ids THEN in.b[q] ELSE @[q]]]
    /\ pairComs' = [pairComs EXCEPT ![p] =
           [q \in Quorum |-> IF q \in ids THEN in.u[q] ELSE @[q]]]

Round3(p) ==
    /\ Round3Ready(p)
    /\ \E in \in Round3Inputs(p) :
          /\ MalformedIn(p, in) = {}
          /\ BadCommon(p, in) = {}
          /\ StoreRound3(p, in, Others(p))
    /\ u3' = [u3 EXCEPT ![p] = [q \in Quorum |->
           IF q = p THEN None
           ELSE LET value == PairValue(p, q) IN Opening(value, HonestWitness(value))]]
    /\ Advance(p)
    /\ UNCHANGED <<errors, b1, b2, u2, keys, commonComs, context, blamed>>

\* The first bad opening in ID order ends the call; the parties before it
\* have been stored.
Round3Error(p) ==
    /\ Round3Ready(p)
    /\ \E in \in Round3Inputs(p) :
          \/ /\ MalformedIn(p, in) # {}
             /\ Error(p, First(MalformedIn(p, in)))
             /\ UNCHANGED <<commons, pairComs>>
          \/ /\ MalformedIn(p, in) = {}
             /\ BadCommon(p, in) # {}
             /\ LET q == First(BadCommon(p, in))
                IN  /\ Error(p, q)
                    /\ StoreRound3(p, in, {id \in Others(p) : id < q})
    /\ UNCHANGED <<round, wires, keys, commonComs, context>>

-----------------------------------------------------------------------------
Round4Inputs(p) ==
    {Handed([q \in Honest |-> u3[q][p]], f, p) : f \in [Corrupt -> Openings \cup SeenOpenings \cup {Malformed}]}

Round4Ready(p) ==
    /\ round[p] = 4
    /\ \A q \in Honest \ {p} : u3[q][p] # None

\* Mutated form: pairwise openings are checked under the sender's key.
BadPair_SenderKey(p, in) ==
    {q \in Others(p) : ~Opens(keys[p][q], pairComs[p][q], in[q])}

BadPair(p, in) == {q \in Others(p) : ~Opens(keys[p][p], pairComs[p][q], in[q])}

\* The bytes hashed for the common seed, in ID order.
CommonSeed(p) ==
    [q \in Quorum |-> [ck |-> keys[p][q], commitment |-> commonComs[p][q],
                       opening |-> commons[p][q]]]

PairSeed(p, q, theirs) ==
    IF p < q THEN <<CommonSeed(p), PairValue(p, q), theirs>>
             ELSE <<CommonSeed(p), theirs, PairValue(p, q)>>

\* Session ID and transcript come from a hash of the common seed, the stream
\* shared with q from a hash of the two IDs and the pairwise seed.
NewContext(p, commonSeed, pairwiseSeeds) ==
    [common |-> commonSeed,
     tape   |-> <<commonSeed>>,
     seeds  |-> [q \in Others(p) |->
        [ids |-> IF p < q THEN <<p, q>> ELSE <<q, p>>, seed |-> pairwiseSeeds[q]]]]

Round4(p) ==
    /\ Round4Ready(p)
    /\ \E in \in Round4Inputs(p) :
          /\ \A q \in Others(p) : in[q] # Malformed
          /\ BadPair(p, in) = {}
          /\ context' = [context EXCEPT ![p] =
                NewContext(p, CommonSeed(p),
                           [q \in Others(p) |-> PairSeed(p, q, in[q].value)])]
    /\ Advance(p)
    /\ UNCHANGED <<errors, wires, store, blamed>>

Round4Error(p) ==
    /\ Round4Ready(p)
    /\ \E in \in Round4Inputs(p) :
          LET malformed == {q \in Others(p) : in[q] = Malformed}
          IN  \/ malformed # {} /\ Error(p, First(malformed))
              \/ malformed = {} /\ BadPair(p, in) # {} /\ Error(p, First(BadPair(p, in)))
    /\ UNCHANGED <<round, wires, store, context>>

Next ==
    \/ \E p \in Honest :
          \/ Round1(p) \/ Round2(p) \/ Round3(p) \/ Round4(p)
          \/ Round2Error(p) \/ Round3Error(p) \/ Round4Error(p)
    \/ \E c \in Corrupt : CorruptRound1(c)

Spec == Init /\ [][Next]_vars

-----------------------------------------------------------------------------
Finished(p) == round[p] = 5

\* "Independent pairwise pseudorandom streams with every other participant": no
\* two pairs that include an honest party have the same seed, already before
\* NewContext adds the IDs, and also when a party passes one partner's
\* contribution on to the other as its own.  What stops it is that contributions
\* to different parties are committed to under different keys.  It takes two such
\* parties, both with an honest party's key as their own, to make two seeds equal;
\* then only the IDs keep the streams apart.
PairwiseDistinct ==
    \A p, q \in Honest : Finished(p) /\ Finished(q) =>
        \A i \in Others(p), j \in Others(q) :
            {p, i} # {q, j} => context[p].seeds[i].seed # context[q].seeds[j].seed

\* Only parties that deviate are named in an identifiable abort.
BlameIsJust == \A b \in blamed : b[2] \in Corrupt

\* A pairwise seed between honest parties holds the value each of them drew
\* for the other, and was committed to before either value was opened.
PairCommittedFirst ==
    [][\A p, q \in Honest : p # q /\ u3'[p][q] # None =>
          /\ pairComs'[p][q] = u2[q][p]
          /\ Opens(Key(q), u2[p][q], u3'[p][q])]_vars

\* Types of the state; past Round3 a party holds a valid contribution and
\* commitment of everybody, and a context exactly when it has finished.
TypeOK ==
    /\ round \in [Honest -> 1 .. 5]
    /\ errors \in [Honest -> 0 .. MaxErrors]
    /\ \A p \in Honest : round[p] > 3 => \A q \in Others(p) :
          /\ commons[p][q] \notin {None, Malformed}
          /\ pairComs[p][q] \notin {None, Malformed}
    /\ \A p \in Honest : Finished(p) <=> context[p] # None
    /\ blamed \subseteq Honest \X Quorum
=============================================================================
