----------------------------- MODULE GennaroDKG -----------------------------
(***************************************************************************)
(* pkg/mpc/dkg/gennaro: every party deals a Pedersen sharing with a proof  *)
(* that it can open the commitments; once all shares are verified it       *)
(* publishes the Feldman vector of the same column with a proof of its     *)
(* discrete logarithms, and the others hold their shares against it.       *)
(*                                                                         *)
(* A proved Pedersen vector determines one column, and with it one share   *)
(* for every party that Verify accepts.  A Feldman vector is the set of    *)
(* parties whose share it fits: everybody for the vector of the committed  *)
(* column, and for any other vector a set the access structure does not    *)
(* qualify.  That is exact when the rows of every qualified set determine  *)
(* the column, as those of a threshold structure do.  Under (A and B) or   *)
(* (C and D) a second vector with the same secret fits the shares of A and *)
(* B and not those of C; such vectors are not modelled.  Both go over the  *)
(* consistent broadcast of pkg/network/echo.                               *)
(***************************************************************************)
EXTENDS Dealings

\* What Round1 and Round2 broadcast: a vector with its proof.
Kinds == {"malformed", "unproved", "proved"}

\* Mutated form: a vector may be longer than the MSP is wide.
Feldman_AnyLength == [kind : Kinds, fits : SUBSET Quorum]

Feldman == [kind : Kinds, fits : {Quorum} \cup ((SUBSET Quorum) \ Qualified)]

VARIABLES
    round,             \* Participant.round
    pedersen,          \* kind of each Round1Broadcast, None before it
    feldman,           \* each Round2Broadcast
    receivedShares,    \* State.receivedShares: the dealers whose share is stored
    summedShareValue,  \* State.summedShareValue
    shard,             \* the vectors summed up in the shard Round3 returned
    calls,
    blamed,            \* <<accuser, culprit>> of every error tagged with a party
    untagged           \* parties that met an error without a culprit

vars == <<round, pedersen, feldman, receivedShares, summedShareValue, shard, calls,
          blamed, untagged>>

Init ==
    /\ round = [p \in Honest |-> 1]
    /\ pedersen = [q \in Quorum |-> None]
    /\ feldman = [q \in Quorum |-> None]
    /\ receivedShares = [p \in Honest |-> {}]
    /\ summedShareValue = [p \in Honest |-> Nothing]
    /\ shard = [p \in Honest |-> None]
    /\ calls = [p \in Honest |-> [r \in {2, 3} |-> 0]]
    /\ blamed = {}
    /\ untagged = {}

Round1(p) ==
    /\ round[p] = 1
    /\ pedersen' = [pedersen EXCEPT ![p] = "proved"]
    /\ round' = [round EXCEPT ![p] = 2]
    /\ UNCHANGED <<feldman, receivedShares, summedShareValue, shard, calls, blamed, untagged>>

CorruptDeal(c, kind) ==
    /\ pedersen[c] = None
    /\ pedersen' = [pedersen EXCEPT ![c] = kind]
    /\ UNCHANGED <<round, feldman, receivedShares, summedShareValue, shard, calls, blamed,
                   untagged>>

CorruptPublish(c, vector) ==
    /\ feldman[c] = None
    /\ feldman' = [feldman EXCEPT ![c] = vector]
    /\ UNCHANGED <<round, pedersen, receivedShares, summedShareValue, shard, calls, blamed,
                   untagged>>

-----------------------------------------------------------------------------
\* What p makes of the shares it is handed, which may differ from call to call.
HandedShares(p) ==
    {[q \in Others(p) |-> IF q \in Corrupt THEN forged[q] ELSE "right"]
        : forged \in [Corrupt -> {"malformed", "wrong", "right"}]}

Dealt(p) == [q \in Others(p) |-> pedersen[q]]

\* The dealers whose proof or share does not verify.
Refuted2(p, shares) == With(Dealt(p), "unproved") \cup With(shares, "wrong")

Malformed2(p, shares) ==
    IF With(Dealt(p), "malformed") # {} THEN With(Dealt(p), "malformed")
    ELSE With(shares, "malformed")

Round2Reject(p, shares) ==
    /\ Malformed2(p, shares) # {}
    /\ blamed' = blamed \cup {<<p, First(Malformed2(p, shares))>>}
    /\ UNCHANGED <<round, feldman, receivedShares, summedShareValue>>

\* Mutated form: the sum goes on from where the last call left it.
StartOfSum_Kept(p) ==
    IF summedShareValue[p] = Nothing THEN Add(Nothing, {p}) ELSE summedShareValue[p]

\* Every call starts with a copy of the local share.
StartOfSum(p) == Add(Nothing, {p})

\* The loop stops at the first dealer it refutes; what was stored stays.
Round2Abort(p, shares) ==
    LET culprit == First(Refuted2(p, shares))
    IN  /\ Malformed2(p, shares) = {}
        /\ Refuted2(p, shares) # {}
        /\ receivedShares' = [receivedShares EXCEPT ![p] = @ \cup Before(p, culprit)]
        /\ summedShareValue' =
              [summedShareValue EXCEPT ![p] = Add(StartOfSum(p), Before(p, culprit))]
        /\ blamed' = blamed \cup {<<p, culprit>>}
        /\ UNCHANGED <<round, feldman>>

Round2Publish(p, shares) ==
    /\ Malformed2(p, shares) = {}
    /\ Refuted2(p, shares) = {}
    /\ receivedShares' = [receivedShares EXCEPT ![p] = Others(p)]
    /\ summedShareValue' = [summedShareValue EXCEPT ![p] = Add(StartOfSum(p), Others(p))]
    /\ feldman' = [feldman EXCEPT ![p] = [kind |-> "proved", fits |-> Quorum]]
    /\ round' = [round EXCEPT ![p] = 3]
    /\ UNCHANGED blamed

Round2(p) ==
    /\ round[p] = 2
    /\ calls[p][2] < MaxCalls
    /\ \A q \in Others(p) : pedersen[q] # None
    /\ \E shares \in HandedShares(p) :
          Round2Reject(p, shares) \/ Round2Abort(p, shares) \/ Round2Publish(p, shares)
    /\ calls' = [calls EXCEPT ![p][2] = @ + 1]
    /\ UNCHANGED <<pedersen, shard, untagged>>

-----------------------------------------------------------------------------
\* The dealers whose proof or whose share, against the Feldman vector, fails.
Refuted3(p) ==
    {q \in Others(p) : feldman[q].kind = "unproved" \/ p \notin feldman[q].fits}

Malformed3(p) == {q \in Others(p) : feldman[q].kind = "malformed"}

\* NewBaseShard: the sum of the shares fits the sum of the vectors.
NewBaseShardAccepts(p) ==
    summedShareValue[p] = Once /\ \A q \in Quorum : p \in feldman[q].fits

Round3Output(p) ==
    /\ Malformed3(p) \cup Refuted3(p) = {}
    /\ IF NewBaseShardAccepts(p)
       THEN /\ shard' = [shard EXCEPT ![p] = [q \in Quorum |-> feldman[q].fits]]
            /\ round' = [round EXCEPT ![p] = 4]
            /\ UNCHANGED untagged
       ELSE /\ untagged' = untagged \cup {p}
            /\ UNCHANGED <<round, shard>>
    /\ UNCHANGED blamed

Round3Abort(p) ==
    /\ Malformed3(p) \cup Refuted3(p) # {}
    /\ blamed' = blamed \cup
          {<<p, First(IF Malformed3(p) # {} THEN Malformed3(p) ELSE Refuted3(p))>>}
    /\ UNCHANGED <<round, shard, untagged>>

Round3(p) ==
    /\ round[p] = 3
    /\ calls[p][3] < MaxCalls
    /\ \A q \in Others(p) : feldman[q] # None
    /\ Round3Output(p) \/ Round3Abort(p)
    /\ calls' = [calls EXCEPT ![p][3] = @ + 1]
    /\ UNCHANGED <<pedersen, feldman, receivedShares, summedShareValue>>

Next ==
    \/ \E p \in Honest : Round1(p) \/ Round2(p) \/ Round3(p)
    \/ \E c \in Corrupt :
          \/ \E kind \in Kinds : CorruptDeal(c, kind)
          \/ \E vector \in Feldman : CorruptPublish(c, vector)

Spec == Init /\ [][Next]_vars

-----------------------------------------------------------------------------
\* Types of the state.
TypeOK ==
    /\ round \in [Honest -> 1 .. 4]
    /\ pedersen \in [Quorum -> Kinds \cup {None}]
    /\ feldman \in [Quorum -> Feldman \cup {None}]
    /\ receivedShares \in [Honest -> SUBSET Quorum]
    /\ summedShareValue \in [Honest -> [Quorum -> Nat]]
    /\ shard \in [Honest -> [Quorum -> SUBSET Quorum] \cup {None}]
    /\ calls \in [Honest -> [{2, 3} -> 0 .. MaxCalls]]
    /\ blamed \subseteq Honest \X Quorum
    /\ untagged \subseteq Honest

\* README of gennaro: "all parties' shards share the same Feldman verification
\* vector and reconstruct to the same secret".  When the parties that hold a
\* shard can reconstruct, the key is the one that was fixed by the Pedersen
\* commitments of round 1, before any Feldman vector was known.
KeyIsCommitted ==
    LET holders == {p \in Honest : shard[p] # None}
    IN  /\ \A p, q \in holders : shard[p] = shard[q]
        /\ holders \in Qualified => \A p \in holders, q \in Quorum : shard[p][q] = Quorum

\* README of gennaro: "Aborts are identifiable".  Whatever corrupt parties
\* send, and although failed calls are repeated, a party is named in every
\* abort, and never an honest one.
AbortsAreIdentifiable ==
    /\ untagged = {}
    /\ \A b \in blamed : b[2] \in Corrupt
=============================================================================
