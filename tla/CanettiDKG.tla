----------------------------- MODULE CanettiDKG -----------------------------
(***************************************************************************)
(* pkg/mpc/dkg/canetti: every party deals a Feldman sharing, commits to    *)
(* its verification vector, opens it, sends the shares, and proves         *)
(* knowledge of its column under a challenge made from everybody's rho.    *)
(*                                                                         *)
(* rho is an XOR: a formal sum modulo 2.  Commitments are ideal and go    *)
(* over the consistent broadcast of pkg/network/echo: what a corrupt party *)
(* opens later is the one message it committed to, or nothing that opens.  *)
(*                                                                         *)
(* A round that returns an error leaves the round counter alone, and the   *)
(* caller may call it again with other messages.                           *)
(***************************************************************************)
EXTENDS Dealings

Xor(sum, ids) == [q \in Quorum |-> IF q \in ids THEN 1 - sum[q] ELSE sum[q]]

VARIABLES
    round,               \* Participant.round
    committed,           \* what was broadcast for V: "none", "empty" or "sealed"
    opened,              \* honest parties whose Round2 messages are out
    verificationVector,  \* state.verificationVector
    rho,                 \* state.rho
    share,               \* state.share
    proof,               \* the rho under which an honest party's Psi was made
    spent,               \* the verifier contexts that already took part in a zkVrfy
    shard,               \* the vector of the shard Round4 returned
    calls,               \* calls of Round3 and of Round4 made
    blamed,              \* <<accuser, culprit>> of every error tagged with a party
    untagged             \* parties that met an error without a culprit

vars == <<round, committed, opened, verificationVector, rho, share, proof, spent,
          shard, calls, blamed, untagged>>

Init ==
    /\ round = [p \in Honest |-> 1]
    /\ committed = [q \in Quorum |-> "none"]
    /\ opened = {}
    /\ verificationVector = [p \in Honest |-> Nothing]
    /\ rho = [p \in Honest |-> Nothing]
    /\ share = [p \in Honest |-> Nothing]
    /\ proof = [p \in Honest |-> None]
    /\ spent = [p \in Honest |-> {}]
    /\ shard = [p \in Honest |-> None]
    /\ calls = [p \in Honest |-> [r \in {3, 4} |-> 0]]
    /\ blamed = {}
    /\ untagged = {}

Round1(p) ==
    /\ round[p] = 1
    /\ verificationVector' = [verificationVector EXCEPT ![p] = Add(Nothing, {p})]
    /\ rho' = [rho EXCEPT ![p] = Xor(Nothing, {p})]
    /\ committed' = [committed EXCEPT ![p] = "sealed"]
    /\ round' = [round EXCEPT ![p] = 2]
    /\ UNCHANGED <<opened, share, proof, spent, shard, calls, blamed, untagged>>

\* A corrupt party's digest, the all-zero one included.
CorruptCommit(c, digest) ==
    /\ committed[c] = "none"
    /\ committed' = [committed EXCEPT ![c] = digest]
    /\ UNCHANGED <<round, opened, verificationVector, rho, share, proof, spent, shard,
                   calls, blamed, untagged>>

Round2(p) ==
    /\ round[p] = 2
    /\ \A q \in Others(p) : committed[q] = "sealed"
    /\ opened' = opened \cup {p}
    /\ round' = [round EXCEPT ![p] = 3]
    /\ UNCHANGED <<committed, verificationVector, rho, share, proof, spent, shard,
                   calls, blamed, untagged>>

\* Round1Broadcast.Validate
Round2Reject(p) ==
    LET empty == {q \in Others(p) : committed[q] = "empty"}
    IN  /\ round[p] = 2
        /\ \A q \in Others(p) : committed[q] # "none"
        /\ empty # {}
        /\ blamed' = blamed \cup {<<p, First(empty)>>}
        /\ UNCHANGED <<round, committed, opened, verificationVector, rho, share, proof,
                       spent, shard, calls, untagged>>

-----------------------------------------------------------------------------
\* What p makes of the Round2 messages of a party: its broadcast or its unicast
\* is not well formed, the commitment does not open or the share does not
\* verify, or both are right.
Findings == {"malformed broadcast", "malformed share", "refuted", "right"}

\* What is found in the messages handed to Round3: those of honest parties are right.
Handed3(p) ==
    {[q \in Others(p) |-> IF q \in Corrupt THEN forged[q] ELSE "right"]
        : forged \in [Corrupt -> Findings]}

Ready3(p) ==
    /\ round[p] = 3
    /\ calls[p][3] < MaxCalls
    /\ Honest \ {p} \subseteq opened

\* All broadcasts are validated before the first unicast is.
Round3Reject(p, found) ==
    /\ \/ /\ With(found, "malformed broadcast") # {}
          /\ blamed' = blamed \cup {<<p, First(With(found, "malformed broadcast"))>>}
       \/ /\ With(found, "malformed broadcast") = {}
          /\ With(found, "malformed share") # {}
          /\ blamed' = blamed \cup {<<p, First(With(found, "malformed share"))>>}
    /\ UNCHANGED <<round, verificationVector, rho, share, proof>>

WellFormed3(found) == With(found, "malformed broadcast") \cup With(found, "malformed share") = {}

\* The loop stops at the first party it refutes.  The vector and rho keep what
\* was added before; the sum of the shares is a local variable and is lost.
Round3Abort(p, found) ==
    LET culprit == First(With(found, "refuted"))
    IN  /\ WellFormed3(found)
        /\ With(found, "refuted") # {}
        /\ verificationVector' =
              [verificationVector EXCEPT ![p] = Add(@, Before(p, culprit))]
        /\ rho' = [rho EXCEPT ![p] = Xor(@, Before(p, culprit))]
        /\ blamed' = blamed \cup {<<p, culprit>>}
        /\ UNCHANGED <<round, share, proof>>

\* Mutated form: the proof is made before the others' rho are mixed in.
Round3Respond_EarlyProof(p, found) ==
    /\ WellFormed3(found)
    /\ With(found, "refuted") = {}
    /\ verificationVector' = [verificationVector EXCEPT ![p] = Add(@, Others(p))]
    /\ rho' = [rho EXCEPT ![p] = Xor(@, Others(p))]
    /\ share' = [share EXCEPT ![p] = Add(Add(Nothing, {p}), Others(p))]
    /\ proof' = [proof EXCEPT ![p] = rho[p]]
    /\ round' = [round EXCEPT ![p] = 4]
    /\ UNCHANGED blamed

Round3Respond(p, found) ==
    /\ WellFormed3(found)
    /\ With(found, "refuted") = {}
    /\ verificationVector' = [verificationVector EXCEPT ![p] = Add(@, Others(p))]
    /\ rho' = [rho EXCEPT ![p] = Xor(@, Others(p))]
    /\ share' = [share EXCEPT ![p] = Add(Add(Nothing, {p}), Others(p))]
    /\ proof' = [proof EXCEPT ![p] = rho'[p]]
    /\ round' = [round EXCEPT ![p] = 4]
    /\ UNCHANGED blamed

Round3(p) ==
    /\ Ready3(p)
    /\ \E found \in Handed3(p) :
          \/ Round3Reject(p, found)
          \/ Round3Abort(p, found)
          \/ Round3Respond(p, found)
    /\ calls' = [calls EXCEPT ![p][3] = @ + 1]
    /\ UNCHANGED <<committed, opened, spent, shard, untagged>>

-----------------------------------------------------------------------------
\* zkVrfy of an honest party's proof: both transcripts hold the same rho, and
\* p's copy for q has not been written to by an earlier call of Round4.
Verifies(p, q) == proof[q] = rho[p] /\ q \notin spent[p]

\* A corrupt party can prove what it likes or fail to, under any transcript.
Handed4(p) ==
    {[q \in Others(p) |-> IF q \in Corrupt THEN forged[q]
                          ELSE IF Verifies(p, q) THEN "right" ELSE "refuted"]
        : forged \in [Corrupt -> {"malformed broadcast", "refuted", "right"}]}

Ready4(p) ==
    /\ round[p] = 4
    /\ calls[p][4] < MaxCalls
    /\ \A q \in Honest \ {p} : proof[q] # None

Round4Reject(p, found) ==
    /\ With(found, "malformed broadcast") # {}
    /\ blamed' = blamed \cup {<<p, First(With(found, "malformed broadcast"))>>}
    /\ UNCHANGED <<round, spent, shard, untagged>>

\* Every context up to the refuted proof has been written to.
Round4Abort(p, found) ==
    LET culprit == First(With(found, "refuted"))
    IN  /\ With(found, "malformed broadcast") = {}
        /\ With(found, "refuted") # {}
        /\ spent' = [spent EXCEPT ![p] = @ \cup UpTo(p, culprit)]
        /\ blamed' = blamed \cup {<<p, culprit>>}
        /\ UNCHANGED <<round, shard, untagged>>

\* Mutated form: the share is not compared with the vector.
NewBaseShardAccepts_Anything(p) == TRUE

\* NewBaseShard: the lifted share is the one the vector determines for p.
NewBaseShardAccepts(p) == share[p] = verificationVector[p]

Round4Output(p, found) ==
    /\ With(found, "malformed broadcast") \cup With(found, "refuted") = {}
    /\ spent' = [spent EXCEPT ![p] = Others(p)]
    /\ IF NewBaseShardAccepts(p)
       THEN /\ shard' = [shard EXCEPT ![p] = verificationVector[p]]
            /\ round' = [round EXCEPT ![p] = 5]
            /\ UNCHANGED untagged
       ELSE /\ untagged' = untagged \cup {p}
            /\ UNCHANGED <<round, shard>>
    /\ UNCHANGED blamed

Round4(p) ==
    /\ Ready4(p)
    /\ \E found \in Handed4(p) :
          \/ Round4Reject(p, found)
          \/ Round4Abort(p, found)
          \/ Round4Output(p, found)
    /\ calls' = [calls EXCEPT ![p][4] = @ + 1]
    /\ UNCHANGED <<committed, opened, verificationVector, rho, share, proof>>

Next ==
    \/ \E p \in Honest : Round1(p) \/ Round2(p) \/ Round2Reject(p) \/ Round3(p) \/ Round4(p)
    \/ \E c \in Corrupt, digest \in {"empty", "sealed"} : CorruptCommit(c, digest)

Spec == Init /\ [][Next]_vars

-----------------------------------------------------------------------------
\* Types of the state.
TypeOK ==
    /\ round \in [Honest -> 1 .. 5]
    /\ committed \in [Quorum -> {"none", "empty", "sealed"}]
    /\ opened \subseteq Honest
    /\ verificationVector \in [Honest -> [Quorum -> Nat]]
    /\ rho \in [Honest -> [Quorum -> {0, 1}]]
    /\ share \in [Honest -> [Quorum -> Nat]]
    /\ proof \in [Honest -> [Quorum -> {0, 1}] \cup {None}]
    /\ spent \in [Honest -> SUBSET Quorum]
    /\ shard \in [Honest -> [Quorum -> Nat] \cup {None}]
    /\ calls \in [Honest -> [{3, 4} -> 0 .. MaxCalls]]
    /\ blamed \subseteq Honest \X Quorum
    /\ untagged \subseteq Honest

\* README of canetti, output: X is the product of all X_j.  Whatever calls
\* failed before and were repeated, a shard that Round4 returns holds every
\* dealer's contribution exactly once, in the share and in the vector: shards
\* of different parties belong to one key.
OutputIsSum ==
    \A p \in Honest : shard[p] # None => shard[p] = Once /\ share[p] = Once

\* An honest party is named in an abort only if it had to repeat Round3, or the
\* party that names it Round3 or Round4: rho and the verifier's transcripts are
\* changed in place before all parties are verified.  For the same reason
\* NewBaseShard refuses, naming nobody, only after a repeated Round3.  Runners
\* never repeat.
BlameIsJust ==
    /\ \A b \in blamed : b[2] \in Honest =>
          calls[b[1]][3] > 1 \/ calls[b[1]][4] > 1 \/ calls[b[2]][3] > 1
    /\ \A p \in untagged : calls[p][3] > 1

\* No commitment is made after an honest party opened its own: nobody's
\* contribution to the key depends on that of an honest party.
CommitBeforeOpen == [][opened # {} => committed' = committed]_committed
=============================================================================
