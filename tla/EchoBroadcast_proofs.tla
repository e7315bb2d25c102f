------------------------ MODULE EchoBroadcast_proofs ------------------------
(***************************************************************************)
(* Safety of the echo broadcast for every quorum, every set of corrupt     *)
(* parties (a dishonest majority included) and every set of messages.      *)
(*                                                                         *)
(* The argument: what an honest party puts on the wire is fixed by its     *)
(* stored messages, and stored messages never change once they were sent.  *)
(* When p delivers it has compared its payload of id with the echo of each *)
(* honest q, and that echo is exactly what q stored.                       *)
(***************************************************************************)
EXTENDS EchoBroadcast, TLAPS

\* p went through Round2, even if it failed afterwards.
PastRound2(p) ==
    pc[p] \in {"Exchange2", "Done"} \/ \E q \in Quorum : wire2[p][q] # NotSent

\* A round-1 payload on the wire is the sender's stored message of its own.
Wire1Own ==
    \A p \in Honest, q \in Quorum : wire1[p][q] # NotSent =>
        pc[p] # "Round1" /\ wire1[p][q] = messages[p][p]

\* A round-2 echo on the wire is what its sender still holds.
Wire2Own ==
    \A p \in Honest, q \in Quorum : wire2[p][q] # NotSent =>
        /\ pc[p] \notin {"Round1", "Exchange1"}
        /\ \A id \in Quorum \ {p} : wire2[p][q][id] = messages[p][id]

\* Past Round2 the stored payload of an honest party is what that party sent.
StoredIsSent ==
    \A p \in Honest : PastRound2(p) =>
        \A q \in Honest \ {p} :
            wire1[q][p] # NotSent /\ messages[p][q] = wire1[q][p]

\* A party that delivered compared its payloads with every honest echo.
DoneIsChecked ==
    \A p \in Honest : pc[p] = "Done" =>
        /\ \A id \in Others(p) : output[p][id] = messages[p][id]
        /\ \A q \in Honest \ {p} :
              /\ wire2[q][p] # NotSent
              /\ \A id \in Quorum \ {p, q} : wire2[q][p][id] = messages[p][id]

IInv == TypeOK /\ Wire1Own /\ Wire2Own /\ StoredIsSent /\ DoneIsChecked

-----------------------------------------------------------------------------
LEMMA PayloadFacts ==
    /\ NotSent \notin Payload
    /\ NotSent \notin Echo
    /\ Messages \subseteq Payload
    /\ NoBytes \in Payload
  BY PayloadAssumption DEF Payload, Echo

\* What a receiving round is handed has the type of a body of that round.
LEMMA ReceivedType ==
    ASSUME NEW Body, NEW wire \in [Honest -> [Quorum -> Body \cup {NotSent}]],
           NEW p \in Honest, NEW forged \in [Corrupt -> Body], Arrived(wire, p)
    PROVE  Received(wire, forged, p) \in [Others(p) -> Body]
  BY QuorumAssumption DEF Received, Arrived, Others, Honest

LEMMA InitIInv == Init => IInv
  BY PayloadFacts
  DEF Init, IInv, TypeOK, Wire1Own, Wire2Own, StoredIsSent, DoneIsChecked,
      PastRound2, Payload

LEMMA TypeStep == TypeOK /\ [Next]_vars => TypeOK'
  <1> SUFFICES ASSUME TypeOK, [Next]_vars PROVE TypeOK'
    OBVIOUS
  <1> USE PayloadFacts, QuorumAssumption
  <1>1. ASSUME NEW p \in Honest, NEW m \in Messages, Round1(p, m) PROVE TypeOK'
    BY <1>1 DEF TypeOK, Round1, Others, Honest
  <1>2. ASSUME NEW p \in Honest, NEW q \in Quorum, SendRound1(p, q)
        PROVE TypeOK'
    BY <1>2 DEF TypeOK, SendRound1, Honest
  <1>3. ASSUME NEW p \in Honest, NEW q \in Quorum, SendRound2(p, q)
        PROVE TypeOK'
    <2>1. EchoOf(p) \in Echo
      BY DEF TypeOK, EchoOf, Echo, Honest
    <2> QED
      BY <1>3, <2>1 DEF TypeOK, SendRound2, Honest
  <1>4. ASSUME NEW p \in Honest, Round2(p) PROVE TypeOK'
    <2>1. PICK forged \in [Corrupt -> Payload] :
             messages' = [messages EXCEPT ![p] =
                 [q \in Quorum |-> IF q = p THEN messages[p][p]
                                   ELSE Received(wire1, forged, p)[q]]]
      BY <1>4 DEF Round2
    <2>2. Received(wire1, forged, p) \in [Others(p) -> Payload]
      BY <1>4, ReceivedType DEF Round2, TypeOK
    <2>3. messages' \in [Honest -> [Quorum -> Payload]]
      BY <2>1, <2>2 DEF TypeOK, Others, Honest
    <2> QED
      BY <1>4, <2>3 DEF TypeOK, Round2, Others, Honest
  <1>5. ASSUME NEW p \in Honest, Round3(p) PROVE TypeOK'
    <2>1. CASE AllDecode(p) /\ Deliver(p)
      <3>1. output' \in [Honest -> [Quorum -> Messages \cup {NoOutput}]]
        BY <2>1 DEF TypeOK, Deliver, AllDecode, Others
      <3> QED
        BY <1>5, <2>1, <3>1 DEF TypeOK, Round3, Deliver
    <2>2. CASE Reject(p)
      BY <1>5, <2>2 DEF TypeOK, Round3, Reject
    <2> QED
      BY <1>5, <2>1, <2>2 DEF Round3
  <1>6. ASSUME NEW p \in Honest, Abort(p) PROVE TypeOK'
    BY <1>6 DEF TypeOK, Abort
  <1>7. ASSUME NEW p \in Honest, Malformed(p) PROVE TypeOK'
    BY <1>7 DEF TypeOK, Malformed, Reject
  <1>8. ASSUME NEW c \in Corrupt, NEW p \in Honest, CorruptSends(c, p) PROVE TypeOK'
    BY <1>8 DEF TypeOK, CorruptSends
  <1>9. CASE UNCHANGED vars
    BY <1>9 DEF TypeOK, vars
  <1> QED
    BY <1>1, <1>2, <1>3, <1>4, <1>5, <1>6, <1>7, <1>8, <1>9 DEF Next, Step, Terminated

\* Type correctness of the echo broadcast (the Participant's maps and Run).
THEOREM TypeCorrect == Spec => []TypeOK
  <1>1. Init => TypeOK
    BY InitIInv DEF IInv
  <1> QED
    BY <1>1, TypeStep, PTL DEF Spec

-----------------------------------------------------------------------------
\* The conjuncts of IInv that relate two parties; TypeStep covers the other.
Core == Wire1Own /\ Wire2Own /\ StoredIsSent /\ DoneIsChecked

\* The part of TypeOK their proofs need.
Types ==
    /\ DOMAIN pc = Honest
    /\ messages \in [Honest -> [Quorum -> Payload]]
    /\ wire1 \in [Honest -> [Quorum -> Payload \cup {NotSent}]]
    /\ wire2 \in [Honest -> [Quorum -> Echo \cup {NotSent}]]
    /\ output \in [Honest -> [Quorum -> Messages \cup {NoOutput}]]

LEMMA Round1Step ==
    ASSUME IInv, NEW p \in Honest, NEW m \in Messages, Round1(p, m)
    PROVE  Core'
  <1>0. Types
    BY DEF IInv, TypeOK, Types
  <1> USE <1>0 DEF IInv, Types
  <1>1. /\ \A q \in Honest : q # p => pc'[q] = pc[q] /\ messages'[q] = messages[q]
        /\ pc'[p] = "Exchange1" /\ pc[p] = "Round1"
        /\ \A q \in Quorum \ {p} : messages'[p][q] = messages[p][q]
        /\ wire1' = wire1 /\ wire2' = wire2 /\ output' = output
    BY DEF Round1
  <1>2. \A q \in Quorum : wire1[p][q] = NotSent /\ wire2[p][q] = NotSent
    BY <1>1 DEF Wire1Own, Wire2Own
  <1>3. Wire1Own' /\ Wire2Own'
    <2>1. Wire1Own'
      BY <1>1, <1>2 DEF Wire1Own
    <2>2. Wire2Own'
      BY <1>1, <1>2 DEF Wire2Own
    <2> QED
      BY <2>1, <2>2
  <1>4. StoredIsSent'
    BY <1>1, <1>2 DEF StoredIsSent, PastRound2, Honest
  <1>5. DoneIsChecked'
    BY <1>1, <1>2 DEF DoneIsChecked, Others, Honest
  <1> QED
    BY <1>3, <1>4, <1>5 DEF Core

LEMMA SendRound1Step ==
    ASSUME IInv, NEW p \in Honest, NEW q \in Quorum, SendRound1(p, q)
    PROVE  Core'
  <1>0. Types
    BY DEF IInv, TypeOK, Types
  <1> USE <1>0 DEF IInv, Types
  <1>1. /\ pc' = pc /\ messages' = messages /\ wire2' = wire2 /\ output' = output
        /\ pc[p] = "Exchange1"
        /\ wire1'[p][q] = messages[p][p]
        /\ \A r \in Honest, s \in Quorum :
              r # p \/ s # q => wire1'[r][s] = wire1[r][s]
    BY DEF SendRound1
  <1>2. messages[p][p] # NotSent
    BY PayloadFacts DEF Honest
  <1>3. Wire1Own' /\ Wire2Own'
    <2>1. Wire1Own'
      <3> SUFFICES ASSUME NEW r \in Honest, NEW s \in Quorum, wire1'[r][s] # NotSent
                   PROVE  pc[r] # "Round1" /\ wire1'[r][s] = messages[r][r]
        BY <1>1 DEF Wire1Own
      <3>1. CASE r = p /\ s = q
        BY <1>1, <3>1
      <3>2. CASE r # p \/ s # q
        <4>1. wire1'[r][s] = wire1[r][s]
          BY <1>1, <3>2
        <4> QED
          BY <4>1 DEF Wire1Own
      <3> QED
        BY <3>1, <3>2
    <2>2. Wire2Own'
      BY <1>1 DEF Wire2Own
    <2> QED
      BY <2>1, <2>2
  <1>4. \A r \in Honest, s \in Quorum : wire1[r][s] # NotSent =>
            wire1'[r][s] = wire1[r][s]
    BY <1>1 DEF Wire1Own
  <1>5. StoredIsSent'
    BY <1>1, <1>4 DEF StoredIsSent, PastRound2, Honest
  <1>6. DoneIsChecked'
    BY <1>1 DEF DoneIsChecked, Others
  <1> QED
    BY <1>3, <1>5, <1>6 DEF Core

LEMMA SendRound2Step ==
    ASSUME IInv, NEW p \in Honest, NEW q \in Quorum, SendRound2(p, q)
    PROVE  Core'
  <1>0. Types
    BY DEF IInv, TypeOK, Types
  <1> USE <1>0 DEF IInv, Types
  <1>1. /\ pc' = pc /\ messages' = messages /\ wire1' = wire1 /\ output' = output
        /\ pc[p] = "Exchange2"
        /\ wire2'[p][q] = EchoOf(p)
        /\ \A id \in Quorum \ {p} : EchoOf(p)[id] = messages[p][id]
        /\ \A r \in Honest, s \in Quorum :
              r # p \/ s # q => wire2'[r][s] = wire2[r][s]
    BY DEF SendRound2, EchoOf
  <1>2. EchoOf(p) # NotSent
    <2>1. EchoOf(p) \in Echo
      BY PayloadFacts DEF EchoOf, Echo, Honest
    <2> QED
      BY <2>1, PayloadFacts
  <1>3. Wire1Own' /\ Wire2Own'
    <2>1. Wire1Own'
      BY <1>1 DEF Wire1Own
    <2>2. Wire2Own'
      BY <1>1 DEF Wire2Own
    <2> QED
      BY <2>1, <2>2
  <1>4. \A r \in Honest, s \in Quorum : wire2[r][s] # NotSent =>
            /\ wire2'[r][s] # NotSent
            /\ \A id \in Quorum \ {r} : wire2'[r][s][id] = wire2[r][s][id]
    <2> SUFFICES ASSUME NEW r \in Honest, NEW s \in Quorum, wire2[r][s] # NotSent
                 PROVE  /\ wire2'[r][s] # NotSent
                        /\ \A id \in Quorum \ {r} :
                              wire2'[r][s][id] = wire2[r][s][id]
      OBVIOUS
    <2>1. CASE r = p /\ s = q
      BY <1>1, <1>2, <2>1 DEF Wire2Own
    <2>2. CASE r # p \/ s # q
      BY <1>1, <2>2
    <2> QED
      BY <2>1, <2>2
  <1>5. \A r \in Honest : PastRound2(r)' => PastRound2(r)
    BY <1>1 DEF PastRound2
  <1>6. StoredIsSent'
    BY <1>1, <1>5 DEF StoredIsSent
  <1>7. DoneIsChecked'
    BY <1>1, <1>4 DEF DoneIsChecked, Others, Honest
  <1> QED
    BY <1>3, <1>6, <1>7 DEF Core

LEMMA Round2Step ==
    ASSUME IInv, NEW p \in Honest, Round2(p)
    PROVE  Core'
  <1>0. Types
    BY DEF IInv, TypeOK, Types
  <1> USE <1>0 DEF IInv, Types
  <1>1. PICK forged \in [Corrupt -> Payload] :
           messages' = [messages EXCEPT ![p] =
               [q \in Quorum |-> IF q = p THEN messages[p][p]
                                 ELSE Received(wire1, forged, p)[q]]]
    BY DEF Round2
  <1>2. /\ \A q \in Honest : q # p => pc'[q] = pc[q] /\ messages'[q] = messages[q]
        /\ pc'[p] = "Exchange2" /\ pc[p] = "Exchange1"
        /\ messages'[p][p] = messages[p][p]
        /\ wire1' = wire1 /\ wire2' = wire2 /\ output' = output
    BY <1>1 DEF Round2, Honest
  <1>3. \A q \in Honest \ {p} : wire1[q][p] # NotSent /\ messages'[p][q] = wire1[q][p]
    BY <1>1 DEF Round2, Arrived, Received, Others, Honest
  <1>4. \A q \in Quorum : wire2[p][q] = NotSent
    BY <1>2 DEF Wire2Own
  <1>5. Wire1Own' /\ Wire2Own'
    <2>1. Wire1Own'
      BY <1>2 DEF Wire1Own
    <2>2. Wire2Own'
      BY <1>2, <1>4 DEF Wire2Own
    <2> QED
      BY <2>1, <2>2
  <1>6. StoredIsSent'
    BY <1>2, <1>3 DEF StoredIsSent, PastRound2
  <1>7. DoneIsChecked'
    BY <1>2 DEF DoneIsChecked, Others
  <1> QED
    BY <1>5, <1>6, <1>7 DEF Core

LEMMA Round3Step ==
    ASSUME IInv, NEW p \in Honest, Round3(p)
    PROVE  Core'
  <1>0. Types
    BY DEF IInv, TypeOK, Types
  <1> USE <1>0 DEF IInv, Types
  <1>1. /\ messages' = messages /\ wire1' = wire1 /\ wire2' = wire2
        /\ pc[p] = "Exchange2"
        /\ \A q \in Honest : q # p => pc'[q] = pc[q] /\ output'[q] = output[q]
        /\ pc'[p] \in {"Done", "Failed"}
    BY DEF Round3, Deliver, Reject
  <1>2. Wire1Own' /\ Wire2Own'
    BY <1>1 DEF Wire1Own, Wire2Own
  <1>3. StoredIsSent'
    BY <1>1 DEF StoredIsSent, PastRound2
  <1>4. ASSUME pc'[p] = "Done"
        PROVE  /\ \A id \in Others(p) : output'[p][id] = messages[p][id]
               /\ \A q \in Honest \ {p} :
                     /\ wire2[q][p] # NotSent
                     /\ \A id \in Quorum \ {p, q} :
                           wire2[q][p][id] = messages[p][id]
    <2>1. PICK forged \in [Corrupt -> Echo] :
             /\ EchoesMatch(p, Received(wire2, forged, p))
             /\ Deliver(p)
      BY <1>4 DEF Round3, Reject
    <2>2. \A q \in Honest \ {p} : wire2[q][p] # NotSent
      BY DEF Round3, Arrived
    <2>3. \A q \in Honest \ {p} : Received(wire2, forged, p)[q] = wire2[q][p]
      BY DEF Received, Others, Honest
    <2>4. \A q \in Honest \ {p} : \A id \in Quorum \ {p, q} :
             wire2[q][p][id] = messages[p][id]
      BY <2>1, <2>3 DEF EchoesMatch, Others, Honest
    <2> QED
      BY <2>1, <2>2, <2>4 DEF Deliver, Others
  <1>5. DoneIsChecked'
    <2> SUFFICES ASSUME NEW r \in Honest, pc'[r] = "Done"
                 PROVE  /\ \A id \in Others(r) : output'[r][id] = messages[r][id]
                        /\ \A q \in Honest \ {r} :
                              /\ wire2[q][r] # NotSent
                              /\ \A id \in Quorum \ {r, q} :
                                    wire2[q][r][id] = messages[r][id]
      BY <1>1 DEF DoneIsChecked, Others
    <2>1. CASE r = p
      BY <1>4, <2>1
    <2>2. CASE r # p
      BY <1>1, <2>2 DEF DoneIsChecked
    <2> QED
      BY <2>1, <2>2
  <1> QED
    BY <1>2, <1>3, <1>5 DEF Core

LEMMA IInvStep == IInv /\ [Next]_vars => IInv'
  <1> SUFFICES ASSUME IInv, [Next]_vars PROVE Core'
    BY TypeStep DEF IInv, Core
  <1>0. ASSUME NEW p \in Honest, pc[p] \in {"Exchange1", "Exchange2"},
               pc' = [pc EXCEPT ![p] = "Failed"],
               UNCHANGED <<messages, wire1, wire2, output>>
        PROVE  Core'
    <2>0. DOMAIN pc = Honest
      BY DEF IInv, TypeOK
    <2>1. pc'[p] = "Failed" /\ \A q \in Honest : q # p => pc'[q] = pc[q]
      BY <1>0, <2>0
    <2>2. Wire1Own'
      BY <1>0, <2>1 DEF IInv, Wire1Own
    <2>3. Wire2Own'
      BY <1>0, <2>1 DEF IInv, Wire2Own
    <2>4. StoredIsSent'
      BY <1>0, <2>1 DEF IInv, StoredIsSent, PastRound2
    <2>5. DoneIsChecked'
      BY <1>0, <2>1 DEF IInv, DoneIsChecked
    <2> QED
      BY <2>2, <2>3, <2>4, <2>5 DEF Core
  <1>1. ASSUME NEW p \in Honest, Abort(p) PROVE Core'
    BY <1>0, <1>1 DEF Abort
  <1>2. ASSUME NEW p \in Honest, Malformed(p) PROVE Core'
    BY <1>0, <1>2 DEF Malformed, Reject
  <1>3. CASE UNCHANGED vars
    BY <1>3 DEF vars, IInv, Core, Wire1Own, Wire2Own, StoredIsSent,
                DoneIsChecked, PastRound2
  <1>4. ASSUME NEW c \in Corrupt, NEW p \in Honest, CorruptSends(c, p) PROVE Core'
    BY <1>4 DEF CorruptSends, IInv, Core, Wire1Own, Wire2Own, StoredIsSent,
                DoneIsChecked, PastRound2
  <1> QED
    BY <1>1, <1>2, <1>3, <1>4, Round1Step, SendRound1Step, SendRound2Step, Round2Step,
       Round3Step
    DEF Next, Step, Terminated

LEMMA IInvHolds == Spec => []IInv
  BY InitIInv, IInvStep, PTL DEF Spec

LEMMA IInvCommon == IInv => DeliveredIsCommon
  BY DEF IInv, TypeOK, DeliveredIsCommon, DoneIsChecked, Wire2Own, Others, Honest

LEMMA IInvHonest == IInv => HonestDelivery
  <1> SUFFICES ASSUME IInv, NEW p \in Honest, pc[p] = "Done", NEW q \in Honest \ {p}
               PROVE  output[p][q] = messages[q][q] /\ messages[q][p] = messages[p][p]
    BY DEF HonestDelivery
  <1>1. wire2[q][p] # NotSent /\ output[p][q] = messages[p][q]
    BY DEF IInv, DoneIsChecked, Others, Honest
  <1>2. messages[p][q] = messages[q][q]
    BY DEF IInv, StoredIsSent, PastRound2, Wire1Own, Honest
  <1>3. messages[q][p] = messages[p][p]
    BY <1>1 DEF IInv, StoredIsSent, PastRound2, Wire1Own, Honest
  <1> QED
    BY <1>1, <1>2, <1>3

LEMMA IInvConsistent == IInv => Consistency
  <1> SUFFICES ASSUME IInv, NEW p \in Honest, NEW q \in Honest,
                      pc[p] = "Done", pc[q] = "Done",
                      NEW id \in Quorum \ {p, q}
               PROVE  output[p][id] = output[q][id]
    BY DEF Consistency
  <1>1. output[q][id] = messages[q][id] /\ output[p][id] = messages[p][id]
    BY DEF IInv, DoneIsChecked, Others
  <1>2. p # q => messages[q][id] = output[p][id]
    BY IInvCommon DEF DeliveredIsCommon
  <1> QED
    BY <1>1, <1>2

\* Round3's comparison gives agreement beyond the parties that succeed: every
\* honest party holds, from round 1, exactly what any honest party delivered.
THEOREM DeliveredIsCommonHolds == Spec => []DeliveredIsCommon
  BY IInvHolds, IInvCommon, PTL

\* Two honest parties whose Run succeeded delivered the same message of every
\* third party: the promise of pkg/network/echo.
THEOREM ConsistencyHolds == Spec => []Consistency
  BY IInvHolds, IInvConsistent, PTL

\* A delivered message of an honest party is the one it gave to Round1.
THEOREM HonestDeliveryHolds == Spec => []HonestDelivery
  BY IInvHolds, IInvHonest, PTL
-----------------------------------------------------------------------------
\* What the refinement needs beyond IInv: a party has no message of its own
\* before Round1, and what it delivered decoded.
OwnMessageFresh == \A p \in Honest : pc[p] = "Round1" => messages[p][p] = NoBytes

DeliveredDecode ==
    \A p \in Honest : pc[p] = "Done" => \A id \in Others(p) : output[p][id] \in Messages

MappingInv == IInv /\ OwnMessageFresh /\ DeliveredDecode

LEMMA MappingInvStep == MappingInv /\ [Next]_vars => MappingInv'
  <1> SUFFICES ASSUME MappingInv, [Next]_vars
               PROVE  OwnMessageFresh' /\ DeliveredDecode'
    BY IInvStep DEF MappingInv
  <1> USE DEF MappingInv, IInv, TypeOK, OwnMessageFresh, DeliveredDecode
  <1>1. ASSUME NEW p \in Honest, NEW m \in Messages, Round1(p, m)
        PROVE  OwnMessageFresh' /\ DeliveredDecode'
    BY <1>1 DEF Round1, Others
  <1>2. ASSUME NEW p \in Honest, NEW q \in Quorum, SendRound1(p, q) \/ SendRound2(p, q)
        PROVE  OwnMessageFresh' /\ DeliveredDecode'
    BY <1>2 DEF SendRound1, SendRound2, Others
  <1>3. ASSUME NEW p \in Honest, Round2(p)
        PROVE  OwnMessageFresh' /\ DeliveredDecode'
    BY <1>3 DEF Round2, Others
  <1>4. ASSUME NEW p \in Honest, Round3(p)
        PROVE  OwnMessageFresh' /\ DeliveredDecode'
    <2>1. CASE AllDecode(p) /\ Deliver(p)
      BY <1>4, <2>1 DEF Round3, Deliver, AllDecode, Others
    <2>2. CASE Reject(p)
      BY <1>4, <2>2 DEF Round3, Reject, Others
    <2> QED
      BY <1>4, <2>1, <2>2 DEF Round3
  <1>5. ASSUME NEW p \in Honest, Malformed(p) \/ Abort(p)
        PROVE  OwnMessageFresh' /\ DeliveredDecode'
    BY <1>5 DEF Malformed, Reject, Abort, Others
  <1>6. CASE UNCHANGED vars
    BY <1>6 DEF vars, Others
  <1>7. ASSUME NEW c \in Corrupt, NEW p \in Honest, CorruptSends(c, p)
        PROVE  OwnMessageFresh' /\ DeliveredDecode'
    BY <1>7 DEF CorruptSends, Others
  <1> QED
    BY <1>1, <1>2, <1>3, <1>4, <1>5, <1>6, <1>7 DEF Next, Step, Terminated

LEMMA MappingInvHolds == Spec => []MappingInv
  <1>1. Init => MappingInv
    BY InitIInv, QuorumAssumption
    DEF Init, MappingInv, OwnMessageFresh, DeliveredDecode, Honest
  <1> QED
    BY <1>1, MappingInvStep, PTL DEF Spec

\* The value the mapping gives a sender is the one every deliverer has of it.
AgreedIsDelivered ==
    \A q \in Delivered : \A id \in Quorum \ {q} :
        AbstractAgreed[id] = output[q][id] /\ output[q][id] \in Messages

Mapped == MappingInv /\ HonestDelivery /\ AgreedIsDelivered

LEMMA MappedHolds == Spec => []Mapped
  <1>1. MappingInv => AgreedIsDelivered
    <2> SUFFICES ASSUME MappingInv, NEW q \in Delivered, NEW id \in Quorum \ {q}
                 PROVE  AbstractAgreed[id] = output[q][id] /\ output[q][id] \in Messages
      BY DEF AgreedIsDelivered
    <2> DEFINE first == CHOOSE p \in Delivered \ {id} : TRUE
    <2>1. first \in Delivered \ {id}
      OBVIOUS
    <2>2. AbstractAgreed[id] = output[first][id]
      BY DEF AbstractAgreed
    <2>3. Consistency
      BY IInvConsistent DEF MappingInv
    <2>4. output[first][id] = output[q][id]
      BY <2>1, <2>3 DEF Consistency, Delivered
    <2> QED
      BY <2>2, <2>4 DEF MappingInv, DeliveredDecode, Delivered, Others
  <1>2. MappingInv => HonestDelivery
    BY IInvHonest DEF MappingInv
  <1> QED
    BY <1>1, <1>2, MappingInvHolds, PTL DEF Mapped

LEMMA AgreedWithoutDeliveries ==
    ASSUME NEW id \in Quorum, Delivered \ {id} = {}
    PROVE  AbstractAgreed[id] = NoOutput
  BY DEF AbstractAgreed

\* A step that neither delivers nor submits is invisible.
LEMMA InvisibleStep ==
    ASSUME MappingInv, Delivered' = Delivered,
           \A p \in Honest : messages'[p][p] = messages[p][p],
           \A p \in Delivered : output'[p] = output[p]
    PROVE  UNCHANGED <<AbstractInput, AbstractAgreed, Delivered>>
  <1>1. AbstractInput' = AbstractInput
    BY DEF AbstractInput
  <1>2. AbstractAgreed' = AbstractAgreed
    <2> SUFFICES ASSUME NEW id \in Quorum
                 PROVE  AbstractAgreed'[id] = AbstractAgreed[id]
      BY DEF AbstractAgreed
    <2>1. CASE Delivered \ {id} = {}
      BY <2>1 DEF AbstractAgreed
    <2>2. CASE Delivered \ {id} # {}
      <3>1. (CHOOSE p \in Delivered \ {id} : TRUE) \in Delivered
        BY <2>2
      <3> QED
        BY <2>2, <3>1 DEF AbstractAgreed
    <2> QED
      BY <2>1, <2>2
  <1> QED
    BY <1>1, <1>2

LEMMA Round1Submits ==
    ASSUME MappingInv, NEW p \in Honest, NEW m \in Messages, Round1(p, m)
    PROVE  Abstract!Submit(p)
  <1> USE DEF MappingInv, IInv, TypeOK
  <1>1. /\ messages[p][p] = NoBytes /\ messages'[p][p] = m
        /\ \A q \in Honest \ {p} : messages'[q] = messages[q]
        /\ output' = output
    BY DEF Round1, OwnMessageFresh, Honest
  <1>2. Delivered' = Delivered
    BY DEF Round1, Delivered
  <1>3. AbstractAgreed' = AbstractAgreed
    BY <1>1, <1>2 DEF AbstractAgreed
  <1>4. AbstractInput[p] = NoOutput
    BY <1>1 DEF AbstractInput
  <1>5. AbstractInput' = [AbstractInput EXCEPT ![p] = m]
    BY <1>1, PayloadAssumption DEF AbstractInput
  <1> QED
    BY <1>2, <1>3, <1>4, <1>5 DEF Abstract!Submit

LEMMA Round3Delivers ==
    ASSUME Mapped, Mapped', NEW p \in Honest, Round3(p), Deliver(p)
    PROVE  Abstract!Deliver(p)
  <1> USE DEF Mapped, MappingInv, IInv, TypeOK
  <1>1. /\ messages' = messages
        /\ pc[p] = "Exchange2" /\ pc'[p] = "Done"
        /\ \A q \in Honest \ {p} : pc'[q] = pc[q] /\ output'[q] = output[q]
    BY DEF Round3, Deliver
  <1>2. p \notin Delivered /\ Delivered' = Delivered \cup {p}
    BY <1>1 DEF Delivered
  <1>3. AbstractInput' = AbstractInput
    BY <1>1 DEF AbstractInput
  <1>4. AbstractAgreed'[p] = AbstractAgreed[p]
    <2>1. Delivered' \ {p} = Delivered \ {p}
      BY <1>2
    <2>2. CASE Delivered \ {p} = {}
      BY <2>1, <2>2 DEF AbstractAgreed, Honest
    <2>3. CASE Delivered \ {p} # {}
      <3> DEFINE first == CHOOSE q \in Delivered \ {p} : TRUE
      <3>1. first \in Honest \ {p}
        BY <2>3 DEF Delivered
      <3>2. output'[first] = output[first]
        BY <1>1, <3>1
      <3>3. AbstractAgreed[p] = output[first][p]
        BY <2>3 DEF AbstractAgreed, Honest
      <3>4. AbstractAgreed'[p] = output'[CHOOSE q \in Delivered' \ {p} : TRUE][p]
        BY <2>1, <2>3 DEF AbstractAgreed, Honest
      <3> QED
        BY <2>1, <3>2, <3>3, <3>4
    <2> QED
      BY <2>2, <2>3
  <1>5. ASSUME NEW id \in Quorum \ {p}
        PROVE  /\ AbstractAgreed'[id] = output'[p][id]
               /\ AbstractAgreed'[id] \in Messages
    <2>1. p \in Delivered'
      BY <1>2
    <2> QED
      BY <2>1 DEF AgreedIsDelivered
  <1>6. ASSUME NEW id \in Quorum \ {p}
        PROVE  AbstractAgreed[id] \in {NoOutput, AbstractAgreed'[id]}
    <2>1. CASE Delivered \ {id} = {}
      BY <2>1, AgreedWithoutDeliveries
    <2>2. ASSUME NEW q \in Delivered \ {id}
          PROVE  AbstractAgreed[id] = AbstractAgreed'[id]
      <3>1. AbstractAgreed[id] = output[q][id]
        BY DEF AgreedIsDelivered
      <3>2. AbstractAgreed'[id] = output'[q][id]
        BY <1>2 DEF AgreedIsDelivered
      <3>3. output'[q] = output[q]
        BY <1>1, <1>2 DEF Delivered
      <3> QED
        BY <3>1, <3>2, <3>3
    <2> QED
      BY <2>1, <2>2
  <1>7. ASSUME NEW id \in Honest \ {p}
        PROVE  AbstractAgreed'[id] = AbstractInput[id]
    <2>1. output'[p][id] = messages'[id][id]
      BY <1>1 DEF HonestDelivery
    <2>2. messages[id][id] \in Messages
      BY <1>1, <1>5, <2>1 DEF Honest
    <2> QED
      BY <1>1, <1>5, <2>1, <2>2, PayloadAssumption DEF AbstractInput, Honest
  <1>8. AbstractAgreed' \in [Quorum -> Messages \cup {NoOutput}]
    <2>1. ASSUME NEW id \in Quorum
          PROVE  AbstractAgreed'[id] \in Messages \cup {NoOutput}
      <3>1. CASE Delivered' \ {id} = {}
        BY <3>1 DEF AbstractAgreed
      <3>2. ASSUME NEW q \in Delivered' \ {id}
            PROVE  AbstractAgreed'[id] \in Messages
        BY DEF AgreedIsDelivered
      <3> QED
        BY <3>1, <3>2
    <2>2. AbstractAgreed' = [id \in Quorum |-> AbstractAgreed'[id]]
      BY DEF AbstractAgreed
    <2> QED
      BY <2>1, <2>2
  <1> QED
    BY <1>2, <1>3, <1>4, <1>5, <1>6, <1>7, <1>8
    DEF Abstract!Deliver, Abstract!Honest, Honest

LEMMA StepSimulates ==
    Mapped /\ Mapped' /\ [Next]_vars => [Abstract!Next]_(Abstract!vars)
  <1> SUFFICES ASSUME Mapped, Mapped', [Next]_vars
               PROVE  \/ Abstract!Next
                      \/ UNCHANGED <<AbstractInput, AbstractAgreed, Delivered>>
    BY DEF Abstract!vars
  <1> USE DEF Mapped, MappingInv, IInv, TypeOK
  <1>1. ASSUME NEW p \in Honest, NEW m \in Messages, Round1(p, m)
        PROVE  Abstract!Next
    BY <1>1, Round1Submits DEF Abstract!Next, Abstract!Honest, Honest
  <1>2. ASSUME NEW p \in Honest, NEW q \in Quorum, SendRound1(p, q) \/ SendRound2(p, q)
        PROVE  UNCHANGED <<AbstractInput, AbstractAgreed, Delivered>>
    BY <1>2, InvisibleStep DEF SendRound1, SendRound2, Delivered
  <1>3. ASSUME NEW p \in Honest, Round2(p)
        PROVE  UNCHANGED <<AbstractInput, AbstractAgreed, Delivered>>
    <2>1. \A q \in Honest : messages'[q][q] = messages[q][q]
      BY <1>3 DEF Round2, Honest
    <2> QED
      BY <1>3, <2>1, InvisibleStep DEF Round2, Delivered
  <1>4. ASSUME NEW p \in Honest, Round3(p)
        PROVE  \/ Abstract!Next
               \/ UNCHANGED <<AbstractInput, AbstractAgreed, Delivered>>
    <2>1. CASE Deliver(p)
      BY <1>4, <2>1, Round3Delivers DEF Abstract!Next, Abstract!Honest, Honest
    <2>2. CASE Reject(p)
      BY <1>4, <2>2, InvisibleStep DEF Round3, Reject, Delivered
    <2> QED
      BY <1>4, <2>1, <2>2 DEF Round3
  <1>5. ASSUME NEW p \in Honest, Malformed(p) \/ Abort(p)
        PROVE  UNCHANGED <<AbstractInput, AbstractAgreed, Delivered>>
    BY <1>5, InvisibleStep DEF Malformed, Abort, Reject, Delivered
  <1>6. CASE UNCHANGED vars
    BY <1>6, InvisibleStep DEF vars, Delivered
  <1>7. ASSUME NEW c \in Corrupt, NEW p \in Honest, CorruptSends(c, p)
        PROVE  UNCHANGED <<AbstractInput, AbstractAgreed, Delivered>>
    BY <1>7, InvisibleStep DEF CorruptSends, Delivered
  <1> QED
    BY <1>1, <1>2, <1>3, <1>4, <1>5, <1>6, <1>7 DEF Next, Step, Terminated

\* The three rounds of Participant implement consistent broadcast: Round1 is the
\* submission, a successful Round3 the delivery, and no other step shows.
THEOREM ImplementsBroadcastHolds == Spec => ImplementsBroadcast
  <1>1. Init => Abstract!Init
    BY QuorumAssumption
    DEF Init, Abstract!Init, Abstract!Honest, Honest, AbstractInput, AbstractAgreed,
        Delivered
  <1> QED
    BY <1>1, StepSimulates, MappedHolds, PTL
    DEF Spec, ImplementsBroadcast, Abstract!Spec
=============================================================================
