----------------------------- MODULE Router_proofs -----------------------------
(***************************************************************************)
(* For every number of callers and every traffic: what ReceiveFrom returns *)
(* is sound, every message is accounted for, no loss goes unreported and   *)
(* ErrDuplicateMessage names only senders that contradicted themselves;    *)
(* and, for a router with a single caller, no message is stranded.         *)
(*                                                                         *)
(* The argument.  What a call holds was sent under its correlation ID by   *)
(* senders it expects and is free of conflicts (Holdings), so the message  *)
(* that completes a conflict is one of the two that prove it, and what an  *)
(* error return drops was meant for that very call.  Every step moves      *)
(* messages from one place to one other (Located, Apart).                  *)
(***************************************************************************)
EXTENDS Router, FiniteSetTheorems, TLAPS

Held(m) == \E c \in Callers : m \in received[c]

\* A message has arrived exactly when it is in one of the five places ...
Located ==
    \A m \in Traffic :
        m \in arrived <=> \/ m \in wire \/ m \in receiveBuffer \/ Held(m)
                          \/ m \in handed \/ m \in lost

\* ... and it is in one of them only, and held by one call only.
Apart ==
    \A m \in Traffic :
        /\ m \in wire => m \notin receiveBuffer /\ ~Held(m) /\ m \notin handed /\ m \notin lost
        /\ m \in receiveBuffer => ~Held(m) /\ m \notin handed /\ m \notin lost
        /\ Held(m) => m \notin handed /\ m \notin lost
        /\ m \in handed => m \notin lost
        /\ \A c, d \in Callers : m \in received[c] /\ m \in received[d] => c = d

\* One payload for each sender.
Consistent(S) == \A x, y \in S : x.from = y.from => x.payload = y.payload

\* What a call holds, and that an idle caller holds nothing.
Holdings ==
    \A c \in Callers :
        /\ pc[c] = "idle" => received[c] = {}
        /\ pc[c] # "idle" => cid[c] \in CorrelationIDs
        /\ \A m \in received[c] : m.cid = cid[c] /\ m.from \in expected[c]
        /\ Consistent(received[c])
        /\ pc[c] = "returned" => Complete(received[c], expected[c])

IInv == TypeOK /\ Located /\ Apart /\ Holdings /\ LossIsReported /\ BlameIsJust

-----------------------------------------------------------------------------
LEMMA NoConflicts ==
    ASSUME NEW S
    PROVE  Conflicting(S) = {} <=> Consistent(S)
  BY DEF Conflicting, Consistent

\* Every sender reported by the scan has two payloads in what was scanned.
LEMMA ConflictWitness ==
    ASSUME NEW S, NEW from \in Conflicting(S)
    PROVE  \E x, y \in S : x.from = from /\ y.from = from /\ x.payload # y.payload
  BY DEF Conflicting

\* A conflict that a message completes is one between it and an earlier one.
LEMMA NewConflict ==
    ASSUME NEW S, NEW m, Consistent(S), Conflicting(S \cup {m}) # {}
    PROVE  \E x \in S : x.from = m.from /\ x.payload # m.payload
  BY DEF Conflicting, Consistent

LEMMA BufferFinite ==
    ASSUME TypeOK
    PROVE  IsFiniteSet(receiveBuffer) /\ Cardinality(receiveBuffer) \in Nat
  <1>1. receiveBuffer \in SUBSET Traffic
    BY DEF TypeOK
  <1> QED
    BY <1>1, RouterAssumption, FS_Subset, FS_CardinalityType

-----------------------------------------------------------------------------
LEMMA InitIInv == Init => IInv
  <1> SUFFICES ASSUME Init PROVE IInv
    OBVIOUS
  <1>1. TypeOK
    BY FS_EmptySet, RouterAssumption DEF Init, TypeOK, Statuses
  <1>2. Located /\ Apart
    BY DEF Init, Located, Apart, Held
  <1>3. Holdings
    BY DEF Init, Holdings, Consistent
  <1>4. LossIsReported /\ BlameIsJust
    BY DEF Init, LossIsReported, BlameIsJust
  <1> QED
    BY <1>1, <1>2, <1>3, <1>4 DEF IInv

LEMMA ArriveStep ==
    ASSUME IInv, NEW m \in Traffic, Arrive(m)
    PROVE  IInv'
  <1>1. /\ m \notin arrived /\ arrived' = arrived \cup {m} /\ wire' = wire \cup {m}
        /\ UNCHANGED <<receiveBuffer, pc, received, status, handed, lost, failed,
                       blamed, cid, expected, calls>>
    BY DEF Arrive, locals
  <1>2. TypeOK'
    BY <1>1 DEF IInv, TypeOK
  <1>3. Located' /\ Apart'
    BY <1>1 DEF IInv, Located, Apart, Held
  <1>4. Holdings'
    BY <1>1 DEF IInv, Holdings, Consistent, Complete
  <1>5. LossIsReported'
    BY <1>1 DEF IInv, LossIsReported
  <1>6. BlameIsJust'
    BY <1>1 DEF IInv, BlameIsJust
  <1> QED
    BY <1>2, <1>3, <1>4, <1>5, <1>6 DEF IInv

\* Any error return of a call: what it held and what was dropped with it is
\* lost, under the ID of a call that those messages were for, or with a report
\* that the buffer is full.
LEMMA FailLosses ==
    ASSUME IInv, NEW c \in Callers, NEW id \in CorrelationIDs, NEW why, NEW dropped,
           Fail(c, id, why, dropped),
           \A m \in received[c] : m.cid = id,
           \A m \in dropped : m.from \in Quorum /\ m.cid # Undecodable =>
                                 m.cid = id \/ why = "full"
    PROVE  LossIsReported'
  <1>1. /\ lost' = lost \cup received[c] \cup dropped
        /\ failed' = failed \cup {<<id, why>>}
    BY DEF Fail
  <1> SUFFICES ASSUME NEW m \in lost', m.from \in Quorum, m.cid # Undecodable
               PROVE  \E f \in failed' : f[1] = m.cid \/ f[2] = "full"
    BY DEF LossIsReported
  <1>2. CASE m \in lost
    BY <1>1, <1>2 DEF IInv, LossIsReported
  <1>3. CASE m \notin lost
    <2>1. m.cid = id \/ why = "full"
      BY <1>1, <1>3
    <2>2. <<id, why>> \in failed'
      BY <1>1
    <2> QED
      BY <2>1, <2>2
  <1> QED
    BY <1>2, <1>3

\* Any error return: the types, the places and the holdings.
LEMMA FailTypes ==
    ASSUME IInv, NEW c \in Callers, NEW id \in CorrelationIDs, NEW why \in Statuses,
           NEW dropped \in SUBSET Traffic, Fail(c, id, why, dropped)
    PROVE  /\ pc' \in [Callers -> {"idle", "receiving", "returned"}]
           /\ status' \in [Callers -> Statuses]
           /\ received' \in [Callers -> SUBSET Traffic]
           /\ lost' \subseteq Traffic
           /\ failed' \subseteq CorrelationIDs \X Statuses
           /\ received'[c] = {} /\ pc'[c] = "idle"
           /\ \A d \in Callers \ {c} : received'[d] = received[d] /\ pc'[d] = pc[d]
           /\ \A m : Held(m)' <=> \E d \in Callers \ {c} : m \in received[d]
  <1>1. /\ pc' = [pc EXCEPT ![c] = "idle"]
        /\ status' = [status EXCEPT ![c] = why]
        /\ lost' = lost \cup received[c] \cup dropped
        /\ received' = [received EXCEPT ![c] = {}]
        /\ failed' = failed \cup {<<id, why>>}
    BY DEF Fail
  <1>2. TypeOK
    BY DEF IInv
  <1>3. pc' \in [Callers -> {"idle", "receiving", "returned"}]
    BY <1>1, <1>2 DEF TypeOK
  <1>4. status' \in [Callers -> Statuses]
    BY <1>1, <1>2 DEF TypeOK
  <1>5. received' \in [Callers -> SUBSET Traffic]
    BY <1>1, <1>2 DEF TypeOK
  <1>6. lost' \subseteq Traffic
    BY <1>1, <1>2 DEF TypeOK
  <1>7. failed' \subseteq CorrelationIDs \X Statuses
    BY <1>1, <1>2 DEF TypeOK
  <1>8. /\ received'[c] = {} /\ pc'[c] = "idle"
        /\ \A d \in Callers \ {c} : received'[d] = received[d] /\ pc'[d] = pc[d]
    BY <1>1, <1>2 DEF TypeOK
  <1>9. \A m : Held(m)' <=> \E d \in Callers \ {c} : m \in received[d]
    BY <1>8 DEF Held
  <1> QED
    BY <1>3, <1>4, <1>5, <1>6, <1>7, <1>8, <1>9

-----------------------------------------------------------------------------
\* What the calls held before and hold after a step that leaves every other
\* call alone.
LEMMA OthersHold ==
    ASSUME IInv, NEW c \in Callers,
           \A d \in Callers \ {c} : /\ received'[d] = received[d] /\ pc'[d] = pc[d]
                                    /\ cid'[d] = cid[d] /\ expected'[d] = expected[d],
           pc'[c] = "idle" => received'[c] = {},
           pc'[c] # "idle" => cid'[c] \in CorrelationIDs,
           \A m \in received'[c] : m.cid = cid'[c] /\ m.from \in expected'[c],
           Consistent(received'[c]),
           pc'[c] = "returned" => Complete(received'[c], expected'[c])
    PROVE  Holdings'
  BY DEF IInv, Holdings, Consistent, Complete

\* The scan meets two payloads of one sender: the call fails at once.
LEMMA ScanConflict ==
    ASSUME IInv, NEW c \in Callers, NEW id \in UsedBy[c], NEW froms \in SUBSET Quorum,
           pc[c] = "idle", calls[c] < MaxCalls,
           calls' = [calls EXCEPT ![c] = @ + 1],
           cid' = [cid EXCEPT ![c] = id],
           expected' = [expected EXCEPT ![c] = froms],
           UNCHANGED <<wire, arrived, handed, receiveBuffer>>,
           NEW from \in Conflicting(Matching(receiveBuffer, id, froms)),
           blamed' = blamed \cup {<<from, id>>},
           Fail(c, id, "duplicate", {})
    PROVE  IInv'
  <1>0. TypeOK /\ Holdings
    BY DEF IInv
  <1>1. id \in CorrelationIDs
    BY RouterAssumption
  <1>2. received[c] = {}
    BY <1>0 DEF Holdings
  <1>3. PICK x \in Matching(receiveBuffer, id, froms), y \in Matching(receiveBuffer, id, froms) :
           x.from = from /\ y.from = from /\ x.payload # y.payload
    BY ConflictWitness
  <1>4. /\ x \in receiveBuffer /\ y \in receiveBuffer
        /\ x.cid = id /\ y.cid = id /\ from \in froms
    BY <1>3 DEF Matching
  <1>5. /\ pc' \in [Callers -> {"idle", "receiving", "returned"}]
        /\ status' \in [Callers -> Statuses]
        /\ received' \in [Callers -> SUBSET Traffic]
        /\ lost' \subseteq Traffic
        /\ failed' \subseteq CorrelationIDs \X Statuses
        /\ received'[c] = {} /\ pc'[c] = "idle"
        /\ \A d \in Callers \ {c} : received'[d] = received[d] /\ pc'[d] = pc[d]
        /\ \A m : Held(m)' <=> \E d \in Callers \ {c} : m \in received[d]
    BY <1>1, FailTypes DEF Statuses
  <1>6. TypeOK'
    <2>1. calls' \in [Callers -> 0 .. MaxCalls]
      BY <1>0, RouterAssumption DEF TypeOK
    <2>2. cid' \in [Callers -> CorrelationIDs \cup {Undecodable}]
      BY <1>0, <1>1 DEF TypeOK
    <2>3. expected' \in [Callers -> SUBSET Quorum]
      BY <1>0 DEF TypeOK
    <2>4. blamed' \subseteq Quorum \X CorrelationIDs
      BY <1>0, <1>1, <1>4 DEF TypeOK
    <2> QED
      BY <1>0, <1>5, <2>1, <2>2, <2>3, <2>4 DEF TypeOK
  <1>7. lost' = lost /\ received' = received
    <2>1. lost' = lost \cup received[c] \cup {} /\ received' = [received EXCEPT ![c] = {}]
      BY DEF Fail
    <2> QED
      BY <1>0, <1>2, <2>1 DEF TypeOK
  <1>8. Located' /\ Apart'
    BY <1>7 DEF IInv, Located, Apart, Held
  <1>9. Holdings'
    <2>1. \A d \in Callers \ {c} : cid'[d] = cid[d] /\ expected'[d] = expected[d]
      BY <1>0 DEF TypeOK
    <2> QED
      BY <1>5, <2>1, OthersHold DEF Consistent
  <1>10. LossIsReported'
    BY <1>1, <1>2, FailLosses
  <1>11. BlameIsJust'
    <2>1. x \in arrived /\ y \in arrived
      BY <1>0, <1>4 DEF IInv, TypeOK, Located
    <2> SUFFICES ASSUME NEW b \in blamed'
                 PROVE  \E v, w \in arrived :
                           /\ v.from = b[1] /\ w.from = b[1]
                           /\ v.cid = b[2] /\ w.cid = b[2]
                           /\ v.payload # w.payload
      BY DEF BlameIsJust
    <2>2. CASE b \in blamed
      BY <2>2 DEF IInv, BlameIsJust
    <2>3. CASE b = <<from, id>>
      BY <1>3, <1>4, <2>1, <2>3
    <2> QED
      BY <2>2, <2>3
  <1> QED
    BY <1>6, <1>8, <1>9, <1>10, <1>11 DEF IInv

\* The scan moves what the call wants from the buffer to the call.
LEMMA ScanMatch ==
    ASSUME IInv, NEW c \in Callers, NEW id \in UsedBy[c], NEW froms \in SUBSET Quorum,
           pc[c] = "idle", calls[c] < MaxCalls,
           calls' = [calls EXCEPT ![c] = @ + 1],
           cid' = [cid EXCEPT ![c] = id],
           expected' = [expected EXCEPT ![c] = froms],
           UNCHANGED <<wire, arrived, handed>>,
           NEW match, match = Matching(receiveBuffer, id, froms),
           Conflicting(match) = {},
           received' = [received EXCEPT ![c] = match],
           receiveBuffer' = receiveBuffer \ match,
           pc' = [pc EXCEPT ![c] = "receiving"],
           UNCHANGED <<status, lost, failed, blamed>>
    PROVE  IInv'
  <1>0. TypeOK /\ Holdings
    BY DEF IInv
  <1>1. id \in CorrelationIDs
    BY RouterAssumption
  <1>2. received[c] = {}
    BY <1>0 DEF Holdings
  <1>3. match \subseteq receiveBuffer /\ \A m \in match : m.cid = id /\ m.from \in froms
    BY DEF Matching
  <1>4. TypeOK'
    <2>1. calls' \in [Callers -> 0 .. MaxCalls]
      BY <1>0, RouterAssumption DEF TypeOK
    <2>2. cid' \in [Callers -> CorrelationIDs \cup {Undecodable}]
      BY <1>0, <1>1 DEF TypeOK
    <2>3. expected' \in [Callers -> SUBSET Quorum]
      BY <1>0 DEF TypeOK
    <2>4. Cardinality(receiveBuffer') <= MaxReceiveBufferSize
      <3>1. receiveBuffer' \in SUBSET receiveBuffer
        OBVIOUS
      <3>2. IsFiniteSet(receiveBuffer) /\ Cardinality(receiveBuffer) \in Nat
        BY <1>0, BufferFinite
      <3>3. IsFiniteSet(receiveBuffer') /\ Cardinality(receiveBuffer') <= Cardinality(receiveBuffer)
        BY <3>1, <3>2, FS_Subset
      <3>4. Cardinality(receiveBuffer') \in Nat
        BY <3>3, FS_CardinalityType
      <3> QED
        BY <1>0, <3>2, <3>3, <3>4, RouterAssumption DEF TypeOK
    <2>5. received' \in [Callers -> SUBSET Traffic]
      BY <1>0, <1>3 DEF TypeOK
    <2>6. pc' \in [Callers -> {"idle", "receiving", "returned"}]
      BY <1>0 DEF TypeOK
    <2>7. receiveBuffer' \subseteq {m \in Traffic : m.from \in Quorum /\ m.cid # Undecodable}
      BY <1>0 DEF TypeOK
    <2> QED
      BY <1>0, <2>1, <2>2, <2>3, <2>4, <2>5, <2>6, <2>7 DEF TypeOK
  <1>5. /\ received'[c] = match /\ pc'[c] = "receiving" /\ cid'[c] = id /\ expected'[c] = froms
        /\ \A d \in Callers \ {c} : /\ received'[d] = received[d] /\ pc'[d] = pc[d]
                                    /\ cid'[d] = cid[d] /\ expected'[d] = expected[d]
    BY <1>0 DEF TypeOK
  <1>6. \A m : Held(m)' <=> m \in match \/ Held(m)
    BY <1>2, <1>5 DEF Held
  <1>7. Located'
    BY <1>3, <1>6 DEF IInv, Located
  <1>8. Apart'
    <2> SUFFICES ASSUME NEW m \in Traffic
                 PROVE  /\ m \in wire => m \notin receiveBuffer' /\ ~Held(m)' /\ m \notin handed /\ m \notin lost
                        /\ m \in receiveBuffer' => ~Held(m)' /\ m \notin handed /\ m \notin lost
                        /\ Held(m)' => m \notin handed /\ m \notin lost
                        /\ m \in handed => m \notin lost
                        /\ \A d, e \in Callers : m \in received'[d] /\ m \in received'[e] => d = e
      BY DEF Apart
    <2>1. /\ m \in wire => m \notin receiveBuffer /\ ~Held(m) /\ m \notin handed /\ m \notin lost
          /\ m \in receiveBuffer => ~Held(m) /\ m \notin handed /\ m \notin lost
          /\ Held(m) => m \notin handed /\ m \notin lost
          /\ m \in handed => m \notin lost
          /\ \A d, e \in Callers : m \in received[d] /\ m \in received[e] => d = e
      BY DEF IInv, Apart
    <2>2. \A d, e \in Callers : m \in received'[d] /\ m \in received'[e] => d = e
      BY <1>3, <1>5, <2>1 DEF Held
    <2> QED
      BY <1>3, <1>6, <2>1, <2>2
  <1>9. Holdings'
    <2>1. Consistent(received'[c])
      BY <1>5, NoConflicts
    <2> QED
      BY <1>1, <1>3, <1>5, <2>1, OthersHold
  <1>10. LossIsReported' /\ BlameIsJust'
    BY DEF IInv, LossIsReported, BlameIsJust
  <1> QED
    BY <1>4, <1>7, <1>8, <1>9, <1>10 DEF IInv

LEMMA ReceiveFromStep ==
    ASSUME IInv, NEW c \in Callers, NEW id \in UsedBy[c], NEW froms \in SUBSET Quorum,
           ReceiveFrom(c, id, froms)
    PROVE  IInv'
  <1>1. /\ pc[c] = "idle" /\ calls[c] < MaxCalls
        /\ calls' = [calls EXCEPT ![c] = @ + 1]
        /\ cid' = [cid EXCEPT ![c] = id]
        /\ expected' = [expected EXCEPT ![c] = froms]
        /\ ScanBuffer(c, id, froms)
        /\ UNCHANGED <<wire, arrived, handed>>
    BY DEF ReceiveFrom, transport
  <1>2. CASE Conflicting(Matching(receiveBuffer, id, froms)) # {}
    <2>1. PICK from \in Conflicting(Matching(receiveBuffer, id, froms)) :
             blamed' = blamed \cup {<<from, id>>}
      BY <1>1, <1>2 DEF ScanBuffer
    <2>2. Fail(c, id, "duplicate", {}) /\ UNCHANGED receiveBuffer
      BY <1>1, <1>2 DEF ScanBuffer
    <2> QED
      BY <1>1, <2>1, <2>2, ScanConflict
  <1>3. CASE Conflicting(Matching(receiveBuffer, id, froms)) = {}
    <2> DEFINE match == Matching(receiveBuffer, id, froms)
    <2>1. /\ received' = [received EXCEPT ![c] = match]
          /\ receiveBuffer' = receiveBuffer \ match
          /\ pc' = [pc EXCEPT ![c] = "receiving"]
          /\ UNCHANGED <<status, lost, failed, blamed>>
      BY <1>1, <1>3 DEF ScanBuffer
    <2> QED
      BY <1>1, <1>3, <2>1, ScanMatch
  <1> QED
    BY <1>2, <1>3

-----------------------------------------------------------------------------
\* An error return from the receive loop, with the messages in dropped taken
\* off the wire.
LEMMA FailStep ==
    ASSUME IInv, NEW c \in Callers, NEW why \in Statuses, NEW dropped \in SUBSET wire,
           pc[c] = "receiving",
           Fail(c, cid[c], why, dropped),
           wire' = wire \ dropped,
           UNCHANGED <<arrived, handed, cid, expected, calls, receiveBuffer>>,
           \A m \in dropped : m.from \in Quorum /\ m.cid # Undecodable =>
                                 m.cid = cid[c] \/ why = "full",
           blamed' \subseteq Quorum \X CorrelationIDs, BlameIsJust'
    PROVE  IInv'
  <1>0. TypeOK /\ Holdings
    BY DEF IInv
  <1>1. cid[c] \in CorrelationIDs /\ \A m \in received[c] : m.cid = cid[c]
    BY <1>0 DEF Holdings
  <1>2. dropped \in SUBSET Traffic /\ dropped \subseteq wire
    BY <1>0 DEF TypeOK
  <1>3. /\ pc' \in [Callers -> {"idle", "receiving", "returned"}]
        /\ status' \in [Callers -> Statuses]
        /\ received' \in [Callers -> SUBSET Traffic]
        /\ lost' \subseteq Traffic
        /\ failed' \subseteq CorrelationIDs \X Statuses
        /\ received'[c] = {} /\ pc'[c] = "idle"
        /\ \A d \in Callers \ {c} : received'[d] = received[d] /\ pc'[d] = pc[d]
        /\ \A m : Held(m)' <=> \E d \in Callers \ {c} : m \in received[d]
    BY <1>1, <1>2, FailTypes
  <1>4. TypeOK'
    BY <1>0, <1>2, <1>3 DEF TypeOK
  <1>5. lost' = lost \cup received[c] \cup dropped
    BY DEF Fail
  <1>6. Located'
    <2> SUFFICES ASSUME NEW m \in Traffic
                 PROVE  m \in arrived <=> \/ m \in wire' \/ m \in receiveBuffer \/ Held(m)'
                                          \/ m \in handed \/ m \in lost'
      BY DEF Located
    <2>1. m \in arrived <=> \/ m \in wire \/ m \in receiveBuffer \/ Held(m)
                            \/ m \in handed \/ m \in lost
      BY DEF IInv, Located
    <2>2. Held(m) <=> m \in received[c] \/ Held(m)'
      BY <1>3 DEF Held
    <2> QED
      BY <1>2, <1>5, <2>1, <2>2
  <1>7. Apart'
    <2> SUFFICES ASSUME NEW m \in Traffic
                 PROVE  /\ m \in wire' => m \notin receiveBuffer /\ ~Held(m)' /\ m \notin handed /\ m \notin lost'
                        /\ m \in receiveBuffer => ~Held(m)' /\ m \notin handed /\ m \notin lost'
                        /\ Held(m)' => m \notin handed /\ m \notin lost'
                        /\ m \in handed => m \notin lost'
                        /\ \A d, e \in Callers : m \in received'[d] /\ m \in received'[e] => d = e
      BY DEF Apart
    <2>1. /\ m \in wire => m \notin receiveBuffer /\ ~Held(m) /\ m \notin handed /\ m \notin lost
          /\ m \in receiveBuffer => ~Held(m) /\ m \notin handed /\ m \notin lost
          /\ Held(m) => m \notin handed /\ m \notin lost
          /\ m \in handed => m \notin lost
          /\ \A d, e \in Callers : m \in received[d] /\ m \in received[e] => d = e
      BY DEF IInv, Apart
    <2>2. (Held(m)' => Held(m) /\ m \notin received[c]) /\ (m \in received[c] => Held(m))
      BY <1>3, <2>1 DEF Held
    <2>3. \A d, e \in Callers : m \in received'[d] /\ m \in received'[e] => d = e
      BY <1>3, <2>1
    <2> QED
      BY <1>2, <1>5, <2>1, <2>2, <2>3
  <1>8. Holdings'
    BY <1>3, OthersHold DEF Consistent
  <1>9. LossIsReported'
    BY <1>1, FailLosses
  <1> QED
    BY <1>4, <1>6, <1>7, <1>8, <1>9 DEF IInv

\* Unchanged blame stays just.
LEMMA BlameKept ==
    ASSUME IInv, UNCHANGED <<blamed, arrived>>
    PROVE  blamed' \subseteq Quorum \X CorrelationIDs /\ BlameIsJust'
  BY DEF IInv, TypeOK, BlameIsJust

LEMMA CancelStep ==
    ASSUME IInv, NEW c \in Callers, Cancel(c)
    PROVE  IInv'
  <1>1. /\ pc[c] = "receiving" /\ Fail(c, cid[c], "cancelled", {})
        /\ UNCHANGED <<wire, arrived, receiveBuffer, handed, blamed, cid, expected, calls>>
    BY DEF Cancel, transport, locals
  <1>2. {} \in SUBSET wire /\ wire' = wire \ {} /\ "cancelled" \in Statuses
    BY <1>1 DEF Statuses
  <1> QED
    BY <1>1, <1>2, BlameKept, FailStep

LEMMA DropStep ==
    ASSUME IInv, NEW c \in Callers, NEW m \in wire, wire' = wire \ {m},
           DropStranger(c, m),
           UNCHANGED <<arrived, handed, cid, expected, calls>>
    PROVE  IInv'
  <1>1. /\ m.from \notin Quorum /\ lost' = lost \cup {m}
        /\ UNCHANGED <<receiveBuffer, pc, received, status, failed, blamed>>
    BY DEF DropStranger
  <1>2. TypeOK'
    BY <1>1 DEF IInv, TypeOK
  <1>3. Located' /\ Apart'
    BY <1>1 DEF IInv, Located, Apart, Held
  <1>4. Holdings'
    BY <1>1 DEF IInv, Holdings, Consistent, Complete
  <1>5. LossIsReported'
    BY <1>1 DEF IInv, LossIsReported
  <1>6. BlameIsJust'
    BY <1>1, BlameKept
  <1> QED
    BY <1>2, <1>3, <1>4, <1>5, <1>6 DEF IInv

LEMMA RejectStep ==
    ASSUME IInv, NEW c \in Callers, pc[c] = "receiving", NEW m \in wire, wire' = wire \ {m},
           RejectUndecodable(c, m),
           UNCHANGED <<arrived, handed, cid, expected, calls>>
    PROVE  IInv'
  <1>1. /\ m.cid = Undecodable /\ Fail(c, cid[c], "undecodable", {m})
        /\ UNCHANGED <<receiveBuffer, blamed>>
    BY DEF RejectUndecodable
  <1>2. {m} \in SUBSET wire /\ "undecodable" \in Statuses
    BY DEF Statuses
  <1> QED
    BY <1>1, <1>2, BlameKept, FailStep

LEMMA CollectStep ==
    ASSUME IInv, NEW c \in Callers, pc[c] = "receiving", NEW m \in wire, wire' = wire \ {m},
           Collect(c, m),
           UNCHANGED <<arrived, handed, cid, expected, calls>>
    PROVE  IInv'
  <1>0. TypeOK /\ Holdings
    BY DEF IInv
  <1>1. /\ m.from \in Quorum /\ m.cid = cid[c] /\ m.from \in expected[c]
        /\ UNCHANGED receiveBuffer
    BY DEF Collect, Wanted
  <1>2. m \in arrived /\ m \in Traffic /\ {m} \in SUBSET wire
    BY DEF IInv, TypeOK, Located
  <1>3. cid[c] \in CorrelationIDs /\ Consistent(received[c])
    BY <1>0 DEF Holdings
  <1>4. CASE Conflicting(received[c] \cup {m}) # {}
    <2>1. /\ blamed' = blamed \cup {<<m.from, cid[c]>>}
          /\ Fail(c, cid[c], "duplicate", {m})
      BY <1>4 DEF Collect
    <2>2. PICK x \in received[c] : x.from = m.from /\ x.payload # m.payload
      BY <1>3, <1>4, NewConflict
    <2>3. x.cid = cid[c] /\ x \in arrived
      <3>1. x.cid = cid[c]
        BY <1>0 DEF Holdings
      <3>2. x \in Traffic
        BY <1>0 DEF TypeOK
      <3> QED
        BY <3>1, <3>2 DEF IInv, Located, Held
    <2>4. blamed' \subseteq Quorum \X CorrelationIDs
      BY <1>0, <1>1, <1>3, <2>1 DEF TypeOK
    <2>5. BlameIsJust'
      <3> SUFFICES ASSUME NEW b \in blamed'
                   PROVE  \E v, w \in arrived :
                             /\ v.from = b[1] /\ w.from = b[1]
                             /\ v.cid = b[2] /\ w.cid = b[2]
                             /\ v.payload # w.payload
        BY DEF BlameIsJust
      <3>1. CASE b \in blamed
        BY <3>1 DEF IInv, BlameIsJust
      <3>2. CASE b = <<m.from, cid[c]>>
        BY <1>1, <1>2, <2>2, <2>3, <3>2
      <3> QED
        BY <2>1, <3>1, <3>2
    <2>6. "duplicate" \in Statuses
      BY DEF Statuses
    <2> QED
      BY <1>1, <1>2, <2>1, <2>4, <2>5, <2>6, FailStep
  <1>5. CASE Conflicting(received[c] \cup {m}) = {}
    <2>1. /\ received' = [received EXCEPT ![c] = @ \cup {m}]
          /\ UNCHANGED <<pc, status, lost, failed, blamed>>
      BY <1>5 DEF Collect
    <2>2. /\ received'[c] = received[c] \cup {m}
          /\ \A d \in Callers \ {c} : received'[d] = received[d]
      BY <1>0, <2>1 DEF TypeOK
    <2>3. \A n : Held(n)' <=> n = m \/ Held(n)
      BY <2>2 DEF Held
    <2>4. TypeOK'
      <3>1. received' \in [Callers -> SUBSET Traffic]
        BY <1>0, <1>2, <2>1 DEF TypeOK
      <3> QED
        BY <1>0, <1>1, <2>1, <3>1 DEF TypeOK
    <2>5. Located'
      BY <1>1, <1>2, <2>1, <2>3 DEF IInv, Located
    <2>6. Apart'
      <3> SUFFICES ASSUME NEW n \in Traffic
                   PROVE  /\ n \in wire' => n \notin receiveBuffer /\ ~Held(n)' /\ n \notin handed /\ n \notin lost
                          /\ n \in receiveBuffer => ~Held(n)' /\ n \notin handed /\ n \notin lost
                          /\ Held(n)' => n \notin handed /\ n \notin lost
                          /\ n \in handed => n \notin lost
                          /\ \A d, e \in Callers : n \in received'[d] /\ n \in received'[e] => d = e
        BY <1>1, <2>1 DEF Apart
      <3>1. /\ n \in wire => n \notin receiveBuffer /\ ~Held(n) /\ n \notin handed /\ n \notin lost
            /\ n \in receiveBuffer => ~Held(n) /\ n \notin handed /\ n \notin lost
            /\ Held(n) => n \notin handed /\ n \notin lost
            /\ n \in handed => n \notin lost
            /\ \A d, e \in Callers : n \in received[d] /\ n \in received[e] => d = e
        BY DEF IInv, Apart
      <3>2. \A d, e \in Callers : n \in received'[d] /\ n \in received'[e] => d = e
        BY <2>2, <3>1 DEF Held
      <3> QED
        BY <2>3, <3>1, <3>2
    <2>7. Holdings'
      <3>1. Consistent(received'[c])
        BY <1>5, <2>2, NoConflicts
      <3>2. \A n \in received'[c] : n.cid = cid[c] /\ n.from \in expected[c]
        BY <1>0, <1>1, <2>2 DEF Holdings
      <3> QED
        BY <1>3, <2>1, <2>2, <3>1, <3>2, OthersHold
    <2>8. LossIsReported' /\ BlameIsJust'
      BY <2>1 DEF IInv, LossIsReported, BlameIsJust
    <2> QED
      BY <2>4, <2>5, <2>6, <2>7, <2>8 DEF IInv
  <1> QED
    BY <1>4, <1>5

LEMMA BufferStep ==
    ASSUME IInv, NEW c \in Callers, pc[c] = "receiving", NEW m \in wire, wire' = wire \ {m},
           Buffer(c, m),
           UNCHANGED <<arrived, handed, cid, expected, calls>>
    PROVE  IInv'
  <1>0. TypeOK
    BY DEF IInv
  <1>1. m.from \in Quorum /\ m.cid # Undecodable /\ UNCHANGED blamed
    BY DEF Buffer
  <1>2. IsFiniteSet(receiveBuffer) /\ Cardinality(receiveBuffer) \in Nat
    BY <1>0, BufferFinite
  <1>3. CASE Cardinality(receiveBuffer) >= MaxReceiveBufferSize
    <2>1. Fail(c, cid[c], "full", {m}) /\ UNCHANGED receiveBuffer
      BY <1>2, <1>3, RouterAssumption DEF Buffer
    <2>2. {m} \in SUBSET wire /\ "full" \in Statuses
      BY DEF Statuses
    <2> QED
      BY <1>1, <2>1, <2>2, BlameKept, FailStep
  <1>4. CASE Cardinality(receiveBuffer) < MaxReceiveBufferSize
    <2>1. /\ receiveBuffer' = receiveBuffer \cup {m}
          /\ UNCHANGED <<pc, received, status, lost, failed>>
      BY <1>2, <1>4, RouterAssumption DEF Buffer
    <2>2. TypeOK'
      <3>1. Cardinality(receiveBuffer') <= MaxReceiveBufferSize
        <4>1. Cardinality(receiveBuffer \cup {m}) \in
                 {Cardinality(receiveBuffer), Cardinality(receiveBuffer) + 1}
          BY <1>2, FS_AddElement
        <4> QED
          BY <1>2, <1>4, <2>1, <4>1, RouterAssumption
      <3>2. receiveBuffer' \subseteq {n \in Traffic : n.from \in Quorum /\ n.cid # Undecodable}
        BY <1>0, <1>1, <2>1 DEF TypeOK
      <3> QED
        BY <1>0, <1>1, <2>1, <3>1, <3>2 DEF TypeOK
    <2>3. Located' /\ Apart'
      BY <2>1 DEF IInv, Located, Apart, Held
    <2>4. Holdings'
      BY <2>1 DEF IInv, Holdings, Consistent, Complete
    <2>5. LossIsReported' /\ BlameIsJust'
      BY <1>1, <2>1 DEF IInv, LossIsReported, BlameIsJust
    <2> QED
      BY <2>2, <2>3, <2>4, <2>5 DEF IInv
  <1> QED
    BY <1>2, <1>3, <1>4, RouterAssumption

LEMMA ReceiveStep ==
    ASSUME IInv, NEW c \in Callers, Receive(c)
    PROVE  IInv'
  <1>1. /\ pc[c] = "receiving"
        /\ UNCHANGED <<arrived, handed, cid, expected, calls>>
    BY DEF Receive, locals
  <1>2. PICK m \in wire :
           /\ wire' = wire \ {m}
           /\ DropStranger(c, m) \/ RejectUndecodable(c, m) \/ Collect(c, m) \/ Buffer(c, m)
    BY DEF Receive
  <1> QED
    BY <1>1, <1>2, DropStep, RejectStep, CollectStep, BufferStep

LEMMA ReturnStep ==
    ASSUME IInv, NEW c \in Callers, Return(c)
    PROVE  IInv'
  <1>0. TypeOK
    BY DEF IInv
  <1>1. /\ pc[c] = "receiving" /\ Complete(received[c], expected[c])
        /\ pc' = [pc EXCEPT ![c] = "returned"]
        /\ status' = [status EXCEPT ![c] = "ok"]
        /\ UNCHANGED <<wire, arrived, receiveBuffer, received, handed, lost, failed,
                       blamed, cid, expected, calls>>
    BY DEF Return, transport, locals
  <1>2. TypeOK'
    <2>1. pc' \in [Callers -> {"idle", "receiving", "returned"}]
      BY <1>0, <1>1 DEF TypeOK
    <2>2. status' \in [Callers -> Statuses]
      BY <1>0, <1>1 DEF TypeOK, Statuses
    <2> QED
      BY <1>0, <1>1, <2>1, <2>2 DEF TypeOK
  <1>3. Located' /\ Apart'
    BY <1>1 DEF IInv, Located, Apart, Held
  <1>4. Holdings'
    <2>1. pc'[c] = "returned" /\ \A d \in Callers \ {c} : pc'[d] = pc[d]
      BY <1>0, <1>1 DEF TypeOK
    <2>2. /\ cid[c] \in CorrelationIDs /\ Consistent(received[c])
          /\ \A m \in received[c] : m.cid = cid[c] /\ m.from \in expected[c]
      BY <1>1 DEF IInv, Holdings
    <2> QED
      BY <1>1, <2>1, <2>2, OthersHold
  <1>5. LossIsReported' /\ BlameIsJust'
    BY <1>1 DEF IInv, LossIsReported, BlameIsJust
  <1> QED
    BY <1>2, <1>3, <1>4, <1>5 DEF IInv

LEMMA ConsumeStep ==
    ASSUME IInv, NEW c \in Callers, Consume(c)
    PROVE  IInv'
  <1>0. TypeOK
    BY DEF IInv
  <1>1. /\ pc' = [pc EXCEPT ![c] = "idle"]
        /\ handed' = handed \cup received[c]
        /\ received' = [received EXCEPT ![c] = {}]
        /\ UNCHANGED <<wire, arrived, receiveBuffer, status, lost, failed, blamed,
                       cid, expected, calls>>
    BY DEF Consume, transport, locals
  <1>2. TypeOK'
    <2>1. pc' \in [Callers -> {"idle", "receiving", "returned"}]
      BY <1>0, <1>1 DEF TypeOK
    <2>2. received' \in [Callers -> SUBSET Traffic]
      BY <1>0, <1>1 DEF TypeOK
    <2> QED
      BY <1>0, <1>1, <2>1, <2>2 DEF TypeOK
  <1>3. /\ received'[c] = {} /\ pc'[c] = "idle"
        /\ \A d \in Callers \ {c} : received'[d] = received[d] /\ pc'[d] = pc[d]
    BY <1>0, <1>1 DEF TypeOK
  <1>4. Located' /\ Apart'
    <2> SUFFICES ASSUME NEW m \in Traffic
                 PROVE  /\ m \in arrived <=> \/ m \in wire \/ m \in receiveBuffer \/ Held(m)'
                                             \/ m \in handed' \/ m \in lost
                        /\ m \in wire => m \notin receiveBuffer /\ ~Held(m)' /\ m \notin handed' /\ m \notin lost
                        /\ m \in receiveBuffer => ~Held(m)' /\ m \notin handed' /\ m \notin lost
                        /\ Held(m)' => m \notin handed' /\ m \notin lost
                        /\ m \in handed' => m \notin lost
                        /\ \A d, e \in Callers : m \in received'[d] /\ m \in received'[e] => d = e
      BY <1>1 DEF Located, Apart
    <2>1. /\ m \in arrived <=> \/ m \in wire \/ m \in receiveBuffer \/ Held(m)
                               \/ m \in handed \/ m \in lost
          /\ m \in wire => m \notin receiveBuffer /\ ~Held(m) /\ m \notin handed /\ m \notin lost
          /\ m \in receiveBuffer => ~Held(m) /\ m \notin handed /\ m \notin lost
          /\ Held(m) => m \notin handed /\ m \notin lost
          /\ m \in handed => m \notin lost
          /\ \A d, e \in Callers : m \in received[d] /\ m \in received[e] => d = e
      BY DEF IInv, Located, Apart
    <2>2. /\ Held(m) <=> m \in received[c] \/ Held(m)'
          /\ Held(m)' => m \notin received[c]
      BY <1>3, <2>1 DEF Held
    <2>3. \A d, e \in Callers : m \in received'[d] /\ m \in received'[e] => d = e
      BY <1>3, <2>1
    <2> QED
      BY <1>1, <2>1, <2>2, <2>3
  <1>5. Holdings'
    BY <1>1, <1>3, OthersHold DEF Consistent
  <1>6. LossIsReported' /\ BlameIsJust'
    BY <1>1 DEF IInv, LossIsReported, BlameIsJust
  <1> QED
    BY <1>2, <1>4, <1>5, <1>6 DEF IInv

LEMMA IInvStep == IInv /\ [Next]_vars => IInv'
  <1> SUFFICES ASSUME IInv, [Next]_vars PROVE IInv'
    OBVIOUS
  <1>1. CASE UNCHANGED vars
    BY <1>1 DEF IInv, TypeOK, Located, Apart, Held, Holdings, LossIsReported, BlameIsJust, vars
  <1>2. ASSUME NEW m \in Traffic, Arrive(m) PROVE IInv'
    BY <1>2, ArriveStep
  <1>3. ASSUME NEW c \in Callers, NEW id \in UsedBy[c], NEW froms \in SUBSET Quorum,
               ReceiveFrom(c, id, froms)
        PROVE  IInv'
    BY <1>3, ReceiveFromStep
  <1>4. ASSUME NEW c \in Callers, Receive(c) \/ Cancel(c) \/ Return(c) \/ Consume(c)
        PROVE  IInv'
    BY <1>4, ReceiveStep, CancelStep, ReturnStep, ConsumeStep
  <1> QED
    BY <1>1, <1>2, <1>3, <1>4 DEF Next

LEMMA IInvHolds == Spec => []IInv
  BY InitIInv, IInvStep, PTL DEF Spec

-----------------------------------------------------------------------------
\* What ReceiveFrom returns is one payload of each expected sender, all sent
\* under the correlation ID of the call (ReceiveFrom, router.go).
THEOREM ResultSoundHolds == Spec => []ResultSound
  <1>1. IInv => ResultSound
    <2> SUFFICES ASSUME IInv, NEW c \in Callers, pc[c] = "returned"
                 PROVE  /\ {m.from : m \in received[c]} = expected[c]
                        /\ \A m \in received[c] : m.cid = cid[c] /\ m.from \in Quorum
                        /\ Conflicting(received[c]) = {}
      BY DEF ResultSound
    <2>1. /\ expected[c] \subseteq Quorum
          /\ \A m \in received[c] : m.cid = cid[c] /\ m.from \in expected[c]
          /\ Consistent(received[c])
          /\ expected[c] \subseteq {m.from : m \in received[c]}
      BY DEF IInv, TypeOK, Holdings, Complete
    <2> QED
      BY <2>1, NoConflicts
  <1> QED
    BY <1>1, IInvHolds, PTL

\* Every message that arrived is in one place, whatever the sequence of calls
\* of however many callers, and the buffer keeps its bound.
THEOREM AccountedHolds == Spec => []Accounted
  <1>1. IInv => Accounted
    <2> SUFFICES ASSUME IInv PROVE Accounted
      OBVIOUS
    <2> DEFINE held == UNION {received[c] : c \in Callers}
               places == <<wire, receiveBuffer, held, handed, lost>>
    <2>1. TypeOK
      BY DEF IInv
    <2>2. \A m : m \in held <=> Held(m)
      BY DEF Held
    <2>3. held \subseteq Traffic
      BY <2>1 DEF TypeOK
    <2>4. /\ places[1] = wire /\ places[2] = receiveBuffer /\ places[3] = held
          /\ places[4] = handed /\ places[5] = lost
      OBVIOUS
    <2> HIDE DEF places
    <2>5. \A m : m \in UNION {places[i] : i \in 1 .. 5} <=>
                   \/ m \in wire \/ m \in receiveBuffer \/ m \in held
                   \/ m \in handed \/ m \in lost
      <3>1. 1 .. 5 = {1, 2, 3, 4, 5}
        OBVIOUS
      <3> QED
        BY <2>4, <3>1
    <2>6. arrived = UNION {places[i] : i \in 1 .. 5}
      <3> HIDE DEF held
      <3>1. \A m : m \in arrived <=> m \in UNION {places[i] : i \in 1 .. 5}
        BY <2>1, <2>2, <2>3, <2>5 DEF IInv, Located, TypeOK
      <3> QED
        BY <3>1
    <2>7. \A i, j \in 1 .. 5 : i # j => places[i] \cap places[j] = {}
      <3> HIDE DEF held
      <3>1. /\ wire \cap receiveBuffer = {} /\ wire \cap held = {}
            /\ wire \cap handed = {} /\ wire \cap lost = {}
        BY <2>1, <2>2, <2>3 DEF IInv, Apart, TypeOK
      <3>2. /\ receiveBuffer \cap held = {} /\ receiveBuffer \cap handed = {}
            /\ receiveBuffer \cap lost = {}
        BY <2>1, <2>2, <2>3 DEF IInv, Apart, TypeOK
      <3>3. held \cap handed = {} /\ held \cap lost = {} /\ handed \cap lost = {}
        BY <2>1, <2>2, <2>3 DEF IInv, Apart, TypeOK
      <3>4. 1 .. 5 = {1, 2, 3, 4, 5}
        OBVIOUS
      <3> QED
        BY <2>4, <3>1, <3>2, <3>3, <3>4
    <2>8. \A c, d \in Callers : c # d => received[c] \cap received[d] = {}
      BY <2>1 DEF IInv, Apart, TypeOK
    <2> QED
      BY <2>1, <2>6, <2>7, <2>8 DEF Accounted, places, held
  <1> QED
    BY <1>1, IInvHolds, PTL

\* A message of the quorum is lost only together with an error of a call on its
\* own correlation ID, or one that reports a full buffer.
THEOREM LossIsReportedHolds == Spec => []LossIsReported
  <1>1. IInv => LossIsReported
    BY DEF IInv
  <1> QED
    BY <1>1, IInvHolds, PTL

\* ErrDuplicateMessage names only senders of two different payloads.
THEOREM BlameIsJustHolds == Spec => []BlameIsJust
  <1>1. IInv => BlameIsJust
    BY DEF IInv
  <1> QED
    BY <1>1, IInvHolds, PTL

-----------------------------------------------------------------------------
\* Where one caller has the router to itself, as the runners do, a call finds
\* in the receive loop everything it waits for.  With a second caller this
\* fails: the loop of one call buffers what the other waits for.
THEOREM NoStrandedHolds ==
    ASSUME \A c, d \in Callers : c = d
    PROVE  Spec => []NoStranded
  <1>1. Init => NoStranded
    BY DEF Init, NoStranded
  <1>2. ASSUME IInv, NoStranded, [Next]_vars
        PROVE  NoStranded'
    <2> SUFFICES ASSUME NEW c \in Callers, pc'[c] = "receiving",
                        NEW m \in receiveBuffer', m.cid = cid'[c], m.from \in expected'[c]
                 PROVE  FALSE
      BY DEF NoStranded, Matching
    <2>0. TypeOK
      BY <1>2 DEF IInv
    <2>1. CASE UNCHANGED <<receiveBuffer, cid, expected>> /\ pc[c] = "receiving"
      BY <1>2, <2>1 DEF NoStranded, Matching
    <2>2. ASSUME NEW id \in UsedBy[c], NEW froms \in SUBSET Quorum, ReceiveFrom(c, id, froms)
          PROVE  FALSE
      <3>1. cid'[c] = id /\ expected'[c] = froms
        BY <2>0, <2>2 DEF ReceiveFrom, TypeOK
      <3>2. CASE Conflicting(Matching(receiveBuffer, id, froms)) # {}
        BY <2>0, <2>2, <3>2 DEF ReceiveFrom, ScanBuffer, Fail, TypeOK
      <3>3. CASE Conflicting(Matching(receiveBuffer, id, froms)) = {}
        <4>1. receiveBuffer' = receiveBuffer \ Matching(receiveBuffer, id, froms)
          BY <2>2, <3>3 DEF ReceiveFrom, ScanBuffer
        <4> QED
          BY <3>1, <4>1 DEF Matching
      <3> QED
        BY <3>2, <3>3
    <2>3. ASSUME Receive(c)
          PROVE  FALSE
      <3>1. pc[c] = "receiving" /\ UNCHANGED <<cid, expected>>
        BY <2>3 DEF Receive, locals
      <3>2. PICK n \in wire :
               DropStranger(c, n) \/ RejectUndecodable(c, n) \/ Collect(c, n) \/ Buffer(c, n)
        BY <2>3 DEF Receive
      <3>3. CASE Buffer(c, n)
        <4>1. ~Wanted(c, n) /\ (receiveBuffer' = receiveBuffer \/ receiveBuffer' = receiveBuffer \cup {n})
          BY <3>3 DEF Buffer
        <4> QED
          BY <1>2, <3>1, <4>1 DEF Wanted, NoStranded, Matching
      <3>4. CASE DropStranger(c, n) \/ RejectUndecodable(c, n) \/ Collect(c, n)
        <4>1. UNCHANGED receiveBuffer
          BY <3>4 DEF DropStranger, RejectUndecodable, Collect
        <4> QED
          BY <2>1, <3>1, <4>1
      <3> QED
        BY <3>2, <3>3, <3>4
    <2>4. CASE Cancel(c) \/ Return(c) \/ Consume(c)
      <3>1. pc'[c] # "receiving"
        BY <2>0, <2>4 DEF Cancel, Fail, Return, Consume, TypeOK
      <3> QED
        BY <3>1
    <2>5. CASE UNCHANGED vars \/ \E n \in Traffic : Arrive(n)
      BY <2>1, <2>5 DEF vars, Arrive, locals
    <2> QED
      BY <1>2, <2>2, <2>3, <2>4, <2>5 DEF Next
  <1> QED
    BY <1>1, <1>2, IInvHolds, PTL DEF Spec
=============================================================================
