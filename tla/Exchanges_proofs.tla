---------------------------- MODULE Exchanges_proofs ----------------------------
(***************************************************************************)
(* For every quorum, every number of exchanges and every choice of         *)
(* correlation IDs that keeps consecutive exchanges apart: exchanges stay  *)
(* aligned and in lock step, and honest parties never conflict.            *)
(*                                                                         *)
(* The argument.  A party leaves exchange k only when it holds a message   *)
(* of every other party with payload k, and those were sent by parties     *)
(* that are in exchange k or later: nobody is more than one exchange ahead *)
(* (Ahead).  So of the messages on their way to a party in exchange k,     *)
(* none is younger than k + 1; and where no message is repeated, none is   *)
(* older than k, because all of those have been taken (Fresh, Exclusive).  *)
(* What remains are k and k + 1, whose correlation IDs differ.             *)
(***************************************************************************)
EXTENDS Exchanges, FiniteSetTheorems, TLAPS

Sent(m) ==
    \/ m.payload < exchange[m.from]
    \/ m.payload = exchange[m.from] /\ m.to \notin todo[m.from]

\* A party receives only while exchanges are left, and never sends to itself.
Control ==
    \A p \in Quorum :
        /\ pc[p] = "receive" => Running(p) /\ todo[p] = {}
        /\ todo[p] \subseteq Others(p)
        /\ received[p] # {} => pc[p] = "receive"

\* Every message anywhere was sent, by another party, to the party that has it.
AllSent ==
    /\ \A m \in network : Sent(m) /\ m.from # m.to
    /\ \A p \in Quorum : \A m \in receiveBuffer[p] \cup received[p] :
          Sent(m) /\ m.from # m.to /\ m.to = p

\* A message is in one place.
Exclusive ==
    \A p \in Quorum :
        /\ \A m \in received[p] : m \notin network /\ m \notin receiveBuffer[p]
        /\ \A m \in receiveBuffer[p] : m \notin network

\* LockStep with its reason: q is ahead of p only with p's message in hand.
Ahead ==
    \A p \in Quorum : \A q \in Others(p) :
        /\ exchange[q] <= exchange[p] + 1
        /\ exchange[q] = exchange[p] + 1 => q \notin todo[p]

NoCopies == \A p \in Quorum : MaxCopies[p] = 1

\* Nothing older than its recipient's exchange is left, if nothing is repeated.
Fresh ==
    NoCopies =>
        /\ \A m \in network : m.payload >= exchange[m.to]
        /\ \A p \in Quorum : \A m \in receiveBuffer[p] : m.payload >= exchange[p]

IInv ==
    /\ TypeOK /\ Control /\ AllSent /\ Exclusive /\ Ahead /\ Fresh
    /\ Aligned /\ NoFalseDuplicate

-----------------------------------------------------------------------------
LEMMA MessageFacts ==
    ASSUME NEW m \in Messages
    PROVE  /\ m.from \in Quorum /\ m.to \in Quorum
           /\ m.payload \in 1 .. Last
           /\ m.cid = CorrelationID[m.payload]
           /\ m.copy \in 1 .. MaxCopies[m.from]
           /\ m = Message(m.from, m.to, m.payload, m.copy)
  BY DEF Messages, Message

\* Messages without repetition are determined by sender, recipient, exchange.
LEMMA OneCopy ==
    ASSUME NoCopies, NEW m \in Messages, NEW n \in Messages,
           m.from = n.from, m.to = n.to, m.payload = n.payload
    PROVE  m = n
  <1>1. m.copy = 1 /\ n.copy = 1
    BY MessageFacts DEF NoCopies
  <1> QED
    BY <1>1, MessageFacts

\* Messages of one exchange do not conflict.
LEMMA NoConflict ==
    ASSUME NEW S, NEW k, \A m \in S : m.payload = k
    PROVE  Conflicting(S) = {}
  BY DEF Conflicting

\* The heart of the argument: a pending message with the correlation ID of its
\* recipient's exchange was sent in that exchange.
LEMMA SameExchange ==
    ASSUME IInv, NEW p \in Quorum, Running(p),
           NEW m \in Messages, m \in network \cup receiveBuffer[p], m.to = p,
           m.cid = CorrelationID[exchange[p]]
    PROVE  m.payload = exchange[p]
  <1>1. /\ exchange[p] \in 1 .. Last /\ m.payload \in 1 .. Last
        /\ CorrelationID[m.payload] = CorrelationID[exchange[p]]
        /\ m.from \in Others(p) /\ exchange[m.from] \in Nat
    BY MessageFacts, ExchangesAssumption
    DEF IInv, TypeOK, Running, AllSent, Others
  <1>2. CASE NoCopies
    <2>1. m.payload >= exchange[p]
      BY <1>2 DEF IInv, Fresh
    <2>2. m.payload <= exchange[m.from]
      BY <1>1 DEF IInv, AllSent, Sent
    <2>3. exchange[m.from] <= exchange[p] + 1
      BY <1>1 DEF IInv, Ahead
    <2>4. m.payload # exchange[p] + 1
      BY <1>1, SeparationAssumption, ExchangesAssumption
    <2> QED
      BY <1>1, <2>1, <2>2, <2>3, <2>4, ExchangesAssumption
  <1>3. CASE ~NoCopies
    <2>1. \E q \in Quorum : MaxCopies[q] > 1
      BY <1>3, ExchangesAssumption DEF NoCopies
    <2> QED
      BY <1>1, <2>1, SeparationAssumption
  <1> QED
    BY <1>2, <1>3

LEMMA InitIInv == Init => IInv
  BY ExchangesAssumption
  DEF Init, IInv, TypeOK, Control, AllSent, Exclusive, Ahead, Fresh, Aligned,
      NoFalseDuplicate, Others, Running

-----------------------------------------------------------------------------
LEMMA SendStep ==
    ASSUME IInv, NEW p \in Quorum, NEW q \in Quorum, Send(p, q)
    PROVE  IInv'
  <1>1. PICK n \in 1 .. MaxCopies[p] :
           network' = network \cup {Message(p, q, exchange[p], copy) : copy \in 1 .. n}
    BY DEF Send
  <1> DEFINE new == {Message(p, q, exchange[p], copy) : copy \in 1 .. n}
  <1>2. /\ exchange' = exchange /\ pc' = pc
        /\ receiveBuffer' = receiveBuffer /\ received' = received
        /\ pc[p] = "send" /\ exchange[p] \in 1 .. Last
        /\ q \in todo[p] /\ q # p
        /\ todo' \in [Quorum -> SUBSET Quorum]
        /\ \A r \in Quorum : todo'[r] = IF r = p THEN todo[p] \ {q} ELSE todo[r]
    BY ExchangesAssumption DEF Send, IInv, TypeOK, Control, Running, Others
  <1>3. \A m \in new : /\ m \in Messages /\ m.from = p /\ m.to = q
                       /\ m.payload = exchange[p]
    BY <1>2, ExchangesAssumption DEF Messages, Message
  <1>4. \A m \in Messages : Sent(m) => Sent(m)'
    BY <1>2, MessageFacts DEF Sent
  <1>5. \A m \in new : ~Sent(m) /\ Sent(m)'
    BY <1>2, <1>3, ExchangesAssumption DEF Sent
  <1>6. TypeOK'
    BY <1>1, <1>2, <1>3 DEF IInv, TypeOK
  <1>7. Control'
    BY <1>2 DEF IInv, Control, Running
  <1>8. AllSent'
    <2>1. \A m \in network' : Sent(m)' /\ m.from # m.to
      BY <1>1, <1>2, <1>3, <1>4, <1>5 DEF IInv, AllSent, TypeOK
    <2>2. \A r \in Quorum : \A m \in receiveBuffer[r] \cup received[r] : Sent(m)'
      BY <1>4 DEF IInv, AllSent, TypeOK
    <2> QED
      BY <1>2, <2>1, <2>2 DEF IInv, AllSent
  <1>9. Exclusive'
    BY <1>1, <1>2, <1>5 DEF IInv, Exclusive, AllSent
  <1>10. Ahead'
    BY <1>2 DEF IInv, Ahead
  <1>11. Fresh'
    <2>1. exchange[p] >= exchange[q]
      BY <1>2, ExchangesAssumption DEF IInv, Ahead, TypeOK, Others
    <2> QED
      BY <1>1, <1>2, <1>3, <2>1 DEF IInv, Fresh
  <1>12. Aligned' /\ NoFalseDuplicate'
    BY <1>2 DEF IInv, Aligned, NoFalseDuplicate
  <1> QED
    BY <1>6, <1>7, <1>8, <1>9, <1>10, <1>11, <1>12 DEF IInv

\* The scan never meets a conflict: what it takes was sent in this exchange.
LEMMA ReceiveFromStep ==
    ASSUME IInv, NEW p \in Quorum, ReceiveFrom(p)
    PROVE  IInv'
  <1> DEFINE match == Matching(receiveBuffer[p], CorrelationID[exchange[p]], Others(p))
  <1>1. match \subseteq receiveBuffer[p]
    BY DEF Matching
  <1>2. \A m \in match : m.payload = exchange[p]
    <2> SUFFICES ASSUME NEW m \in match PROVE m.payload = exchange[p]
      OBVIOUS
    <2>1. m \in Messages /\ m \in receiveBuffer[p] /\ m.to = p
      BY <1>1 DEF IInv, TypeOK, AllSent
    <2>2. m.cid = CorrelationID[exchange[p]] /\ Running(p)
      BY DEF Matching, ReceiveFrom
    <2> QED
      BY <2>1, <2>2, SameExchange
  <1>3. Conflicting(match) = {}
    BY <1>2, NoConflict
  <1>4. /\ exchange' = exchange /\ todo' = todo /\ network' = network
        /\ todo[p] = {} /\ Running(p)
        /\ received' = [received EXCEPT ![p] = match]
        /\ receiveBuffer' = [receiveBuffer EXCEPT ![p] = @ \ match]
        /\ pc' = [pc EXCEPT ![p] = "receive"]
    BY <1>3 DEF ReceiveFrom, ScanBuffer
  <1> HIDE DEF match
  <1>5. /\ \A r \in Quorum : receiveBuffer'[r] \subseteq receiveBuffer[r]
        /\ \A r \in Quorum \ {p} : received'[r] = received[r] /\ pc'[r] = pc[r]
        /\ received'[p] = match /\ pc'[p] = "receive"
        /\ \A m \in match : m \notin receiveBuffer'[p]
    BY <1>4 DEF IInv, TypeOK
  <1>6. TypeOK'
    BY <1>1, <1>4 DEF IInv, TypeOK
  <1>7. Control'
    BY <1>4, <1>5 DEF IInv, Control, Running
  <1>8. AllSent'
    <2>1. \A m : Sent(m)' <=> Sent(m)
      BY <1>4 DEF Sent
    <2> QED
      BY <1>1, <1>4, <1>5, <2>1 DEF IInv, AllSent
  <1>9. Exclusive'
    BY <1>1, <1>4, <1>5 DEF IInv, Exclusive
  <1>10. Ahead' /\ Fresh'
    BY <1>4, <1>5 DEF IInv, Ahead, Fresh
  <1>11. Aligned' /\ NoFalseDuplicate'
    BY <1>2, <1>4, <1>5 DEF IInv, Aligned, NoFalseDuplicate
  <1> QED
    BY <1>6, <1>7, <1>8, <1>9, <1>10, <1>11 DEF IInv

LEMMA ReceiveStep ==
    ASSUME IInv, NEW p \in Quorum, Receive(p)
    PROVE  IInv'
  <1>1. PICK m \in network : /\ m.to = p
                             /\ network' = network \ {m}
                             /\ Collect(p, m) \/ Buffer(p, m)
    BY DEF Receive
  <1>2. /\ exchange' = exchange /\ todo' = todo
        /\ pc[p] = "receive" /\ Running(p) /\ m \in Messages
        /\ Sent(m) /\ m.from # m.to
        /\ m \notin received[p] /\ m \notin receiveBuffer[p]
    BY <1>1 DEF Receive, IInv, TypeOK, Control, AllSent, Exclusive
  <1>3. \A x : Sent(x)' <=> Sent(x)
    BY <1>2 DEF Sent
  <1>4. \A r \in Quorum \ {p} : m \notin received[r] /\ m \notin receiveBuffer[r]
    BY <1>1 DEF IInv, AllSent
  <1>5. CASE Collect(p, m)
    <2>1. m.payload = exchange[p]
      BY <1>1, <1>2, <1>5, SameExchange DEF Collect, Wanted
    <2>2. \A x \in received[p] \cup {m} : x.payload = exchange[p]
      BY <2>1 DEF IInv, Aligned
    <2>3. Conflicting(received[p] \cup {m}) = {}
      BY <2>2, NoConflict
    <2>4. /\ received' = [received EXCEPT ![p] = @ \cup {m}]
          /\ pc' = pc /\ receiveBuffer' = receiveBuffer
      BY <1>5, <2>3 DEF Collect
    <2>5. /\ received'[p] = received[p] \cup {m}
          /\ \A r \in Quorum \ {p} : received'[r] = received[r]
      BY <2>4 DEF IInv, TypeOK
    <2>6. TypeOK'
      BY <1>1, <1>2, <2>4 DEF IInv, TypeOK
    <2>7. Control' /\ Ahead' /\ NoFalseDuplicate'
      BY <1>2, <2>4, <2>5 DEF IInv, Control, Ahead, Running, NoFalseDuplicate
    <2>8. AllSent'
      BY <1>1, <1>2, <1>3, <2>4, <2>5 DEF IInv, AllSent
    <2>9. Exclusive'
      BY <1>1, <1>2, <2>4, <2>5 DEF IInv, Exclusive
    <2>10. Fresh'
      BY <1>1, <1>2, <2>4 DEF IInv, Fresh
    <2>11. Aligned'
      BY <1>2, <2>2, <2>5 DEF IInv, Aligned
    <2> QED
      BY <2>6, <2>7, <2>8, <2>9, <2>10, <2>11 DEF IInv
  <1>6. CASE Buffer(p, m)
    <2>1. CASE Fail(p, "full") /\ receiveBuffer' = receiveBuffer
      <3>1. /\ received'[p] = {} /\ pc'[p] = "full"
            /\ \A r \in Quorum \ {p} : received'[r] = received[r] /\ pc'[r] = pc[r]
        BY <2>1 DEF Fail, IInv, TypeOK
      <3>2. TypeOK'
        BY <1>1, <1>2, <2>1 DEF IInv, TypeOK, Fail
      <3>3. Control' /\ Ahead' /\ NoFalseDuplicate' /\ Aligned'
        BY <1>2, <3>1 DEF IInv, Control, Ahead, Running, NoFalseDuplicate, Aligned
      <3>4. AllSent' /\ Exclusive' /\ Fresh'
        BY <1>1, <1>2, <1>3, <2>1, <3>1 DEF IInv, AllSent, Exclusive, Fresh
      <3> QED
        BY <3>2, <3>3, <3>4 DEF IInv
    <2>2. CASE /\ receiveBuffer' = [receiveBuffer EXCEPT ![p] = @ \cup {m}]
               /\ pc' = pc /\ received' = received
      <3>1. /\ receiveBuffer'[p] = receiveBuffer[p] \cup {m}
            /\ \A r \in Quorum \ {p} : receiveBuffer'[r] = receiveBuffer[r]
        BY <2>2 DEF IInv, TypeOK
      <3>2. TypeOK'
        BY <1>1, <1>2, <2>2 DEF IInv, TypeOK
      <3>3. Control' /\ Ahead' /\ NoFalseDuplicate' /\ Aligned'
        BY <1>2, <2>2 DEF IInv, Control, Ahead, Running, NoFalseDuplicate, Aligned
      <3>4. AllSent'
        BY <1>1, <1>2, <1>3, <2>2, <3>1 DEF IInv, AllSent
      <3>5. Exclusive'
        BY <1>1, <1>2, <2>2, <3>1 DEF IInv, Exclusive
      <3>6. Fresh'
        BY <1>1, <1>2, <3>1 DEF IInv, Fresh
      <3> QED
        BY <3>2, <3>3, <3>4, <3>5, <3>6 DEF IInv
    <2> QED
      BY <1>6, <2>1, <2>2 DEF Buffer
  <1> QED
    BY <1>1, <1>5, <1>6

\* Leaving an exchange: everybody else is at least in it, and nothing of it is
\* left on the way.
LEMMA ReturnStep ==
    ASSUME IInv, NEW p \in Quorum, Return(p)
    PROVE  IInv'
  <1>1. /\ network' = network /\ receiveBuffer' = receiveBuffer
        /\ pc[p] = "receive" /\ Running(p) /\ exchange[p] \in 1 .. Last
        /\ exchange'[p] = exchange[p] + 1 /\ todo'[p] = Others(p)
        /\ received'[p] = {} /\ pc'[p] = "send"
        /\ \A r \in Quorum \ {p} :
              /\ exchange'[r] = exchange[r] /\ todo'[r] = todo[r]
              /\ received'[r] = received[r] /\ pc'[r] = pc[r]
    BY ExchangesAssumption DEF Return, IInv, TypeOK, Control, Running
  <1>2. \A q \in Others(p) : \E m \in received[p] :
           m \in Messages /\ m.from = q /\ m.to = p /\ m.payload = exchange[p] /\ Sent(m)
    BY DEF Return, Complete, IInv, TypeOK, Aligned, AllSent
  <1>3. \A r \in Quorum : exchange[r] \in Nat
    BY ExchangesAssumption DEF IInv, TypeOK
  <1>4. TypeOK'
    BY <1>1, ExchangesAssumption DEF Return, IInv, TypeOK, Others
  <1>5. Control'
    BY <1>1 DEF IInv, Control, Running, Others
  <1>6. \A m \in Messages : Sent(m) => Sent(m)'
    BY <1>1, <1>3, MessageFacts, ExchangesAssumption DEF Sent
  <1>7. AllSent'
    <2>1. \A m \in network : Sent(m)'
      BY <1>6 DEF IInv, AllSent, TypeOK
    <2>2. \A r \in Quorum : \A m \in receiveBuffer[r] \cup received[r] : Sent(m)'
      BY <1>6 DEF IInv, AllSent, TypeOK
    <2> QED
      BY <1>1, <2>1, <2>2 DEF IInv, AllSent
  <1>8. Exclusive'
    BY <1>1 DEF IInv, Exclusive
  <1>9. Ahead'
    <2> SUFFICES ASSUME NEW r \in Quorum, NEW q \in Others(r)
                 PROVE  /\ exchange'[q] <= exchange'[r] + 1
                        /\ exchange'[q] = exchange'[r] + 1 => q \notin todo'[r]
      BY DEF Ahead
    <2>1. CASE q = p
      <3>1. PICK m \in received[p] : /\ m.from = r /\ m.to = p
                                     /\ m.payload = exchange[p] /\ Sent(m)
        BY <1>2, <2>1 DEF Others
      <3>2. exchange[p] < exchange[r] \/ (exchange[p] = exchange[r] /\ p \notin todo[r])
        BY <3>1 DEF Sent
      <3> QED
        BY <1>1, <1>3, <2>1, <3>2 DEF Others
    <2>2. CASE r = p
      <3>1. exchange[q] <= exchange[p] + 1 /\ q \in Quorum \ {p}
        BY <2>2 DEF IInv, Ahead, Others
      <3> QED
        BY <1>1, <1>3, <2>2, <3>1
    <2>3. CASE q # p /\ r # p
      BY <1>1, <2>3 DEF IInv, Ahead, Others
    <2> QED
      BY <2>1, <2>2, <2>3
  <1>10. Fresh'
    <2> SUFFICES ASSUME NoCopies
                 PROVE  /\ \A m \in network : m.payload >= exchange'[m.to]
                        /\ \A r \in Quorum : \A m \in receiveBuffer[r] :
                              m.payload >= exchange'[r]
      BY <1>1 DEF Fresh, NoCopies
    <2>1. ASSUME NEW m \in Messages, m \in network \cup receiveBuffer[p], m.to = p
          PROVE  m.payload # exchange[p]
      <3>1. m.from \in Others(p)
        BY <2>1, MessageFacts DEF IInv, AllSent, Others
      <3>2. SUFFICES ASSUME m.payload = exchange[p] PROVE FALSE
        OBVIOUS
      <3>3. PICK x \in received[p] : /\ x \in Messages /\ x.from = m.from
                                     /\ x.to = p /\ x.payload = exchange[p]
        BY <1>2, <3>1
      <3>4. x = m
        BY <2>1, <3>2, <3>3, OneCopy
      <3> QED
        BY <2>1, <3>3, <3>4 DEF IInv, Exclusive
    <2>2. \A m \in network : m.payload >= exchange'[m.to]
      <3> SUFFICES ASSUME NEW m \in network PROVE m.payload >= exchange'[m.to]
        OBVIOUS
      <3>1. m \in Messages /\ m.payload \in Nat /\ m.to \in Quorum
        BY MessageFacts, ExchangesAssumption DEF IInv, TypeOK
      <3>2. m.payload >= exchange[m.to]
        BY DEF IInv, Fresh
      <3> QED
        BY <1>1, <1>3, <2>1, <3>1, <3>2
    <2>3. \A r \in Quorum : \A m \in receiveBuffer[r] : m.payload >= exchange'[r]
      <3> SUFFICES ASSUME NEW r \in Quorum, NEW m \in receiveBuffer[r]
                   PROVE  m.payload >= exchange'[r]
        OBVIOUS
      <3>1. m \in Messages /\ m.payload \in Nat /\ m.to = r
        BY MessageFacts, ExchangesAssumption DEF IInv, TypeOK, AllSent
      <3>2. m.payload >= exchange[r]
        BY DEF IInv, Fresh
      <3> QED
        BY <1>1, <1>3, <2>1, <3>1, <3>2
    <2> QED
      BY <2>2, <2>3
  <1>11. Aligned' /\ NoFalseDuplicate'
    BY <1>1 DEF IInv, Aligned, NoFalseDuplicate
  <1> QED
    BY <1>4, <1>5, <1>7, <1>8, <1>9, <1>10, <1>11 DEF IInv

LEMMA StopStep ==
    ASSUME IInv, NEW p \in Quorum, Stop(p)
    PROVE  IInv'
  <1>1. /\ exchange' = exchange /\ todo' = todo /\ network' = network
        /\ receiveBuffer' = receiveBuffer
        /\ received'[p] = {} /\ pc'[p] = "stopped"
        /\ \A r \in Quorum \ {p} : received'[r] = received[r] /\ pc'[r] = pc[r]
    BY DEF Stop, Fail, IInv, TypeOK
  <1>2. TypeOK'
    BY <1>1 DEF Stop, Fail, IInv, TypeOK
  <1>3. \A m : Sent(m)' <=> Sent(m)
    BY <1>1 DEF Sent
  <1> QED
    BY <1>1, <1>2, <1>3
    DEF IInv, Control, AllSent, Exclusive, Ahead, Fresh, Aligned,
        NoFalseDuplicate, Running

LEMMA IInvStep == IInv /\ [Next]_vars => IInv'
  <1> SUFFICES ASSUME IInv, [Next]_vars PROVE IInv'
    OBVIOUS
  <1>1. CASE UNCHANGED vars
    BY <1>1
    DEF vars, IInv, TypeOK, Control, AllSent, Sent, Exclusive, Ahead, Fresh,
        Aligned, NoFalseDuplicate, Running
  <1> QED
    BY <1>1, SendStep, ReceiveFromStep, ReceiveStep, ReturnStep, StopStep
    DEF Next, Step

LEMMA IInvHolds == Spec => []IInv
  BY InitIInv, IInvStep, PTL DEF Spec

\* ReceiveFrom returns to an exchange only what was sent in that exchange, also
\* when a protocol is run again over the same routers with the same IDs.
THEOREM AlignedHolds == Spec => []Aligned
  <1>1. IInv => Aligned
    BY DEF IInv
  <1> QED
    BY <1>1, IInvHolds, PTL

\* Nobody is two exchanges ahead: ReceiveUnicast is a barrier.
THEOREM LockStepHolds == Spec => []LockStep
  <1>1. IInv => LockStep
    BY ExchangesAssumption DEF IInv, LockStep, Ahead, TypeOK, Others
  <1> QED
    BY <1>1, IInvHolds, PTL

\* Between honest parties ErrDuplicateMessage is never returned.
THEOREM NoFalseDuplicateHolds == Spec => []NoFalseDuplicate
  <1>1. IInv => NoFalseDuplicate
    BY DEF IInv
  <1> QED
    BY <1>1, IInvHolds, PTL

-----------------------------------------------------------------------------
\* While it receives, a party has buffered nothing of its own exchange.
NothingMissed ==
    \A p \in Quorum : pc[p] = "receive" =>
        \A m \in receiveBuffer[p] : m.payload # exchange[p]

LEMMA NothingMissedStep == IInv /\ NothingMissed /\ [Next]_vars => NothingMissed'
  <1> SUFFICES ASSUME IInv, NothingMissed, [Next]_vars,
                      NEW p \in Quorum, pc'[p] = "receive", NEW m \in receiveBuffer'[p]
               PROVE  m.payload # exchange'[p]
    BY DEF NothingMissed
  <1>0. TypeOK
    BY DEF IInv
  <1>1. CASE UNCHANGED <<exchange, pc, receiveBuffer>>
    BY <1>1 DEF NothingMissed
  <1>2. ASSUME NEW r \in Quorum \ {p}, Step(r) \/ Stop(r)
        PROVE  exchange'[p] = exchange[p] /\ pc'[p] = pc[p] /\ receiveBuffer'[p] = receiveBuffer[p]
    <2>1. exchange'[p] = exchange[p]
      BY <1>0, <1>2 DEF TypeOK, Step, Stop, Send, ReceiveFrom, Receive, Return
    <2>2. pc'[p] = pc[p]
      BY <1>0, <1>2
      DEF TypeOK, Step, Stop, Send, ReceiveFrom, ScanBuffer, Receive, Collect, Buffer, Return, Fail
    <2>3. receiveBuffer'[p] = receiveBuffer[p]
      BY <1>0, <1>2
      DEF TypeOK, Step, Stop, Send, ReceiveFrom, ScanBuffer, Receive, Collect, Buffer, Return
    <2> QED
      BY <2>1, <2>2, <2>3
  <1>3. ASSUME NEW q \in Quorum, Send(p, q)
        PROVE  m.payload # exchange'[p]
    BY <1>1, <1>3 DEF Send
  <1>4. CASE ReceiveFrom(p)
    <2> DEFINE match == Matching(receiveBuffer[p], CorrelationID[exchange[p]], Others(p))
    <2>1. UNCHANGED exchange
      BY <1>4 DEF ReceiveFrom
    <2>2. Conflicting(match) = {}
      BY <1>0, <1>4 DEF ReceiveFrom, ScanBuffer, Fail, TypeOK
    <2>3. receiveBuffer'[p] = receiveBuffer[p] \ match
      BY <1>0, <1>4, <2>2 DEF ReceiveFrom, ScanBuffer, TypeOK
    <2>4. m \in receiveBuffer[p] /\ m \in Messages /\ m \notin match
      BY <1>0, <2>3 DEF TypeOK
    <2>5. m.from \in Others(p) /\ m.cid = CorrelationID[m.payload]
      BY <2>4, MessageFacts DEF IInv, AllSent, Others
    <2> QED
      BY <2>1, <2>4, <2>5 DEF Matching
  <1>5. CASE Receive(p)
    <2>1. pc[p] = "receive" /\ UNCHANGED exchange
      BY <1>5 DEF Receive
    <2>2. PICK n \in network : n.to = p /\ (Collect(p, n) \/ Buffer(p, n))
      BY <1>5 DEF Receive
    <2>3. CASE m \in receiveBuffer[p]
      BY <2>1, <2>3 DEF NothingMissed
    <2>4. CASE m \notin receiveBuffer[p]
      <3>1. m = n /\ ~Wanted(p, m)
        BY <1>0, <2>2, <2>4 DEF Collect, Buffer, TypeOK
      <3>2. m \in Messages /\ m.from \in Others(p) /\ m.cid = CorrelationID[m.payload]
        BY <1>0, <2>2, <3>1, MessageFacts DEF TypeOK, Others
      <3> QED
        BY <2>1, <3>1, <3>2 DEF Wanted
    <2> QED
      BY <2>3, <2>4
  <1>6. CASE Return(p) \/ Stop(p)
    <2>1. pc'[p] # "receive"
      BY <1>0, <1>6 DEF Return, Stop, Fail, TypeOK
    <2> QED
      BY <2>1
  <1>7. CASE UNCHANGED vars
    BY <1>1, <1>7 DEF vars
  <1> QED
    BY <1>2, <1>3, <1>4, <1>5, <1>6, <1>7 DEF Next, Step, NothingMissed

\* What is buffered while receiving, and a message that goes there, are of the
\* next exchange: one for each other party at most.
LEMMA RoomForNext ==
    ASSUME IInv, NothingMissed, NoCopies, NEW p \in Quorum, pc[p] = "receive",
           NEW m \in network, m.to = p, ~Wanted(p, m)
    PROVE  /\ Cardinality(receiveBuffer[p]) \in Nat
           /\ Cardinality(receiveBuffer[p]) < Cardinality(Quorum) - 1
  <1> DEFINE S == receiveBuffer[p] \cup {m}
             f == [n \in S |-> n.from]
  <1>0. TypeOK
    BY DEF IInv
  <1>1. exchange[p] \in Nat /\ \A q \in Quorum : exchange[q] \in Nat
    BY <1>0, ExchangesAssumption DEF TypeOK
  <1>2. \A n \in S : /\ n \in Messages /\ n.to = p /\ n.from \in Others(p)
                     /\ n.payload \in Nat /\ n.payload <= exchange[n.from]
                     /\ n.payload >= exchange[p]
    <2> TAKE n \in S
    <2>1. n \in Messages /\ n.to = p
      BY <1>0 DEF TypeOK, IInv, AllSent
    <2>2. n.from \in Others(p) /\ n.payload \in Nat /\ n.from \in Quorum
      BY <1>0, <2>1, MessageFacts, ExchangesAssumption DEF TypeOK, IInv, AllSent, Others
    <2>3. n.payload <= exchange[n.from]
      BY <1>1, <2>2 DEF IInv, AllSent, Sent
    <2>4. n.payload >= exchange[p]
      BY DEF IInv, Fresh
    <2> QED
      BY <2>1, <2>2, <2>3, <2>4
  <1>3. \A n \in S : n.payload # exchange[p]
    <2>1. m.payload # exchange[p]
      BY <1>2, MessageFacts DEF Wanted
    <2> QED
      BY <2>1 DEF NothingMissed
  <1>4. \A n \in S : n.payload = exchange[p] + 1
    <2> TAKE n \in S
    <2>1. n.from \in Quorum /\ exchange[n.from] <= exchange[p] + 1
      BY <1>2 DEF IInv, Ahead, Others
    <2> QED
      BY <1>1, <1>2, <1>3, <2>1
  <1>5. f \in Injection(S, Others(p))
    <2>1. \A n, k \in S : n.from = k.from => n = k
      BY <1>2, <1>4, OneCopy
    <2>2. f \in [S -> Others(p)]
      BY <1>2
    <2> QED
      BY <2>1, <2>2 DEF Injection, IsInjective
  <1>6. IsFiniteSet(Others(p)) /\ Cardinality(Others(p)) = Cardinality(Quorum) - 1
    BY ExchangesAssumption, FS_RemoveElement DEF Others
  <1>7. IsFiniteSet(S) /\ Cardinality(S) <= Cardinality(Others(p))
    BY <1>5, <1>6, FS_Injection
  <1>8. IsFiniteSet(receiveBuffer[p]) /\ m \notin receiveBuffer[p]
    <2>1. receiveBuffer[p] \in SUBSET S
      OBVIOUS
    <2> QED
      BY <1>7, <2>1, FS_Subset DEF IInv, Exclusive
  <1>9. Cardinality(S) = Cardinality(receiveBuffer[p]) + 1
    BY <1>8, FS_AddElement
  <1>10. Cardinality(receiveBuffer[p]) \in Nat /\ Cardinality(Quorum) \in Nat
    BY <1>8, ExchangesAssumption, FS_CardinalityType
  <1> QED
    BY <1>6, <1>7, <1>9, <1>10

\* With one place for each other party, honest traffic that is not repeated
\* never fills the buffer of a router (maxReceiveBufferSize, router.go).
THEOREM BufferSufficesHolds ==
    ASSUME NoCopies, MaxReceiveBufferSize >= Cardinality(Quorum) - 1
    PROVE  Spec => []BufferSuffices
  <1>1. Init => NothingMissed /\ BufferSuffices
    BY DEF Init, NothingMissed, BufferSuffices
  <1>2. ASSUME IInv, NothingMissed, BufferSuffices, [Next]_vars
        PROVE  NothingMissed' /\ BufferSuffices'
    <2>1. NothingMissed'
      BY <1>2, NothingMissedStep
    <2>2. SUFFICES ASSUME NEW p \in Quorum, pc'[p] = "full"
                   PROVE  FALSE
      BY <2>1 DEF BufferSuffices
    <2>3. pc[p] # "full" /\ TypeOK
      BY <1>2 DEF BufferSuffices, IInv
    <2>4. pc'[p] # pc[p] /\ ~UNCHANGED vars
      BY <2>2, <2>3 DEF vars
    <2>5. Receive(p)
      <3>1. PICK r \in Quorum : Step(r) \/ Stop(r)
        BY <1>2, <2>4 DEF Next
      <3>2. CASE Receive(r)
        <4>1. \A q \in Quorum \ {r} : pc'[q] = pc[q]
          BY <2>3, <3>2 DEF Receive, Collect, Buffer, Fail, TypeOK
        <4> QED
          BY <2>4, <3>2, <4>1
      <3>3. CASE ReceiveFrom(r)
        <4>1. pc' = [pc EXCEPT ![r] = "duplicate"] \/ pc' = [pc EXCEPT ![r] = "receive"]
          BY <3>3 DEF ReceiveFrom, ScanBuffer, Fail
        <4> QED
          BY <2>2, <2>3, <2>4, <4>1 DEF TypeOK
      <3>4. CASE Return(r) \/ Stop(r)
        <4>1. pc' = [pc EXCEPT ![r] = "send"] \/ pc' = [pc EXCEPT ![r] = "stopped"]
          BY <3>4 DEF Return, Stop, Fail
        <4> QED
          BY <2>2, <2>3, <2>4, <4>1 DEF TypeOK
      <3>5. CASE \E q \in Quorum : Send(r, q)
        BY <2>4, <3>5 DEF Send
      <3> QED
        BY <3>1, <3>2, <3>3, <3>4, <3>5 DEF Step
    <2>6. PICK m \in network : m.to = p /\ (Collect(p, m) \/ Buffer(p, m))
      BY <2>5 DEF Receive
    <2>7. Buffer(p, m) /\ Cardinality(receiveBuffer[p]) >= MaxReceiveBufferSize
      <3>1. Buffer(p, m)
        BY <2>2, <2>3, <2>4, <2>6 DEF Collect, Fail, TypeOK
      <3> QED
        BY <2>4, <3>1 DEF Buffer
    <2>8. pc[p] = "receive" /\ ~Wanted(p, m)
      BY <2>5, <2>7 DEF Receive, Buffer
    <2>9. /\ Cardinality(receiveBuffer[p]) \in Nat
          /\ Cardinality(receiveBuffer[p]) < Cardinality(Quorum) - 1
      BY <1>2, <2>6, <2>8, RoomForNext
    <2>10. Cardinality(Quorum) \in Nat
      BY ExchangesAssumption, FS_CardinalityType
    <2> QED
      BY <2>7, <2>9, <2>10, ExchangesAssumption
  <1> QED
    BY <1>1, <1>2, IInvHolds, PTL DEF Spec
=============================================================================
