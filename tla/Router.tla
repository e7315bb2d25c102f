-------------------------------- MODULE Router --------------------------------
(***************************************************************************)
(* One network.Router, used by one or more callers of ReceiveFrom, over an *)
(* external Delivery that hands out what has arrived in any order.         *)
(*                                                                         *)
(* A message has an identity (its copy number) the code never sees, so     *)
(* that the model can follow each one from the transport to the caller     *)
(* that receives it, or to the error return that loses it.                 *)
(***************************************************************************)
EXTENDS Naturals, FiniteSets, RouterOps

CONSTANTS
    Callers,          \* goroutines calling ReceiveFrom on this router
    MayCancel,        \* callers whose context may be cancelled
    Quorum,           \* quorumSet: the senders the router listens to
    CorrelationIDs,
    UsedBy,           \* UsedBy[c]: the correlation IDs caller c receives on
    Undecodable,      \* stands for the correlation ID of bytes that do not decode
    Traffic,          \* the messages that may ever reach the transport
    MaxReceiveBufferSize,
    MaxCalls          \* bound on the calls each caller makes

ASSUME RouterAssumption ==
    /\ MaxReceiveBufferSize \in Nat
    /\ MaxCalls \in Nat
    /\ IsFiniteSet(Traffic)
    /\ MayCancel \subseteq Callers
    /\ UsedBy \in [Callers -> SUBSET CorrelationIDs]
    /\ Undecodable \notin CorrelationIDs
    /\ \A m \in Traffic : m.cid \in CorrelationIDs \cup {Undecodable}

VARIABLES
    wire,           \* messages the Delivery has yet to hand out
    receiveBuffer,  \* Router.receiveBuffer
    pc,             \* where each caller stands: idle or in the receive loop
    cid,            \* ReceiveFrom's correlationID
    expected,       \* ReceiveFrom's expected, the set of its froms
    received,       \* ReceiveFrom's received, as the messages it came from
    calls,          \* calls made so far
    status,         \* what the last call returned
    arrived,        \* history: everything the transport ever got
    handed,         \* history: messages returned by successful calls
    lost,           \* history: messages taken off the transport and dropped
    failed,         \* history: <<cid, error>> of calls that returned an error
    blamed          \* history: <<sender, cid>> named by ErrDuplicateMessage

transport == <<wire, arrived>>
locals == <<cid, expected, calls>>
vars == <<wire, receiveBuffer, pc, cid, expected, received, calls, status,
          arrived, handed, lost, failed, blamed>>

Statuses == {"none", "ok", "duplicate", "full", "undecodable", "cancelled"}

Init ==
    /\ wire = {}
    /\ receiveBuffer = {}
    /\ pc = [c \in Callers |-> "idle"]
    /\ cid = [c \in Callers |-> Undecodable]
    /\ expected = [c \in Callers |-> {}]
    /\ received = [c \in Callers |-> {}]
    /\ calls = [c \in Callers |-> 0]
    /\ status = [c \in Callers |-> "none"]
    /\ arrived = {}
    /\ handed = {}
    /\ lost = {}
    /\ failed = {}
    /\ blamed = {}

\* The environment: a peer's Send reaches this party's transport.
Arrive(m) ==
    /\ m \notin arrived
    /\ arrived' = arrived \cup {m}
    /\ wire' = wire \cup {m}
    /\ UNCHANGED <<receiveBuffer, pc, received, status, handed, lost, failed,
                   blamed, locals>>

-----------------------------------------------------------------------------
\* An error return of c's call on correlation ID id: what it had collected,
\* and the messages in dropped, are gone.
Fail(c, id, why, dropped) ==
    /\ pc' = [pc EXCEPT ![c] = "idle"]
    /\ status' = [status EXCEPT ![c] = why]
    /\ lost' = lost \cup received[c] \cup dropped
    /\ received' = [received EXCEPT ![c] = {}]
    /\ failed' = failed \cup {<<id, why>>}

\* Mutated form: the buffer is scanned but what matches stays in it.
ScanBuffer_Keeps(c, id, froms) ==
    LET match == Matching(receiveBuffer, id, froms)
    IN  /\ received' = [received EXCEPT ![c] = match]
        /\ pc' = [pc EXCEPT ![c] = "receiving"]
        /\ UNCHANGED <<receiveBuffer, status, lost, failed, blamed>>

\* Mutated form: the buffer is not scanned for earlier arrivals.
ScanBuffer_Skipped(c, id, froms) ==
    /\ pc' = [pc EXCEPT ![c] = "receiving"]
    /\ received' = [received EXCEPT ![c] = {}]
    /\ UNCHANGED <<receiveBuffer, status, lost, failed, blamed>>

\* The first loop of ReceiveFrom.  On a conflict it returns before the buffer
\* is replaced, so the buffer keeps both messages.
ScanBuffer(c, id, froms) ==
    LET match == Matching(receiveBuffer, id, froms)
    IN  \/ /\ Conflicting(match) # {}
           /\ \E from \in Conflicting(match) :
                 blamed' = blamed \cup {<<from, id>>}
           /\ Fail(c, id, "duplicate", {})
           /\ UNCHANGED receiveBuffer
        \/ /\ Conflicting(match) = {}
           /\ received' = [received EXCEPT ![c] = match]
           /\ receiveBuffer' = receiveBuffer \ match
           /\ pc' = [pc EXCEPT ![c] = "receiving"]
           /\ UNCHANGED <<status, lost, failed, blamed>>

ReceiveFrom(c, id, froms) ==
    /\ pc[c] = "idle"
    /\ calls[c] < MaxCalls
    /\ calls' = [calls EXCEPT ![c] = @ + 1]
    /\ cid' = [cid EXCEPT ![c] = id]
    /\ expected' = [expected EXCEPT ![c] = froms]
    /\ ScanBuffer(c, id, froms)
    /\ UNCHANGED <<transport, handed>>

Wanted(c, m) == m.cid = cid[c] /\ m.from \in expected[c]

\* The cases of the second loop, for the message m just taken off the wire.

DropStranger(c, m) ==
    /\ m.from \notin Quorum
    /\ lost' = lost \cup {m}
    /\ UNCHANGED <<receiveBuffer, pc, received, status, failed, blamed>>

RejectUndecodable(c, m) ==
    /\ m.from \in Quorum
    /\ m.cid = Undecodable
    /\ Fail(c, cid[c], "undecodable", {m})
    /\ UNCHANGED <<receiveBuffer, blamed>>

\* Mutated form: a second payload silently replaces the first.
Collect_NoConflictCheck(c, m) ==
    /\ m.from \in Quorum
    /\ Wanted(c, m)
    /\ received' = [received EXCEPT ![c] = @ \cup {m}]
    /\ UNCHANGED <<receiveBuffer, pc, status, lost, failed, blamed>>

\* Mutated form: any second message of a sender counts as a conflict.
Collect_BlamesRepeats(c, m) ==
    /\ m.from \in Quorum
    /\ Wanted(c, m)
    /\ \/ /\ \E x \in received[c] : x.from = m.from
          /\ blamed' = blamed \cup {<<m.from, cid[c]>>}
          /\ Fail(c, cid[c], "duplicate", {m})
       \/ /\ ~ \E x \in received[c] : x.from = m.from
          /\ received' = [received EXCEPT ![c] = @ \cup {m}]
          /\ UNCHANGED <<pc, status, lost, failed, blamed>>
    /\ UNCHANGED receiveBuffer

Collect(c, m) ==
    /\ m.from \in Quorum
    /\ Wanted(c, m)
    /\ \/ /\ Conflicting(received[c] \cup {m}) # {}
          /\ blamed' = blamed \cup {<<m.from, cid[c]>>}
          /\ Fail(c, cid[c], "duplicate", {m})
       \/ /\ Conflicting(received[c] \cup {m}) = {}
          /\ received' = [received EXCEPT ![c] = @ \cup {m}]
          /\ UNCHANGED <<pc, status, lost, failed, blamed>>
    /\ UNCHANGED receiveBuffer

\* Mutated form: a full buffer drops the message and goes on receiving.
Buffer_DropsWhenFull(c, m) ==
    /\ m.from \in Quorum
    /\ m.cid # Undecodable
    /\ ~Wanted(c, m)
    /\ \/ /\ Cardinality(receiveBuffer) >= MaxReceiveBufferSize
          /\ lost' = lost \cup {m}
          /\ UNCHANGED receiveBuffer
       \/ /\ Cardinality(receiveBuffer) < MaxReceiveBufferSize
          /\ receiveBuffer' = receiveBuffer \cup {m}
          /\ UNCHANGED lost
    /\ UNCHANGED <<pc, received, status, failed, blamed>>

Buffer(c, m) ==
    /\ m.from \in Quorum
    /\ m.cid # Undecodable
    /\ ~Wanted(c, m)
    /\ \/ /\ Cardinality(receiveBuffer) >= MaxReceiveBufferSize
          /\ Fail(c, cid[c], "full", {m})
          /\ UNCHANGED receiveBuffer
       \/ /\ Cardinality(receiveBuffer) < MaxReceiveBufferSize
          /\ receiveBuffer' = receiveBuffer \cup {m}
          /\ UNCHANGED <<pc, received, status, lost, failed>>
    /\ UNCHANGED blamed

\* One iteration of the second loop: delivery.Receive and what follows.
Receive(c) ==
    /\ pc[c] = "receiving"
    /\ ~Complete(received[c], expected[c])
    /\ \E m \in wire :
          /\ wire' = wire \ {m}
          /\ \/ DropStranger(c, m)
             \/ RejectUndecodable(c, m)
             \/ Collect(c, m)
             \/ Buffer(c, m)
    /\ UNCHANGED <<arrived, handed, locals>>

\* delivery.Receive fails, or the context is cancelled while waiting.
Cancel(c) ==
    /\ c \in MayCancel
    /\ pc[c] = "receiving"
    /\ ~Complete(received[c], expected[c])
    /\ Fail(c, cid[c], "cancelled", {})
    /\ UNCHANGED <<transport, receiveBuffer, handed, blamed, locals>>

\* received stays as the result until the caller's next call.
Return(c) ==
    /\ pc[c] = "receiving"
    /\ Complete(received[c], expected[c])
    /\ pc' = [pc EXCEPT ![c] = "returned"]
    /\ status' = [status EXCEPT ![c] = "ok"]
    /\ UNCHANGED <<transport, receiveBuffer, received, handed, lost, failed,
                   blamed, locals>>

\* The caller takes the result and goes on to its next exchange.
Consume(c) ==
    /\ pc[c] = "returned"
    /\ pc' = [pc EXCEPT ![c] = "idle"]
    /\ handed' = handed \cup received[c]
    /\ received' = [received EXCEPT ![c] = {}]
    /\ UNCHANGED <<transport, receiveBuffer, status, lost, failed, blamed, locals>>

Next ==
    \/ \E m \in Traffic : Arrive(m)
    \/ \E c \in Callers :
          \/ \E id \in UsedBy[c], froms \in SUBSET Quorum :
                ReceiveFrom(c, id, froms)
          \/ Receive(c)
          \/ Cancel(c)
          \/ Return(c)
          \/ Consume(c)

Spec == Init /\ [][Next]_vars

\* A blocked Receive returns when something is there; ReceiveFrom's own code
\* does not stop in between.  Peers and callers may stop at any time.
Fairness ==
    \A c \in Callers : WF_vars(Receive(c)) /\ WF_vars(Return(c)) /\ WF_vars(Consume(c))

FairSpec == Spec /\ Fairness

-----------------------------------------------------------------------------
\* Types of the state; only decodable messages of the quorum are buffered, and
\* no more than maxReceiveBufferSize, which "bounds memory usage when peers (or a
\* compromised transport) inject messages".
TypeOK ==
    /\ wire \subseteq Traffic
    /\ receiveBuffer \subseteq {m \in Traffic : m.from \in Quorum /\ m.cid # Undecodable}
    /\ Cardinality(receiveBuffer) <= MaxReceiveBufferSize
    /\ pc \in [Callers -> {"idle", "receiving", "returned"}]
    /\ cid \in [Callers -> CorrelationIDs \cup {Undecodable}]
    /\ expected \in [Callers -> SUBSET Quorum]
    /\ received \in [Callers -> SUBSET Traffic]
    /\ calls \in [Callers -> 0 .. MaxCalls]
    /\ status \in [Callers -> Statuses]
    /\ arrived \subseteq Traffic
    /\ handed \subseteq Traffic
    /\ lost \subseteq Traffic
    /\ failed \subseteq CorrelationIDs \X Statuses
    /\ blamed \subseteq Quorum \X CorrelationIDs

\* What ReceiveFrom returns: one payload from each expected sender and from
\* nobody else, every one sent under the call's correlation ID by a member of
\* the quorum, and no sender heard saying two things.
ResultSound ==
    \A c \in Callers : pc[c] = "returned" =>
        /\ {m.from : m \in received[c]} = expected[c]
        /\ \A m \in received[c] : m.cid = cid[c] /\ m.from \in Quorum
        /\ Conflicting(received[c]) = {}

\* Every message the transport got is in exactly one place: still on the
\* wire, buffered, held by one call, returned, or lost.  Nothing is returned
\* twice and nothing disappears, across any sequence of calls; and no place
\* holds what it must not (TypeOK), the buffer no more than its bound.
Accounted ==
    LET places == <<wire, receiveBuffer, UNION {received[c] : c \in Callers}, handed, lost>>
    IN  /\ TypeOK
        /\ arrived = UNION {places[i] : i \in 1 .. 5}
        /\ \A i, j \in 1 .. 5 : i # j => places[i] \cap places[j] = {}
        /\ \A c, d \in Callers : c # d => received[c] \cap received[d] = {}

\* A decodable message from the quorum is lost only to an error return: of a
\* call on its own correlation ID, or of one that reported a full buffer.  No
\* exchange loses a message because another one was cancelled or rejected.
LossIsReported ==
    \A m \in lost : m.from \in Quorum /\ m.cid # Undecodable =>
        \E f \in failed : f[1] = m.cid \/ f[2] = "full"

\* ErrDuplicateMessage names a party to exclude: the sender it names did send
\* two different payloads under that correlation ID.
BlameIsJust ==
    \A b \in blamed : \E x, y \in arrived :
        /\ x.from = b[1] /\ y.from = b[1]
        /\ x.cid = b[2] /\ y.cid = b[2]
        /\ x.payload # y.payload

\* A call in the receive loop has nothing to find in the buffer, which it
\* does not look at again: a message that arrived before the call was made is
\* found by the scan, a later one goes to the call directly.
NoStranded ==
    \A c \in Callers : pc[c] = "receiving" =>
        Matching(receiveBuffer, cid[c], expected[c]) = {}

\* Once all its messages are there, in whatever order and mixed with whatever
\* else, an exchange comes to an end.
Available(c) ==
    /\ pc[c] = "receiving"
    /\ Complete(Matching(arrived \ (handed \cup lost), cid[c], expected[c]), expected[c])

ExchangeEnds == \A c \in Callers : Available(c) ~> pc[c] # "receiving"
=============================================================================
