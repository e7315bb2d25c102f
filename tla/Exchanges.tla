------------------------------- MODULE Exchanges -------------------------------
(***************************************************************************)
(* A run of exchanges, one after the other, between the parties of a       *)
(* quorum, each with a network.Router of its own: what every protocol      *)
(* runner does between its rounds.  One exchange is SendUnicast to all the *)
(* other parties followed by ReceiveUnicast from all of them under the     *)
(* same correlation ID; an echo broadcast is two exchanges.  Runners use   *)
(* fixed correlation IDs, so running a protocol again on the same routers  *)
(* uses the same IDs again.                                                *)
(*                                                                         *)
(* Parties are honest.  The transport reorders at will and may deliver a   *)
(* message more than once.  The payload of a message is the number of the  *)
(* exchange it was sent in, so that a payload received in another exchange *)
(* shows; the code sees the correlation ID only.                           *)
(***************************************************************************)
EXTENDS Naturals, FiniteSets, RouterOps

CONSTANTS
    Quorum,
    MayStop,              \* parties whose context may be cancelled
    Last,                 \* number of exchanges
    CorrelationID,        \* CorrelationID[k]: what the runner uses in exchange k
    MaxCopies,            \* MaxCopies[p]: how often the transport may deliver a message of p
    MaxReceiveBufferSize

ASSUME ExchangesAssumption ==
    /\ IsFiniteSet(Quorum)
    /\ MayStop \subseteq Quorum
    /\ Last \in Nat
    /\ DOMAIN CorrelationID = 1 .. Last
    /\ MaxCopies \in [Quorum -> Nat \ {0}]
    /\ MaxReceiveBufferSize \in Nat

\* What the runners take care of: two consecutive exchanges never use the same
\* correlation ID; where the transport repeats messages no ID is used again.
ASSUME SeparationAssumption ==
    /\ \A k \in 1 .. Last : k + 1 <= Last => CorrelationID[k] # CorrelationID[k + 1]
    /\ (\E p \in Quorum : MaxCopies[p] > 1) =>
          \A j, k \in 1 .. Last : CorrelationID[j] = CorrelationID[k] => j = k

Others(p) == Quorum \ {p}

Message(from, to, k, copy) ==
    [from |-> from, to |-> to, cid |-> CorrelationID[k], payload |-> k, copy |-> copy]

Messages ==
    UNION {{Message(from, to, k, copy) :
                to \in Quorum, k \in 1 .. Last, copy \in 1 .. MaxCopies[from]}
           : from \in Quorum}

VARIABLES
    exchange,       \* the exchange a party is in; Last + 1 when it has finished
    pc,             \* sending, receiving, or why it stopped
    todo,           \* recipients SendTo has still to reach
    network,        \* messages in flight
    receiveBuffer,  \* Router.receiveBuffer of each party
    received        \* what ReceiveFrom has collected

vars == <<exchange, pc, todo, network, receiveBuffer, received>>

Init ==
    /\ exchange = [p \in Quorum |-> 1]
    /\ pc = [p \in Quorum |-> "send"]
    /\ todo = [p \in Quorum |-> Others(p)]
    /\ network = {}
    /\ receiveBuffer = [p \in Quorum |-> {}]
    /\ received = [p \in Quorum |-> {}]

Running(p) == exchange[p] <= Last

\* One iteration of SendTo's loop; the transport makes n copies.
Send(p, q) ==
    /\ pc[p] = "send"
    /\ Running(p)
    /\ q \in todo[p]
    /\ \E n \in 1 .. MaxCopies[p] :
          network' = network \cup {Message(p, q, exchange[p], copy) : copy \in 1 .. n}
    /\ todo' = [todo EXCEPT ![p] = @ \ {q}]
    /\ UNCHANGED <<exchange, pc, receiveBuffer, received>>

Fail(p, why) ==
    /\ pc' = [pc EXCEPT ![p] = why]
    /\ received' = [received EXCEPT ![p] = {}]

\* Mutated form: earlier arrivals are not looked for.
ScanBuffer_Skipped(p) ==
    /\ pc' = [pc EXCEPT ![p] = "receive"]
    /\ UNCHANGED <<received, receiveBuffer>>

\* The first loop of ReceiveFrom.
ScanBuffer(p) ==
    LET match == Matching(receiveBuffer[p], CorrelationID[exchange[p]], Others(p))
    IN  IF Conflicting(match) # {}
        THEN Fail(p, "duplicate") /\ UNCHANGED receiveBuffer
        ELSE /\ received' = [received EXCEPT ![p] = match]
             /\ receiveBuffer' = [receiveBuffer EXCEPT ![p] = @ \ match]
             /\ pc' = [pc EXCEPT ![p] = "receive"]

ReceiveFrom(p) ==
    /\ pc[p] = "send"
    /\ Running(p)
    /\ todo[p] = {}
    /\ ScanBuffer(p)
    /\ UNCHANGED <<exchange, todo, network>>

\* Mutated form: the correlation ID is not compared.
Wanted_AnyCid(p, m) == m.from \in Others(p)

Wanted(p, m) == m.cid = CorrelationID[exchange[p]] /\ m.from \in Others(p)

Collect(p, m) ==
    /\ Wanted(p, m)
    /\ IF Conflicting(received[p] \cup {m}) # {}
       THEN Fail(p, "duplicate")
       ELSE received' = [received EXCEPT ![p] = @ \cup {m}] /\ UNCHANGED pc
    /\ UNCHANGED receiveBuffer

\* Mutated form: the test leaves one place of the buffer unused.
Buffer_OneLess(p, m) ==
    /\ ~Wanted(p, m)
    /\ IF Cardinality(receiveBuffer[p]) + 1 >= MaxReceiveBufferSize
       THEN Fail(p, "full") /\ UNCHANGED receiveBuffer
       ELSE /\ receiveBuffer' = [receiveBuffer EXCEPT ![p] = @ \cup {m}]
            /\ UNCHANGED <<pc, received>>

Buffer(p, m) ==
    /\ ~Wanted(p, m)
    /\ IF Cardinality(receiveBuffer[p]) >= MaxReceiveBufferSize
       THEN Fail(p, "full") /\ UNCHANGED receiveBuffer
       ELSE /\ receiveBuffer' = [receiveBuffer EXCEPT ![p] = @ \cup {m}]
            /\ UNCHANGED <<pc, received>>

\* One iteration of the second loop of ReceiveFrom.
Receive(p) ==
    /\ pc[p] = "receive"
    /\ ~Complete(received[p], Others(p))
    /\ \E m \in network :
          /\ m.to = p
          /\ network' = network \ {m}
          /\ Collect(p, m) \/ Buffer(p, m)
    /\ UNCHANGED <<exchange, todo>>

\* Mutated form: the first answer is enough.
Return_Early(p) ==
    /\ pc[p] = "receive"
    /\ received[p] # {}
    /\ exchange' = [exchange EXCEPT ![p] = @ + 1]
    /\ pc' = [pc EXCEPT ![p] = "send"]
    /\ todo' = [todo EXCEPT ![p] = Others(p)]
    /\ received' = [received EXCEPT ![p] = {}]
    /\ UNCHANGED <<network, receiveBuffer>>

\* ReceiveFrom returns and the runner goes on to its next exchange.
Return(p) ==
    /\ pc[p] = "receive"
    /\ Complete(received[p], Others(p))
    /\ exchange' = [exchange EXCEPT ![p] = @ + 1]
    /\ pc' = [pc EXCEPT ![p] = "send"]
    /\ todo' = [todo EXCEPT ![p] = Others(p)]
    /\ received' = [received EXCEPT ![p] = {}]
    /\ UNCHANGED <<network, receiveBuffer>>

\* The context is cancelled, or Send or Receive fails.
Stop(p) ==
    /\ p \in MayStop
    /\ pc[p] \in {"send", "receive"}
    /\ Running(p)
    /\ Fail(p, "stopped")
    /\ UNCHANGED <<exchange, todo, network, receiveBuffer>>

Step(p) ==
    \/ \E q \in Quorum : Send(p, q)
    \/ ReceiveFrom(p)
    \/ Receive(p)
    \/ Return(p)

Next == \E p \in Quorum : Step(p) \/ Stop(p)

Spec == Init /\ [][Next]_vars

\* A runner that can go on does, unless its context is cancelled.
FairSpec == Spec /\ \A p \in Quorum : WF_vars(Step(p))

-----------------------------------------------------------------------------
\* Types of the state; SendTo is never asked to send to the party itself, and no
\* router takes such a message.
TypeOK ==
    /\ exchange \in [Quorum -> 1 .. Last + 1]
    /\ pc \in [Quorum -> {"send", "receive", "duplicate", "full", "stopped"}]
    /\ todo \in [Quorum -> SUBSET Quorum]
    /\ network \subseteq Messages
    /\ receiveBuffer \in [Quorum -> SUBSET Messages]
    /\ received \in [Quorum -> SUBSET Messages]
    /\ \A p \in Quorum : p \notin todo[p]
    /\ \A m \in network : m.from # m.to

\* What an exchange collects are the payloads sent in that same exchange, also
\* where the correlation ID was used before (ReceiveFrom tells messages apart
\* by correlation ID and sender only).
Aligned == \A p \in Quorum : \A m \in received[p] : m.payload = exchange[p]

\* No party is ever two exchanges ahead of another, however the transport
\* delays one of them: ReceiveUnicast waits for everybody.
LockStep == \A p, q \in Quorum : exchange[p] <= exchange[q] + 1

\* Honest parties never meet ErrDuplicateMessage, which would name one of them.
NoFalseDuplicate == \A p \in Quorum : pc[p] # "duplicate"

\* A router holds at most one early message of each other party, so that
\* maxReceiveBufferSize is not reached by honest traffic: a limit of one place
\* for each other party would do.
BufferSuffices == \A p \in Quorum : pc[p] # "full"

\* Everybody gets through all exchanges, unless somebody was stopped: no
\* message ends up where the router does not look for it again.
AllFinish ==
    \A p \in Quorum : <>(exchange[p] > Last \/ \E q \in Quorum : pc[q] = "stopped")
=============================================================================
