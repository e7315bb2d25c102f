---------------------------- MODULE EchoBroadcast ----------------------------
(***************************************************************************)
(* The three-round echo broadcast of pkg/network/echo, one execution under *)
(* one correlation ID, run by every honest party of the quorum through     *)
(* echoBroadcastRunner.Run.                                                *)
(*                                                                         *)
(* Corrupt parties do not run this code.  A corrupt party may withhold a   *)
(* message from whom it likes, for as long as it likes.  What an honest    *)
(* party reads from one that has sent is an arbitrary body chosen when it  *)
(* is read, so a corrupt party may equivocate without bound.  The router   *)
(* below (module Router) hands a round one body for each expected sender   *)
(* and waits until it has all of them.                                     *)
(***************************************************************************)
EXTENDS FiniteSets

CONSTANTS
    Quorum,       \* the parties of the session, network.Quorum
    Corrupt,      \* the parties that deviate
    MayAbort,     \* honest parties whose context may be cancelled
    Messages,     \* the broadcast messages, as CBOR encodings that decode
    Undecodable,  \* bytes UnmarshalCBOR rejects
    NoBytes,      \* the empty or nil slice; UnmarshalCBOR rejects it too
    NotSent,      \* nothing on the wire yet
    NoOutput      \* no message delivered

ASSUME QuorumAssumption ==
    /\ IsFiniteSet(Quorum)
    /\ Corrupt \subseteq Quorum
    /\ MayAbort \subseteq Quorum \ Corrupt

ASSUME PayloadAssumption ==
    /\ Undecodable \notin Messages
    /\ NoBytes \notin Messages
    /\ NoOutput \notin Messages
    /\ NotSent \notin Messages \cup {Undecodable, NoBytes}
    /\ NotSent \notin [Quorum -> Messages \cup {Undecodable, NoBytes}]

Honest == Quorum \ Corrupt
Others(p) == Quorum \ {p}
Payload == Messages \cup {Undecodable, NoBytes}

\* A Go map read at a missing key yields nil, so an echo map is total here
\* with NoBytes where the key is absent.
Echo == [Quorum -> Payload]

VARIABLES
    pc,        \* where Run stands at each honest party
    messages,  \* Participant.state.messages; NoBytes where the key is absent
    todo,      \* recipients SendTo has still to reach in the current round
    wire1,     \* wire1[p][q]: the Round1P2P payload p has sent to q
    wire2,     \* wire2[p][q]: the Round2P2P echo map p has sent to q
    heard,     \* corrupt parties whose message of the current round reached p
    output     \* what Run returned

vars == <<pc, messages, todo, wire1, wire2, heard, output>>

Init ==
    /\ pc = [p \in Honest |-> "Round1"]
    /\ messages = [p \in Honest |-> [q \in Quorum |-> NoBytes]]
    /\ todo = [p \in Honest |-> {}]
    /\ wire1 = [p \in Honest |-> [q \in Quorum |-> NotSent]]
    /\ wire2 = [p \in Honest |-> [q \in Quorum |-> NotSent]]
    /\ heard = [p \in Honest |-> {}]
    /\ output = [p \in Honest |-> [q \in Quorum |-> NoOutput]]

-----------------------------------------------------------------------------
\* ReceiveUnicast returns once the message of the round of every other party,
\* honest or corrupt, is there; forged gives what the corrupt ones are seen to
\* have sent.
Arrived(wire, p) ==
    /\ \A q \in Honest \ {p} : wire[q][p] # NotSent
    /\ heard[p] = Corrupt

Received(wire, forged, p) ==
    [q \in Others(p) |-> IF q \in Corrupt THEN forged[q] ELSE wire[q][p]]

\* receivedMessages of Round2: the stored payloads without the party's own.
EchoOf(p) == [messages[p] EXCEPT ![p] = NoBytes]

Round1(p, message) ==
    /\ pc[p] = "Round1"
    /\ messages' = [messages EXCEPT ![p][p] = message]
    /\ todo' = [todo EXCEPT ![p] = Others(p)]
    /\ pc' = [pc EXCEPT ![p] = "Exchange1"]
    /\ UNCHANGED <<wire1, wire2, heard, output>>

\* One iteration of the loop of SendTo, for each of the two sending rounds.
SendRound1(p, q) ==
    /\ pc[p] = "Exchange1"
    /\ q \in todo[p]
    /\ wire1' = [wire1 EXCEPT ![p][q] = messages[p][p]]
    /\ todo' = [todo EXCEPT ![p] = @ \ {q}]
    /\ UNCHANGED <<pc, messages, wire2, heard, output>>

SendRound2(p, q) ==
    /\ pc[p] = "Exchange2"
    /\ q \in todo[p]
    /\ wire2' = [wire2 EXCEPT ![p][q] = EchoOf(p)]
    /\ todo' = [todo EXCEPT ![p] = @ \ {q}]
    /\ UNCHANGED <<pc, messages, wire1, heard, output>>

\* A corrupt party sends p what p waits for.  The router keeps what comes
\* early, so that it came only shows once p waits.
CorruptSends(c, p) ==
    /\ pc[p] \in {"Exchange1", "Exchange2"}
    /\ todo[p] = {}
    /\ c \notin heard[p]
    /\ heard' = [heard EXCEPT ![p] = @ \cup {c}]
    /\ UNCHANGED <<pc, messages, todo, wire1, wire2, output>>

\* Mutated form: the loop of Round2 runs over the party itself too.
Round2_OverwritesOwn(p) ==
    /\ pc[p] = "Exchange1"
    /\ todo[p] = {}
    /\ Arrived(wire1, p)
    /\ \E forged \in [Corrupt -> Payload] :
          LET r1 == Received(wire1, forged, p)
          IN  messages' = [messages EXCEPT ![p] =
                  [q \in Quorum |-> IF q = p THEN NoBytes ELSE r1[q]]]
    /\ todo' = [todo EXCEPT ![p] = Others(p)]
    /\ heard' = [heard EXCEPT ![p] = {}]
    /\ pc' = [pc EXCEPT ![p] = "Exchange2"]
    /\ UNCHANGED <<wire1, wire2, output>>

\* Mutated form: Run receives round 2 without having sent it.
Round2_NoSend(p) ==
    /\ pc[p] = "Exchange1"
    /\ todo[p] = {}
    /\ Arrived(wire1, p)
    /\ \E forged \in [Corrupt -> Payload] :
          LET r1 == Received(wire1, forged, p)
          IN  messages' = [messages EXCEPT ![p] =
                  [q \in Quorum |-> IF q = p THEN messages[p][p] ELSE r1[q]]]
    /\ heard' = [heard EXCEPT ![p] = {}]
    /\ pc' = [pc EXCEPT ![p] = "Exchange2"]
    /\ UNCHANGED <<todo, wire1, wire2, output>>

Round2(p) ==
    /\ pc[p] = "Exchange1"
    /\ todo[p] = {}
    /\ Arrived(wire1, p)
    /\ \E forged \in [Corrupt -> Payload] :
          LET r1 == Received(wire1, forged, p)
          IN  messages' = [messages EXCEPT ![p] =
                  [q \in Quorum |-> IF q = p THEN messages[p][p] ELSE r1[q]]]
    /\ todo' = [todo EXCEPT ![p] = Others(p)]
    /\ heard' = [heard EXCEPT ![p] = {}]
    /\ pc' = [pc EXCEPT ![p] = "Exchange2"]
    /\ UNCHANGED <<wire1, wire2, output>>

\* Mutated form: the echoes of the sender itself are compared, the others not.
EchoesMatch_SenderOnly(p, r2) ==
    \A id \in Others(p) : r2[id][id] \in {NoBytes, messages[p][id]}

\* The double loop of Round3: every third party's echo of id is what p holds.
EchoesMatch(p, r2) ==
    \A id \in Others(p) : \A echoID \in Others(p) \ {id} :
        r2[echoID][id] = messages[p][id]

AllDecode(p) == \A id \in Others(p) : messages[p][id] \in Messages

Deliver(p) ==
    /\ output' = [output EXCEPT ![p] =
           [id \in Quorum |-> IF id = p THEN NoOutput ELSE messages[p][id]]]
    /\ pc' = [pc EXCEPT ![p] = "Done"]

Reject(p) ==
    /\ pc' = [pc EXCEPT ![p] = "Failed"]
    /\ UNCHANGED output

Round3(p) ==
    /\ pc[p] = "Exchange2"
    /\ todo[p] = {}
    /\ Arrived(wire2, p)
    /\ \E forged \in [Corrupt -> Echo] :
          LET r2 == Received(wire2, forged, p)
          IN  IF EchoesMatch(p, r2) /\ AllDecode(p) THEN Deliver(p) ELSE Reject(p)
    /\ UNCHANGED <<messages, todo, wire1, wire2, heard>>

\* What a corrupt party sent is no Round1P2P or Round2P2P at all: it does not
\* decode in ReceiveUnicast, or is the nil message that Validate rejects.
Malformed(p) ==
    /\ Corrupt # {}
    /\ todo[p] = {}
    /\ \/ pc[p] = "Exchange1" /\ Arrived(wire1, p)
       \/ pc[p] = "Exchange2" /\ Arrived(wire2, p)
    /\ Reject(p)
    /\ UNCHANGED <<messages, todo, wire1, wire2, heard>>

\* Run returns early: the context is cancelled, or Send or ReceiveFrom fails.
Abort(p) ==
    /\ p \in MayAbort
    /\ pc[p] \in {"Exchange1", "Exchange2"}
    /\ pc' = [pc EXCEPT ![p] = "Failed"]
    /\ UNCHANGED <<messages, todo, wire1, wire2, heard, output>>

Terminated ==
    /\ \A p \in Honest : pc[p] \in {"Done", "Failed"}
    /\ UNCHANGED vars

Step(p) ==
    \/ \E message \in Messages : Round1(p, message)
    \/ \E q \in Quorum : SendRound1(p, q) \/ SendRound2(p, q)
    \/ Round2(p)
    \/ Round3(p)

Next ==
    \/ \E p \in Honest : Step(p) \/ Malformed(p) \/ Abort(p)
    \/ \E c \in Corrupt, p \in Honest : CorruptSends(c, p)
    \/ Terminated

Spec == Init /\ [][Next]_vars

\* Run is straight-line code: a party that can take a step does so unless its
\* context is cancelled.  Corrupt parties owe nothing.
Fairness == \A p \in Honest : WF_vars(Step(p))

FairSpec == Spec /\ Fairness

-----------------------------------------------------------------------------
\* Types of the state; what Run returns consists of messages that decoded.
TypeOK ==
    /\ pc \in [Honest -> {"Round1", "Exchange1", "Exchange2", "Done", "Failed"}]
    /\ messages \in [Honest -> [Quorum -> Payload]]
    /\ todo \in [Honest -> SUBSET Quorum]
    /\ wire1 \in [Honest -> [Quorum -> Payload \cup {NotSent}]]
    /\ wire2 \in [Honest -> [Quorum -> Echo \cup {NotSent}]]
    /\ heard \in [Honest -> SUBSET Corrupt]
    /\ output \in [Honest -> [Quorum -> Messages \cup {NoOutput}]]

\* README of pkg/network/echo: "ensures all honest parties deliver the same
\* payload".  Two honest parties whose Run succeeded hold the same message of
\* every third party, however it equivocated and whoever else is corrupt.
Consistency ==
    \A p, q \in Honest :
        pc[p] = "Done" /\ pc[q] = "Done" =>
            \A id \in Quorum \ {p, q} : output[p][id] = output[q][id]

\* A message delivered from an honest party is the one it passed to Round1,
\* and that party is past Round1 with every payload in hand when the message
\* is delivered to anybody, even if it fails later.
HonestDelivery ==
    \A p \in Honest : pc[p] = "Done" =>
        \A q \in Honest \ {p} :
            /\ output[p][q] = messages[q][q]
            /\ messages[q][p] = messages[p][p]

\* Whatever p delivered, every other honest party received in round 1 and
\* echoed, whether or not it goes on to deliver: a party that fails after p
\* delivered holds no different value of any third party.
DeliveredIsCommon ==
    \A p \in Honest : pc[p] = "Done" =>
        \A q \in Honest \ {p} : \A id \in Quorum \ {p, q} :
            messages[q][id] = output[p][id]

\* The refinement mapping: a sender's value is fixed by the first delivery.
Delivered == {p \in Honest : pc[p] = "Done"}

AbstractInput ==
    [p \in Honest |-> IF messages[p][p] = NoBytes THEN NoOutput ELSE messages[p][p]]

AbstractAgreed ==
    [id \in Quorum |->
        IF Delivered \ {id} = {} THEN NoOutput
        ELSE output[CHOOSE p \in Delivered \ {id} : TRUE][id]]

Abstract == INSTANCE ConsistentBroadcast WITH
    input <- AbstractInput, agreed <- AbstractAgreed, done <- Delivered

\* The echo broadcast implements consistent broadcast: deliveries of different
\* parties never disagree and an honest sender's message is never replaced.
ImplementsBroadcast == Abstract!Spec

\* q failed before p had everything it needs from q.
Silenced(q, p) ==
    pc[q] = "Failed" /\ (wire1[q][p] = NotSent \/ wire2[q][p] = NotSent)

\* p waits for a message of the corrupt party c.
AwaitsCorrupt(p, c) ==
    pc[p] \in {"Exchange1", "Exchange2"} /\ todo[p] = {} /\ c \notin heard[p]

\* Nobody hangs without a reason: Run ends at every honest party, by delivering
\* or by rejecting, with two exceptions.  A corrupt party withholds a message
\* from some honest party for ever; or some honest party was cancelled, or
\* rejected what a corrupt party sent it, before it had sent both its messages
\* to everybody.  Then Run may wait for its own context, be it for that party
\* or for one that waits for it in turn, since a failing Run tells its peers
\* nothing and ReceiveFrom has no other limit.
Termination ==
    \A p \in Honest :
        \/ <>(pc[p] \in {"Done", "Failed"} \/ \E q, r \in Honest : q # r /\ Silenced(q, r))
        \/ \E r \in Honest, c \in Corrupt : <>[]AwaitsCorrupt(r, c)
=============================================================================
