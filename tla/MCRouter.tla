------------------------------- MODULE MCRouter -------------------------------
(***************************************************************************)
(* Model-checking instances of Router: the traffic each run allows.        *)
(***************************************************************************)
EXTENDS Router, TLC

CONSTANTS a, b, stranger, x, y, m1, m2, c1

Message(from, id, payload, copy) ==
    [from |-> from, cid |-> id, payload |-> payload, copy |-> copy]

\* An equivocating and repeating sender, a stranger, bytes that do not decode
\* and traffic for two exchanges.
Hostile ==
    { Message(a, x, m1, 1), Message(a, x, m1, 2), Message(a, x, m2, 1),
      Message(b, x, m1, 1), Message(b, y, m1, 1), Message(a, y, m2, 1),
      Message(stranger, x, m2, 1), Message(b, Undecodable, m1, 1) }

\* One caller runs both exchanges, one after the other.
Sequential == [c \in Callers |-> CorrelationIDs]

\* Two callers, each with an exchange of its own.
Separate == [c \in Callers |-> IF c = c1 THEN {x} ELSE {y}]

\* Each peer sends once in each exchange.
Orderly ==
    { Message(a, x, m1, 1), Message(b, x, m1, 1),
      Message(a, y, m2, 1), Message(b, y, m2, 1) }
=============================================================================
