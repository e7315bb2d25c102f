------------------------------ MODULE RouterOps ------------------------------
(***************************************************************************)
(* The decisions of network.Router.ReceiveFrom as operators on sets of     *)
(* messages, shared by the router alone (Router) and by the protocols that *)
(* run over it.  A message is a record with at least the fields from, cid  *)
(* and payload; copies of one message differ in some further field that    *)
(* the code never reads, so sets stand for the slices and maps of the      *)
(* code.  No outcome of ReceiveFrom depends on the order of its buffer,    *)
(* except which of several equivocating senders the error names.           *)
(***************************************************************************)

\* The messages a call for cid and the senders expected would take.
Matching(S, cid, expected) == {m \in S : m.cid = cid /\ m.from \in expected}

\* Senders with two different payloads among messages of one correlation ID.
Conflicting(S) ==
    {m.from : m \in {x \in S : \E y \in S : x.from = y.from /\ x.payload # y.payload}}

\* The loop condition: every expected sender has been heard.
Complete(S, expected) == expected \subseteq {m.from : m \in S}
=============================================================================
