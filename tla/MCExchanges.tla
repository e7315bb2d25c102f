------------------------------ MODULE MCExchanges ------------------------------
(* Instance of Exchanges for TLC. *)
EXTENDS Exchanges

CONSTANTS x, y, p1

\* A protocol of two exchanges, run twice over the same routers.
Repeated == <<x, y, x, y>>

\* The transport delivers every message once.
Once == [p \in Quorum |-> 1]
=============================================================================
