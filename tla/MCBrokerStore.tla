---------------------------- MODULE MCBrokerStore -----------------------------
(* Model values and payloads for model checking BrokerStore. *)
EXTENDS BrokerStore

CONSTANTS a, b

MCByte == {a, b}
MCData == {<<a>>, <<b, b>>}
=============================================================================
