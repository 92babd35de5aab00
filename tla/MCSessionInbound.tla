-------------------------- MODULE MCSessionInbound --------------------------
(* SessionInbound with the values TLC needs. *)
EXTENDS SessionInbound

\* Of the payloads of one byte, one cannot be deserialized.
MCUnparsable == {<<1>>}
=============================================================================
