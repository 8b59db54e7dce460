---------------------------- MODULE MCEventStore ----------------------------
(* Two keys and three transactions: one that writes the same signature table *)
(* twice and the same position, one that touches two positions after a swap, *)
(* one with a pool, liquidity and a log-only event.                          *)
EXTENDS EventStore

CONSTANTS k1, k2

MCKeys == {k1, k2}
E(kind, key) == [kind |-> kind, key |-> key]
MCChain == <<
  <<E("position", k1), E("collateral", k1), E("collateral", k2), E("position", k1)>>,
  <<E("swap", k1), E("position", k2), E("debt", k1), E("position", k1), E("liquidated", k1)>>,
  <<E("pair", k1), E("mint", k1), E("lp", k1), E("log", k1), E("burn", k1)>> >>
=============================================================================
