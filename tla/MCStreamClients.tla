---------------------------- MODULE MCStreamClients ----------------------------
(* A client that reads and one that may stall, a ring of two messages and a *)
(* threshold of three: seven messages are enough to be overtaken twice, by  *)
(* two messages each, between two deliveries.                               *)
EXTENDS StreamClients

MCClients == {"reader", "staller"}
MCReaders == {"reader"}
=============================================================================
