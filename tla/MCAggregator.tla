---------------------------- MODULE MCAggregator ----------------------------
(* A mesh for the run of Aggregator. *)
EXTENDS Aggregator

CONSTANTS a, b, c

(* a has two peers; c does not list a. *)
MCMesh == [n \in Node |-> CASE n = a -> {b, c} [] n = b -> {a} [] OTHER -> {b}]
=============================================================================
