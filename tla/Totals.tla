------------------------------- MODULE Totals -------------------------------
(***************************************************************************)
(* What a set of records that each have an amount adds up to: the number   *)
(* of their coins of one, each record having as many of its own as its     *)
(* amount says.  So a total is a cardinality, and needs no recursion.      *)
(***************************************************************************)
EXTENDS Integers, FiniteSets

Coins(S) == UNION {{x} \X (1 .. x.amount) : x \in S}
Total(S) == Cardinality(Coins(S))
=============================================================================
