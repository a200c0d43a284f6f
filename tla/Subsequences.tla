---------------------------- MODULE Subsequences ----------------------------
(***************************************************************************)
(* What the plugin's loops do that walk a list and append some of its      *)
(* elements to a new one: the elements at the positions S of a sequence,   *)
(* in their order.  It is stated without recursion, by rank, so that it    *)
(* can be reasoned about.                                                  *)
(***************************************************************************)
EXTENDS Integers, Sequences, FiniteSets

Rank(S, i) == Cardinality({j \in S : j < i})
Nth(S, k) == CHOOSE i \in S : Rank(S, i) = k - 1

Only(s, S) == [k \in 1 .. Cardinality(S) |-> s[Nth(S, k)]]
=============================================================================
