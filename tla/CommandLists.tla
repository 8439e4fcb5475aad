---------------------------- MODULE CommandLists ----------------------------
(* Lists of the commands an adapter or a plan runs one after the other.  *)
EXTENDS Naturals, Sequences, FiniteSets

Elements(s) == {s[i] : i \in DOMAIN s}

\* Every operation of ops on the first element of s, then on the second, ...
Each(ops, s) ==
  [i \in 1 .. Len(ops) * Len(s) |->
     [op |-> ops[1 + ((i - 1) % Len(ops))], on |-> s[1 + ((i - 1) \div Len(ops))]]]

Reversed(s) == [i \in 1 .. Len(s) |-> s[1 + Len(s) - i]]

When(condition, commands) == IF condition THEN commands ELSE <<>>

\* The elements of s at the places in S, in their order: the n-th is the one with n places
\* of S up to its own.
Rank(S, i) == Cardinality({j \in S : j <= i})
AtPlaces(s, S) == [n \in 1 .. Cardinality(S) |-> s[CHOOSE i \in S : Rank(S, i) = n]]

\* s without the elements that occurred before.
FirstOccurrences(s) == AtPlaces(s, {i \in DOMAIN s : \A j \in 1 .. i - 1 : s[j] # s[i]})
=============================================================================
