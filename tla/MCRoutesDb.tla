----------------------------- MODULE MCRoutesDb -----------------------------
(* Instances of RoutesDb for TLC: a route of each protocol that keys differ on. *)
EXTENDS RoutesDb, TLC

CONSTANTS c1, c2

Routes == 1 .. 3

MCProtocolOf == <<"V3", "V4", "MIXED">>

MCPoolsOf == <<{}, {}, {"V3", "V4"}>>

\* With and without V4.
MCProtocolSets == {{"V3", "MIXED"}, {"V3", "V4", "MIXED"}}

\* The instances are interchangeable.
ClientSymmetry == Permutations({c1, c2})
=============================================================================
