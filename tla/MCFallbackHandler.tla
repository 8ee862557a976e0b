-------------------------- MODULE MCFallbackHandler -------------------------
(* Instances of FallbackHandler for TLC: provider p1 has a row, p2 has none. *)
EXTENDS FallbackHandler, FiniteSets

CONSTANTS p1, p2, errorRate1, latency1, errorRate2

TwoProviders == {p1, p2}

MCAlarms == {errorRate1, latency1, errorRate2}

MCProviderOf ==
  [a \in MCAlarms |-> IF a \in {errorRate1, latency1} THEN p1 ELSE p2]

\* The row an ALARM followed by its OK leaves behind.
ClearedRow == [healthiness |-> "HEALTHY", ongoingAlarms |-> {}, version |-> 2]

OneSeeded == [p \in TwoProviders |-> IF p = p1 THEN ClearedRow ELSE Null]

\* The table as it is deployed: no rows.
NoRows == [p \in TwoProviders |-> Null]
=============================================================================
