---------------------------- MODULE HealthLedger ----------------------------
(***************************************************************************)
(* What the provider health table promises, with no lambda invocation and  *)
(* no version number in sight: every alarm notification that changes the   *)
(* table is applied in one step to the row as it is at that moment, and a  *)
(* provider is unhealthy exactly while one of its alarms is ongoing.       *)
(* FallbackHandler implements it for every provider that has a row.        *)
(***************************************************************************)
CONSTANTS Provider,     \* the providers that have a row
          Alarm,
          ProviderOf    \* the provider an alarm watches

VARIABLES ongoing, health

lvars == <<ongoing, health>>

Verdict(alarms) == IF alarms = {} THEN "HEALTHY" ELSE "UNHEALTHY"

Init ==
  /\ ongoing \in [Provider -> SUBSET Alarm]
  /\ health = [p \in Provider |-> Verdict(ongoing[p])]

Record(p, alarms) ==
  /\ ongoing' = [ongoing EXCEPT ![p] = alarms]
  /\ health' = [health EXCEPT ![p] = Verdict(alarms)]

Raise(a) == Record(ProviderOf[a], ongoing[ProviderOf[a]] \union {a})

Clear(a) == Record(ProviderOf[a], ongoing[ProviderOf[a]] \ {a})

Next == \E a \in {b \in Alarm : ProviderOf[b] \in Provider} : Raise(a) \/ Clear(a)

Spec == Init /\ [][Next]_lvars
=============================================================================
