-------------------------- MODULE FallbackHandler ---------------------------
(***************************************************************************)
(* The lambda that keeps the health of the RPC providers in a DynamoDB     *)
(* table (lib/rpc/handler/FallbackHandler.ts and                           *)
(* lib/rpc/ProviderHealthStateDynamoDbRepository.ts).  CloudWatch invokes  *)
(* it once per alarm notification; invocations run concurrently, each      *)
(* reads a row, computes the next row and writes it: unconditionally if it *)
(* saw no row, under a version condition otherwise.  A failed invocation   *)
(* is run again, MaxRetries times at most.                                 *)
(***************************************************************************)
EXTENDS Naturals

CONSTANTS
  Provider,      \* provider ids, the keys of the table
  Alarm,         \* alarm names
  ProviderOf,    \* the provider an alarm's name carries
  Null,          \* the answer of read() when there is no row
  InitItem,      \* the table at the start
  MaxEvents,     \* bound: notifications in a behaviour
  MaxRetries     \* how often a failed invocation is run again

Healthiness == {"HEALTHY", "UNHEALTHY"}

Item == [healthiness : Healthiness, ongoingAlarms : SUBSET Alarm, version : Nat]

HealthyIffNone(it) == it.healthiness = "HEALTHY" <=> it.ongoingAlarms = {}

ASSUME ProviderAssumption == ProviderOf \in [Alarm -> Provider]

ASSUME TableAssumption ==
  /\ Null \notin Item
  /\ InitItem \in [Provider -> Item \union {Null}]
  /\ \A p \in Provider : InitItem[p] # Null => HealthyIffNone(InitItem[p])

ASSUME BoundAssumption == MaxEvents \in Nat /\ MaxRetries \in Nat

\* The providers that have a row from the start.  No code deletes a row.
Seeded == {p \in Provider : InitItem[p] # Null}

\* Invocations are numbered in the order CloudWatch sends them.
Invocation == 1 .. MaxEvents

\* 'ALARM' and 'OK' are handled; any other state is ignored.
Event == [alarm : Alarm, state : {"ALARM", "OK", "INSUFFICIENT_DATA"}]

VARIABLES
  item,       \* the table: the latest committed row of each provider
  replica,    \* an older or equal row that an eventually consistent get may return
  event,      \* the notification each invocation was sent
  phase,      \* where each invocation is
  snap,       \* the row an invocation read, kept over the await until it writes
  tries,      \* how often an invocation has failed
  firing,     \* history: alarms whose last ALARM or OK notification was ALARM
  disturbed   \* history: alarms whose own notifications were reordered, dropped or
              \* answered from a stale row

vars == <<item, replica, event, phase, snap, tries, firing, disturbed>>

Phase == {"idle", "queued", "writing", "done", "dropped"}

AlarmOf(i) == event[i].alarm
KeyOf(i) == ProviderOf[AlarmOf(i)]

-----------------------------------------------------------------------------
(* The rows the handler computes.                                          *)

\* updateDbItemForAlarmEvent
RowAfterAlarm(state, a) ==
  IF state = Null
  THEN [healthiness |-> "UNHEALTHY", ongoingAlarms |-> {a}, version |-> 1]
  ELSE [healthiness |-> "UNHEALTHY", ongoingAlarms |-> state.ongoingAlarms \union {a},
        version |-> state.version + 1]

\* A bug: an OK of any alarm makes the provider healthy.
RowAfterOkForgets(state, a) ==
  [healthiness |-> "HEALTHY", ongoingAlarms |-> state.ongoingAlarms \ {a},
   version |-> state.version + 1]

\* updateDbItemForOkEvent, past its two early returns
RowAfterOk(state, a) ==
  LET left == state.ongoingAlarms \ {a}
  IN  [healthiness |-> IF left = {} THEN "HEALTHY" ELSE "UNHEALTHY",
       ongoingAlarms |-> left, version |-> state.version + 1]

\* A bug: the early return also takes a provider that another alarm keeps down.
NothingToClearIfOthers(state, a) ==
  \/ state = Null
  \/ state.healthiness = "HEALTHY"
  \/ state.ongoingAlarms # {a}

\* The early returns of updateDbItemForOkEvent.
NothingToClear(state, a) ==
  \/ state = Null
  \/ state.healthiness = "HEALTHY"
  \/ a \notin state.ongoingAlarms

NewRow(i) ==
  IF event[i].state = "ALARM" THEN RowAfterAlarm(snap[i], AlarmOf(i))
                              ELSE RowAfterOk(snap[i], AlarmOf(i))

-----------------------------------------------------------------------------
(* The life of an invocation.                                              *)

Init ==
  /\ item = InitItem
  /\ replica = InitItem
  /\ event = [i \in Invocation |-> Null]
  /\ phase = [i \in Invocation |-> "idle"]
  /\ snap = [i \in Invocation |-> Null]
  /\ tries = [i \in Invocation |-> 0]
  /\ firing = {a \in Alarm : InitItem[ProviderOf[a]] # Null
                             /\ a \in InitItem[ProviderOf[a]].ongoingAlarms}
  /\ disturbed = {}

\* CloudWatch changes the state of alarm a to s and invokes the lambda.
Alert(i, a, s) ==
  /\ phase[i] = "idle"
  /\ \A j \in Invocation : j < i => phase[j] # "idle"
  /\ event' = [event EXCEPT ![i] = [alarm |-> a, state |-> s]]
  /\ phase' = [phase EXCEPT ![i] = "queued"]
  /\ firing' = IF s = "ALARM" THEN firing \union {a}
               ELSE IF s = "OK" THEN firing \ {a} ELSE firing
  /\ UNCHANGED <<item, replica, snap, tries, disturbed>>

\* The invocation returns a response.
Finish(i) ==
  /\ phase' = [phase EXCEPT ![i] = "done"]
  /\ tries' = tries

\* A bug: a failed invocation is queued again without counting the attempt.
FailUncounted(i) ==
  /\ tries' = tries
  /\ phase' = [phase EXCEPT ![i] = "queued"]

\* A bug: one retry too many.
FailOnceMore(i) ==
  /\ tries' = [tries EXCEPT ![i] = @ + 1]
  /\ phase' = [phase EXCEPT ![i] = IF tries[i] <= MaxRetries THEN "queued" ELSE "dropped"]

\* The invocation throws or times out: it is queued again, or given up.
Fail(i) ==
  /\ tries' = [tries EXCEPT ![i] = @ + 1]
  /\ phase' = [phase EXCEPT ![i] = IF tries[i] < MaxRetries THEN "queued" ELSE "dropped"]

\* The alarms that the failure of i disturbs: its own, when it is not retried.
Abandons(i) == IF tries[i] < MaxRetries THEN {} ELSE {AlarmOf(i)}

\* Invocation i starts before an earlier one of the same alarm has finished.
Overtakes(i) ==
  \E j \in Invocation : /\ j < i
                        /\ AlarmOf(j) = AlarmOf(i)
                        /\ phase[j] # "done"

Overtaking(i) == IF Overtakes(i) THEN {AlarmOf(i)} ELSE {}

\* processAlarm: neither ALARM nor OK.
Ignore(i) ==
  /\ phase[i] = "queued"
  /\ event[i].state \notin {"ALARM", "OK"}
  /\ Finish(i)
  /\ UNCHANGED <<item, replica, event, snap, firing, disturbed>>

\* read() throws.
ReadFails(i) ==
  /\ phase[i] = "queued"
  /\ event[i].state \in {"ALARM", "OK"}
  /\ Fail(i)
  /\ disturbed' = disturbed \union Abandons(i)
  /\ UNCHANGED <<item, replica, event, snap, firing>>

\* read() of an ALARM event; a row is always written.
ReadForAlarm(i, state) ==
  /\ phase[i] = "queued"
  /\ event[i].state = "ALARM"
  /\ phase' = [phase EXCEPT ![i] = "writing"]
  /\ snap' = [snap EXCEPT ![i] = state]
  /\ disturbed' = disturbed \union Overtaking(i)
  /\ UNCHANGED <<item, replica, event, tries, firing>>

\* read() of an OK event; with nothing to clear the invocation returns at once.
ReadForOk(i, state) ==
  /\ phase[i] = "queued"
  /\ event[i].state = "OK"
  /\ IF NothingToClear(state, AlarmOf(i))
     THEN /\ Finish(i)
          /\ snap' = snap
          /\ disturbed' = disturbed \union Overtaking(i)
                            \union (IF state # item[KeyOf(i)] THEN {AlarmOf(i)} ELSE {})
     ELSE /\ phase' = [phase EXCEPT ![i] = "writing"]
          /\ tries' = tries
          /\ snap' = [snap EXCEPT ![i] = state]
          /\ disturbed' = disturbed \union Overtaking(i)
  /\ UNCHANGED <<item, replica, event, firing>>

\* A bug: the update carries no condition.
UncheckedCondition(i) == TRUE

\* ConditionExpression '#version = :baseVersion', false when there is no row.
ConditionHolds(i) ==
  /\ item[KeyOf(i)] # Null
  /\ item[KeyOf(i)].version = NewRow(i).version - 1

\* What follows a write: the response, or a failure although the row was written (the
\* answer is lost or the lambda times out).
AfterWrite(i) ==
  \/ Finish(i) /\ disturbed' = disturbed
  \/ Fail(i) /\ disturbed' = disturbed \union Abandons(i)

Commit(i) ==
  /\ item' = [item EXCEPT ![KeyOf(i)] = NewRow(i)]
  /\ snap' = [snap EXCEPT ![i] = Null]
  /\ AfterWrite(i)
  /\ UNCHANGED <<replica, event, firing>>

\* write(): no condition.
WriteFirst(i) ==
  /\ phase[i] = "writing"
  /\ snap[i] = Null
  /\ Commit(i)

\* update(): the condition holds.
UpdateItem(i) ==
  /\ phase[i] = "writing"
  /\ snap[i] # Null
  /\ ConditionHolds(i)
  /\ Commit(i)

\* update() throws because of its condition; or any write throws, or the lambda times
\* out, before the row is written.
WriteFails(i) ==
  /\ phase[i] = "writing"
  /\ Fail(i)
  /\ snap' = [snap EXCEPT ![i] = Null]
  /\ disturbed' = disturbed \union Abandons(i)
  /\ UNCHANGED <<item, replica, event, firing>>

\* The replica a get reads catches up.
Replicate(p) ==
  /\ replica[p] # item[p]
  /\ replica' = [replica EXCEPT ![p] = item[p]]
  /\ UNCHANGED <<item, event, phase, snap, tries, firing, disturbed>>

Read(i) ==
  /\ phase[i] = "queued"
  /\ \E state \in {item[KeyOf(i)], replica[KeyOf(i)]} :
       ReadForAlarm(i, state) \/ ReadForOk(i, state)

Handle(i) ==
  Ignore(i) \/ ReadFails(i) \/ Read(i) \/ WriteFirst(i) \/ UpdateItem(i) \/ WriteFails(i)

Next ==
  \/ \E i \in Invocation :
       \/ \E a \in Alarm, s \in {"ALARM", "OK", "INSUFFICIENT_DATA"} : Alert(i, a, s)
       \/ Handle(i)
  \/ \E p \in Provider : Replicate(p)

\* A lambda that was invoked runs, and is run again until its retries are used up.
Fairness == \A i \in Invocation : WF_vars(Handle(i))

Spec == Init /\ [][Next]_vars

FairSpec == Spec /\ Fairness
-----------------------------------------------------------------------------
(* What is claimed of it.                                                  *)

\* Every variable has its type; an issued invocation carries its notification and fails
\* at most MaxRetries + 1 times.
TypeOK ==
  /\ item \in [Provider -> Item \union {Null}]
  /\ replica \in [Provider -> Item \union {Null}]
  /\ phase \in [Invocation -> Phase]
  /\ event \in [Invocation -> Event \union {Null}]
  /\ \A i \in Invocation : phase[i] # "idle" => event[i] \in Event
  /\ snap \in [Invocation -> Item \union {Null}]
  /\ tries \in [Invocation -> 0 .. (MaxRetries + 1)]
  /\ firing \in SUBSET Alarm
  /\ disturbed \in SUBSET Alarm

\* Whatever invocations race, and even where a first write overwrites another one, a
\* stored row calls its provider healthy exactly when it lists no ongoing alarm.
HealthyIffNoAlarm ==
  \A p \in Provider : item[p] # Null => HealthyIffNone(item[p])

\* The row of p is replaced by one that the event of an invocation in flight makes of it.
ComputedFromCurrent(p) ==
  /\ item[p] # Null
  /\ \E i \in Invocation :
       /\ phase[i] = "writing" /\ KeyOf(i) = p
       /\ item'[p] = IF event[i].state = "ALARM" THEN RowAfterAlarm(item[p], AlarmOf(i))
                                                 ELSE RowAfterOk(item[p], AlarmOf(i))

\* No alarm is lost and no cleared alarm comes back through a stale write: a row that
\* exists from the start is only ever replaced by a row computed from it, however the
\* reads and writes of concurrent, stale or retried invocations interleave.
NoLostUpdate ==
  [][\A p \in Seeded : item'[p] # item[p] => ComputedFromCurrent(p)]_vars

\* The comment on update(): the version condition detects concurrent write conflicts.  So
\* a row that update() writes (write() writes version 1) was computed from the row it
\* replaces, for every provider (ProviderHealthStateDynamoDbRepository.ts:73-75).
ConflictsDetected ==
  [][\A p \in Provider :
       item'[p] # item[p] /\ item'[p].version > 1 => ComputedFromCurrent(p)]_vars

\* Seen from outside, invocations on a provider that has a row are atomic: the table
\* implements the ledger, in which each notification is applied to the current row.
Ledger == INSTANCE HealthLedger WITH
  Provider <- Seeded,
  ongoing <- [p \in Seeded |-> item[p].ongoingAlarms],
  health <- [p \in Seeded |-> item[p].healthiness]

ImplementsLedger == Ledger!Spec

Settled(a) == \A i \in Invocation :
  phase[i] # "idle" /\ AlarmOf(i) = a => phase[i] = "done"

\* An alarm whose own notifications were handled one after the other, none of them given
\* up or answered from a stale row, is listed in the row exactly when it is firing:
\* the concurrent, failing and retried invocations of other alarms of the provider
\* cannot make its mark disappear or come back.
OrderlyAlarmsRecorded ==
  \A a \in Alarm :
    ProviderOf[a] \in Seeded /\ a \notin disturbed /\ Settled(a)
      => (a \in item[ProviderOf[a]].ongoingAlarms <=> a \in firing)

\* Every notification is answered or given up: conflicting invocations do not keep each
\* other failing for ever.
EveryAlertSettles ==
  \A i \in Invocation : phase[i] = "queued" ~> phase[i] \in {"done", "dropped"}
=============================================================================
