------------------------ MODULE FallbackHandlerProofs -----------------------
(***************************************************************************)
(* Proofs about FallbackHandler, for any providers, alarms, initial table, *)
(* number of notifications and number of retries.                          *)
(***************************************************************************)
EXTENDS FallbackHandler, TLAPS

-----------------------------------------------------------------------------
(* The inductive invariant, in three parts.                                *)

\* What an invocation that is about to write knows: its event is handled, and only an
\* ALARM event writes without having read a row.  An invocation that may still fail has
\* failed at most MaxRetries times.
WriterInv ==
  \A i \in Invocation :
    /\ phase[i] \in {"idle", "queued", "writing"} => tries[i] \in 0 .. MaxRetries
    /\ phase[i] = "writing" => event[i].state \in {"ALARM", "OK"}
    /\ phase[i] = "writing" /\ event[i].state = "OK" => snap[i] # Null

TypeInv == TypeOK /\ WriterInv

\* A version number identifies a row: state, read from or copied of the row of p, is not
\* newer than it, and is the same row if it has the same version.
Behind(state, p) ==
  /\ state # Null
  /\ state.version <= item[p].version
  /\ state.version = item[p].version => state = item[p]

FreshInv ==
  /\ \A p \in Seeded : item[p] # Null /\ Behind(replica[p], p)
  /\ \A i \in Invocation :
       phase[i] = "writing" /\ KeyOf(i) \in Seeded => Behind(snap[i], KeyOf(i))

-----------------------------------------------------------------------------
(* The rows the handler computes.                                          *)

\* updateDbItemForAlarmEvent stores a well-formed row that lists the alarm, whatever it read.
LEMMA AlarmRow ==
  ASSUME NEW state \in Item \union {Null}, NEW a \in Alarm
  PROVE  /\ RowAfterAlarm(state, a) \in Item
         /\ HealthyIffNone(RowAfterAlarm(state, a))
  BY DEF RowAfterAlarm, Item, Healthiness, HealthyIffNone

\* updateDbItemForOkEvent stores a well-formed row one version higher.
LEMMA OkRow ==
  ASSUME NEW state \in Item, NEW a \in Alarm
  PROVE  /\ RowAfterOk(state, a) \in Item
         /\ HealthyIffNone(RowAfterOk(state, a))
         /\ RowAfterOk(state, a).version = state.version + 1
  BY DEF RowAfterOk, Item, Healthiness, HealthyIffNone

\* The row an invocation is about to write is well formed.
LEMMA NewRowType ==
  ASSUME TypeInv, NEW i \in Invocation, phase[i] = "writing"
  PROVE  /\ AlarmOf(i) \in Alarm /\ KeyOf(i) \in Provider
         /\ NewRow(i) \in Item
         /\ HealthyIffNone(NewRow(i))
         /\ snap[i] # Null => snap[i] \in Item /\ NewRow(i).version = snap[i].version + 1
<1>1. event[i] \in Event /\ snap[i] \in Item \union {Null}
  BY DEF TypeInv, TypeOK
<1>2. AlarmOf(i) \in Alarm /\ KeyOf(i) \in Provider
  BY <1>1, ProviderAssumption DEF Event, AlarmOf, KeyOf
<1>3. CASE event[i].state = "ALARM"
  <2>1. NewRow(i) = RowAfterAlarm(snap[i], AlarmOf(i))
    BY <1>3 DEF NewRow
  <2>2. snap[i] # Null => NewRow(i).version = snap[i].version + 1
    BY <2>1 DEF RowAfterAlarm
  <2>. QED  BY <1>1, <1>2, <2>1, <2>2, AlarmRow
<1>4. CASE event[i].state # "ALARM"
  <2>1. event[i].state = "OK" /\ snap[i] \in Item
    BY <1>1, <1>4 DEF TypeInv, WriterInv
  <2>2. NewRow(i) = RowAfterOk(snap[i], AlarmOf(i))
    BY <1>4 DEF NewRow
  <2>. QED  BY <1>2, <2>1, <2>2, OkRow
<1>. QED  BY <1>3, <1>4

\* The key of an issued notification is a provider.
LEMMA KeyType ==
  ASSUME TypeOK, NEW i \in Invocation, phase[i] # "idle"
  PROVE  AlarmOf(i) \in Alarm /\ KeyOf(i) \in Provider
<1>1. event[i] \in Event
  BY DEF TypeOK
<1>. QED  BY <1>1, ProviderAssumption DEF Event, AlarmOf, KeyOf
\* What a failed attempt leaves behind is well typed.
LEMMA FailType ==
  ASSUME TypeInv, NEW i \in Invocation, phase[i] \in {"queued", "writing"}, Fail(i)
  PROVE  /\ phase' \in [Invocation -> Phase]
         /\ tries' \in [Invocation -> 0 .. (MaxRetries + 1)]
         /\ phase'[i] \in {"queued", "dropped"}
         /\ \A j \in Invocation : j # i => phase'[j] = phase[j] /\ tries'[j] = tries[j]
         /\ phase'[i] = "queued" => tries'[i] \in 0 .. MaxRetries
         /\ Abandons(i) \in SUBSET Alarm
<1>1. tries[i] \in 0 .. MaxRetries
  BY DEF TypeInv, WriterInv
<1>2. AlarmOf(i) \in Alarm
  BY KeyType DEF TypeInv
<1>3. tries[i] + 1 \in 0 .. (MaxRetries + 1) /\ (tries[i] < MaxRetries => tries[i] + 1 \in 0 .. MaxRetries)
  BY <1>1, BoundAssumption
<1>4. phase \in [Invocation -> Phase] /\ tries \in [Invocation -> 0 .. (MaxRetries + 1)]
  BY DEF TypeInv, TypeOK
<1>. QED  BY <1>2, <1>3, <1>4 DEF Fail, Abandons, Phase

\* The history variable keeps its type.
LEMMA OvertakingType ==
  ASSUME TypeInv, NEW i \in Invocation, phase[i] # "idle"
  PROVE  Overtaking(i) \in SUBSET Alarm /\ {AlarmOf(i)} \in SUBSET Alarm
  BY KeyType DEF Overtaking, TypeInv

\* Type correctness of the steps that write a row.
LEMMA CommitType ==
  ASSUME TypeInv, NEW i \in Invocation, phase[i] = "writing", Commit(i)
  PROVE  TypeInv'
<1>1. /\ NewRow(i) \in Item /\ KeyOf(i) \in Provider /\ AlarmOf(i) \in Alarm
  BY NewRowType
<1>2. item' \in [Provider -> Item \union {Null}] /\ snap' \in [Invocation -> Item \union {Null}]
  BY <1>1 DEF Commit, TypeInv, TypeOK
<1>3. UNCHANGED <<replica, event, firing>> /\ snap'[i] = Null
      /\ \A j \in Invocation : j # i => snap'[j] = snap[j]
  BY DEF Commit, TypeInv, TypeOK
<1>4. CASE Finish(i) /\ disturbed' = disturbed
  <2>1. /\ phase' = [phase EXCEPT ![i] = "done"] /\ tries' = tries
    BY <1>4 DEF Finish
  <2>2. TypeOK'
    BY <1>2, <1>3, <1>4, <2>1 DEF TypeInv, TypeOK, Phase
  <2>3. WriterInv'
    BY <1>3, <2>1 DEF TypeInv, TypeOK, WriterInv
  <2>. QED  BY <2>2, <2>3 DEF TypeInv
<1>5. CASE Fail(i) /\ disturbed' = disturbed \union Abandons(i)
  <2>1. /\ phase' \in [Invocation -> Phase]
        /\ tries' \in [Invocation -> 0 .. (MaxRetries + 1)]
        /\ phase'[i] \in {"queued", "dropped"}
        /\ \A j \in Invocation : j # i => phase'[j] = phase[j] /\ tries'[j] = tries[j]
        /\ phase'[i] = "queued" => tries'[i] \in 0 .. MaxRetries
        /\ Abandons(i) \in SUBSET Alarm
    BY <1>5, FailType
  <2>2. TypeOK'
    BY <1>2, <1>3, <1>5, <2>1 DEF TypeInv, TypeOK
  <2>3. WriterInv'
    BY <1>3, <2>1 DEF TypeInv, TypeOK, WriterInv
  <2>. QED  BY <2>2, <2>3 DEF TypeInv
<1>. QED  BY <1>4, <1>5 DEF Commit, AfterWrite

\* Type correctness of every step.
LEMMA TypeStep == TypeInv /\ [Next]_vars => TypeInv'
<1>. SUFFICES ASSUME TypeInv, [Next]_vars PROVE TypeInv'
  OBVIOUS
<1>1. ASSUME NEW i \in Invocation, NEW a \in Alarm,
             NEW s \in {"ALARM", "OK", "INSUFFICIENT_DATA"}, Alert(i, a, s)
      PROVE  TypeInv'
  <2>1. TypeOK'
    BY <1>1 DEF Alert, TypeInv, TypeOK, Event, Phase
  <2>2. WriterInv'
    BY <1>1 DEF Alert, TypeInv, TypeOK, WriterInv
  <2>. QED  BY <2>1, <2>2 DEF TypeInv
<1>2. ASSUME NEW i \in Invocation, Ignore(i) PROVE TypeInv'
  <2>1. TypeOK'
    BY <1>2 DEF Ignore, Finish, TypeInv, TypeOK, Phase
  <2>2. WriterInv'
    BY <1>2 DEF Ignore, Finish, TypeInv, TypeOK, WriterInv
  <2>. QED  BY <2>1, <2>2 DEF TypeInv
<1>3. ASSUME NEW i \in Invocation, ReadFails(i) PROVE TypeInv'
  <2>1. Fail(i) /\ phase[i] = "queued" /\ disturbed' = disturbed \union Abandons(i)
        /\ UNCHANGED <<item, replica, event, snap, firing>>
    BY <1>3 DEF ReadFails
  <2>2. TypeOK'
    BY <2>1, FailType DEF TypeInv, TypeOK
  <2>3. WriterInv'
    BY <2>1, FailType DEF TypeInv, TypeOK, WriterInv
  <2>. QED  BY <2>2, <2>3 DEF TypeInv
<1>4. ASSUME NEW i \in Invocation, Read(i) PROVE TypeInv'
  <2>1. PICK state \in {item[KeyOf(i)], replica[KeyOf(i)]} :
          ReadForAlarm(i, state) \/ ReadForOk(i, state)
    BY <1>4 DEF Read
  <2>2. phase[i] = "queued"
    BY <1>4 DEF Read
  <2>3. state \in Item \union {Null}
    BY <2>2, KeyType DEF TypeInv, TypeOK
  <2>4. CASE ReadForAlarm(i, state)
    <3>1. TypeOK'
      BY <2>2, <2>3, <2>4, OvertakingType DEF ReadForAlarm, TypeInv, TypeOK, Phase
    <3>2. WriterInv'
      BY <2>4 DEF ReadForAlarm, TypeInv, TypeOK, WriterInv
    <3>. QED  BY <3>1, <3>2 DEF TypeInv
  <2>5. CASE ReadForOk(i, state) /\ NothingToClear(state, AlarmOf(i))
    <3>1. TypeOK'
      BY <2>2, <2>3, <2>5, OvertakingType DEF ReadForOk, Finish, TypeInv, TypeOK, Phase
    <3>2. WriterInv'
      BY <2>5 DEF ReadForOk, Finish, TypeInv, TypeOK, WriterInv
    <3>. QED  BY <3>1, <3>2 DEF TypeInv
  <2>6. CASE ReadForOk(i, state) /\ ~NothingToClear(state, AlarmOf(i))
    <3>1. TypeOK'
      BY <2>2, <2>3, <2>6, OvertakingType DEF ReadForOk, TypeInv, TypeOK, Phase
    <3>2. WriterInv'
      BY <2>6 DEF ReadForOk, NothingToClear, TypeInv, TypeOK, WriterInv
    <3>. QED  BY <3>1, <3>2 DEF TypeInv
  <2>. QED  BY <2>1, <2>4, <2>5, <2>6
<1>5. ASSUME NEW i \in Invocation, WriteFirst(i) PROVE TypeInv'
  BY <1>5, CommitType DEF WriteFirst
<1>6. ASSUME NEW i \in Invocation, UpdateItem(i) PROVE TypeInv'
  BY <1>6, CommitType DEF UpdateItem
<1>7. ASSUME NEW i \in Invocation, WriteFails(i) PROVE TypeInv'
  <2>1. Fail(i) /\ phase[i] = "writing" /\ disturbed' = disturbed \union Abandons(i)
        /\ snap' = [snap EXCEPT ![i] = Null]
        /\ UNCHANGED <<item, replica, event, firing>>
    BY <1>7 DEF WriteFails
  <2>2. TypeOK'
    BY <2>1, FailType DEF TypeInv, TypeOK
  <2>3. WriterInv'
    BY <2>1, FailType DEF TypeInv, TypeOK, WriterInv
  <2>. QED  BY <2>2, <2>3 DEF TypeInv
<1>8. ASSUME NEW p \in Provider, Replicate(p) PROVE TypeInv'
  BY <1>8 DEF Replicate, TypeInv, TypeOK, WriterInv
<1>9. CASE UNCHANGED vars
  BY <1>9 DEF vars, TypeInv, TypeOK, WriterInv
<1>. QED
  BY <1>1, <1>2, <1>3, <1>4, <1>5, <1>6, <1>7, <1>8, <1>9 DEF Next, Handle

LEMMA TypeInit == Init => TypeInv
  BY ProviderAssumption, TableAssumption, BoundAssumption
  DEF Init, TypeInv, TypeOK, WriterInv, Phase

\* Every behaviour keeps the types, the retry bound included.
THEOREM TypeCorrect == Spec => []TypeOK
<1>1. TypeInv => TypeOK
  BY DEF TypeInv
<1>. QED  BY <1>1, TypeInit, TypeStep, PTL DEF Spec
-----------------------------------------------------------------------------
(* The rows of the table.                                                  *)

\* A step changes at most the row of one invocation that was about to write, to the row
\* it computed; unless it had read no row, the version condition held.
LEMMA RowStep ==
  ASSUME TypeInv, [Next]_vars, item' # item
  PROVE  \E i \in Invocation :
           /\ phase[i] = "writing"
           /\ item' = [item EXCEPT ![KeyOf(i)] = NewRow(i)]
           /\ snap[i] = Null \/ ConditionHolds(i)
           /\ phase'[i] # "writing"
           /\ \A j \in Invocation :
                j # i => phase'[j] = phase[j] /\ snap'[j] = snap[j]
           /\ UNCHANGED <<replica, event>>
<1>1. PICK i \in Invocation : WriteFirst(i) \/ UpdateItem(i)
  BY DEF Next, Handle, Alert, Ignore, ReadFails, Read, ReadForAlarm, ReadForOk,
         WriteFails, Replicate, vars
<1>2. phase[i] = "writing" /\ Commit(i) /\ (snap[i] = Null \/ ConditionHolds(i))
  BY <1>1 DEF WriteFirst, UpdateItem
<1>3. phase'[i] # "writing" /\ \A j \in Invocation : j # i => phase'[j] = phase[j]
  <2>1. CASE Finish(i)
    BY <2>1 DEF Finish, TypeInv, TypeOK
  <2>2. CASE Fail(i)
    BY <2>2, <1>2, FailType
  <2>. QED  BY <1>2, <2>1, <2>2 DEF Commit, AfterWrite
<1>. QED  BY <1>2, <1>3 DEF Commit, TypeInv, TypeOK

LEMMA HealthStep ==
  TypeInv /\ HealthyIffNoAlarm /\ [Next]_vars => HealthyIffNoAlarm'
<1>. SUFFICES ASSUME TypeInv, HealthyIffNoAlarm, [Next]_vars PROVE HealthyIffNoAlarm'
  OBVIOUS
<1>1. CASE item' = item
  BY <1>1 DEF HealthyIffNoAlarm, HealthyIffNone
<1>2. CASE item' # item
  <2>1. PICK i \in Invocation :
          phase[i] = "writing" /\ item' = [item EXCEPT ![KeyOf(i)] = NewRow(i)]
    BY <1>2, RowStep
  <2>2. HealthyIffNone(NewRow(i))
    BY <2>1, NewRowType
  <2>. QED  BY <2>1, <2>2 DEF HealthyIffNoAlarm, HealthyIffNone, TypeInv, TypeOK
<1>. QED  BY <1>1, <1>2

\* In every reachable table, seeded or not, whatever raced: healthy means no ongoing alarm.
THEOREM HealthCorrect == Spec => []HealthyIffNoAlarm
<1>1. Init => HealthyIffNoAlarm
  BY TableAssumption DEF Init, HealthyIffNoAlarm
<1>. QED  BY <1>1, TypeInit, TypeStep, HealthStep, PTL DEF Spec

-----------------------------------------------------------------------------
(* Versions identify rows, so a conditional update writes over what it read. *)

\* The row an invocation of a seeded provider replaces is the row it read.
LEMMA WritesOverWhatItRead ==
  ASSUME TypeInv, FreshInv, NEW i \in Invocation, phase[i] = "writing",
         KeyOf(i) \in Seeded, snap[i] = Null \/ ConditionHolds(i)
  PROVE  snap[i] = item[KeyOf(i)] /\ NewRow(i).version = item[KeyOf(i)].version + 1
<1>1. snap[i] # Null /\ Behind(snap[i], KeyOf(i)) /\ item[KeyOf(i)] # Null
  BY DEF FreshInv, Behind
<1>2. snap[i] \in Item /\ NewRow(i).version = snap[i].version + 1 /\ NewRow(i) \in Item
  BY <1>1, NewRowType
<1>3. item[KeyOf(i)] \in Item
  BY <1>1, NewRowType DEF TypeInv, TypeOK
<1>4. snap[i].version \in Nat /\ item[KeyOf(i)].version \in Nat
  BY <1>2, <1>3 DEF Item
<1>5. item[KeyOf(i)].version = NewRow(i).version - 1
  BY <1>1 DEF ConditionHolds
<1>6. item[KeyOf(i)].version = snap[i].version
  BY <1>2, <1>4, <1>5
<1>. QED  BY <1>1, <1>2, <1>6 DEF Behind

LEMMA FreshStep == TypeInv /\ FreshInv /\ [Next]_vars => FreshInv'
<1>. SUFFICES ASSUME TypeInv, FreshInv, [Next]_vars PROVE FreshInv'
  OBVIOUS
<1>. Seeded \subseteq Provider
  BY DEF Seeded
<1>1. CASE item' # item
  <2>1. PICK i \in Invocation :
           /\ phase[i] = "writing"
           /\ item' = [item EXCEPT ![KeyOf(i)] = NewRow(i)]
           /\ snap[i] = Null \/ ConditionHolds(i)
           /\ phase'[i] # "writing"
           /\ \A j \in Invocation :
                j # i => phase'[j] = phase[j] /\ snap'[j] = snap[j]
           /\ UNCHANGED <<replica, event>>
    BY <1>1, RowStep
  <2>2. NewRow(i) \in Item /\ KeyOf(i) \in Provider /\ NewRow(i) # Null
    BY <2>1, NewRowType, TableAssumption
  <2>3. ASSUME NEW p \in Seeded, NEW state \in Item, Behind(state, p)
        PROVE  state.version <= item'[p].version
               /\ (state.version = item'[p].version => state = item'[p])
    <3>1. CASE p # KeyOf(i)
      BY <2>1, <2>3, <3>1 DEF Behind, TypeInv, TypeOK
    <3>2. CASE p = KeyOf(i)
      <4>1. item'[p] = NewRow(i) /\ NewRow(i).version = item[p].version + 1
        BY <2>1, <2>2, <3>2, WritesOverWhatItRead DEF TypeInv, TypeOK
      <4>2. item[p] \in Item
        BY DEF FreshInv, TypeInv, TypeOK
      <4>3. state.version \in Nat /\ item[p].version \in Nat
        BY <4>2 DEF Item
      <4>. QED  BY <2>3, <4>1, <4>3 DEF Behind
    <3>. QED  BY <3>1, <3>2
  <2>4. ASSUME NEW p \in Seeded PROVE item'[p] # Null /\ Behind(replica[p], p)'
    <3>1. replica[p] \in Item /\ Behind(replica[p], p) /\ item[p] # Null
      BY DEF FreshInv, Behind, TypeInv, TypeOK
    <3>. QED  BY <2>1, <2>2, <2>3, <3>1 DEF Behind, TypeInv, TypeOK
  <2>5. ASSUME NEW j \in Invocation, phase'[j] = "writing", KeyOf(j)' \in Seeded
        PROVE  Behind(snap[j], KeyOf(j))'
    <3>1. j # i /\ phase[j] = "writing" /\ snap'[j] = snap[j] /\ KeyOf(j)' = KeyOf(j)
      BY <2>1, <2>5 DEF KeyOf, AlarmOf
    <3>2. Behind(snap[j], KeyOf(j)) /\ snap[j] \in Item
      BY <2>5, <3>1 DEF FreshInv, Behind, TypeInv, TypeOK
    <3>. QED  BY <2>3, <2>5, <3>1, <3>2 DEF Behind
  <2>. QED  BY <2>4, <2>5 DEF FreshInv, Seeded
<1>2. CASE item' = item
  <2>1. ASSUME NEW p \in Seeded PROVE Behind(item[p], p) /\ Behind(replica[p], p)
    <3>1. item[p] \in Item
      BY DEF FreshInv, TypeInv, TypeOK
    <3>. QED  BY <3>1 DEF FreshInv, Behind, Item
  <2>2. \A p \in Provider : replica'[p] = replica[p] \/ replica'[p] = item[p]
    BY <1>2 DEF Next, Handle, Alert, Ignore, ReadFails, Read, ReadForAlarm, ReadForOk,
         WriteFirst, UpdateItem, Commit, WriteFails, Replicate, vars, TypeInv, TypeOK
  <2>3. ASSUME NEW j \in Invocation, phase'[j] = "writing"
        PROVE  KeyOf(j)' = KeyOf(j)
               /\ \/ snap'[j] \in {item[KeyOf(j)], replica[KeyOf(j)]}
                  \/ phase[j] = "writing" /\ snap'[j] = snap[j]
    <3>1. CASE \E i \in Invocation, a \in Alarm,
                  s \in {"ALARM", "OK", "INSUFFICIENT_DATA"} : Alert(i, a, s)
      BY <2>3, <3>1 DEF Alert, KeyOf, AlarmOf, TypeInv, TypeOK
    <3>2. CASE \E i \in Invocation : Ignore(i)
      BY <2>3, <3>2 DEF Ignore, Finish, KeyOf, AlarmOf, TypeInv, TypeOK
    <3>3. ASSUME NEW i \in Invocation, ReadFails(i) \/ WriteFails(i)
          PROVE  phase[j] = "writing" /\ snap'[j] = snap[j] /\ KeyOf(j)' = KeyOf(j)
      BY <2>3, <3>3, FailType DEF ReadFails, WriteFails, KeyOf, AlarmOf, TypeInv, TypeOK
    <3>4. CASE \E i \in Invocation : Read(i)
      BY <2>3, <3>4 DEF Read, ReadForAlarm, ReadForOk, Finish, KeyOf, AlarmOf, TypeInv, TypeOK
    <3>5. ASSUME NEW i \in Invocation, Commit(i), phase[i] = "writing"
          PROVE  phase[j] = "writing" /\ snap'[j] = snap[j] /\ KeyOf(j)' = KeyOf(j)
      <4>1. CASE Finish(i)
        BY <2>3, <3>5, <4>1 DEF Finish, Commit, KeyOf, AlarmOf, TypeInv, TypeOK
      <4>2. CASE Fail(i)
        BY <2>3, <3>5, <4>2, FailType DEF Commit, KeyOf, AlarmOf, TypeInv, TypeOK
      <4>. QED  BY <3>5, <4>1, <4>2 DEF Commit, AfterWrite
    <3>6. CASE (\E p \in Provider : Replicate(p)) \/ UNCHANGED vars
      BY <2>3, <3>6 DEF Replicate, vars, KeyOf, AlarmOf
    <3>. QED
      BY <3>1, <3>2, <3>3, <3>4, <3>5, <3>6 DEF Next, Handle, WriteFirst, UpdateItem
  <2>. QED  BY <1>2, <2>1, <2>2, <2>3 DEF FreshInv, Behind, Seeded
<1>. QED  BY <1>1, <1>2
IInv == TypeInv /\ FreshInv

LEMMA FreshInit == Init => FreshInv
<1>. SUFFICES ASSUME Init PROVE FreshInv
  OBVIOUS
<1>1. \A p \in Seeded : item[p] # Null /\ item[p] \in Item /\ replica[p] = item[p]
  BY TableAssumption DEF Init, Seeded
<1>2. \A i \in Invocation : phase[i] # "writing"
  BY DEF Init
<1>. QED  BY <1>1, <1>2 DEF FreshInv, Behind, Item

LEMMA Invariance == Spec => []IInv
<1>1. Init => IInv
  BY TypeInit, FreshInit DEF IInv
<1>2. IInv /\ [Next]_vars => IInv'
  BY TypeStep, FreshStep DEF IInv
<1>. QED  BY <1>1, <1>2, PTL DEF Spec

\* A step that changes the row of a seeded provider applies one event to that very row.
LEMMA SeededRowStep ==
  ASSUME IInv, [Next]_vars, item' # item
  PROVE  \E i \in Invocation :
           /\ phase[i] = "writing" /\ KeyOf(i) \in Provider /\ AlarmOf(i) \in Alarm
           /\ item' = [item EXCEPT ![KeyOf(i)] = NewRow(i)]
           /\ KeyOf(i) \in Seeded => snap[i] = item[KeyOf(i)]
<1>. PICK i \in Invocation :
       /\ phase[i] = "writing"
       /\ item' = [item EXCEPT ![KeyOf(i)] = NewRow(i)]
       /\ snap[i] = Null \/ ConditionHolds(i)
  BY RowStep DEF IInv
<1>. QED  BY WritesOverWhatItRead, NewRowType DEF IInv

\* No update is lost on a provider that has a row.
THEOREM UpdatesNotLost == Spec => NoLostUpdate
<1>1. IInv /\ [Next]_vars
        => [\A p \in Seeded : item'[p] # item[p] => ComputedFromCurrent(p)]_vars
  <2>. SUFFICES ASSUME IInv, [Next]_vars, NEW p \in Seeded, item'[p] # item[p]
                PROVE  ComputedFromCurrent(p)
    OBVIOUS
  <2>1. PICK i \in Invocation :
          /\ phase[i] = "writing" /\ KeyOf(i) \in Provider
          /\ item' = [item EXCEPT ![KeyOf(i)] = NewRow(i)]
          /\ KeyOf(i) \in Seeded => snap[i] = item[KeyOf(i)]
    BY SeededRowStep
  <2>2. p = KeyOf(i) /\ item'[p] = NewRow(i)
    BY <2>1 DEF IInv, TypeInv, TypeOK, Seeded
  <2>3. item[p] # Null
    BY DEF IInv, FreshInv
  <2>. QED  BY <2>1, <2>2, <2>3 DEF ComputedFromCurrent, NewRow
<1>. QED  BY <1>1, Invariance, PTL DEF Spec, NoLostUpdate

\* The table implements the ledger: on the providers that have a row every step is the
\* atomic recording of one alarm notification, or changes nothing.
THEOREM LedgerImplemented == Spec => ImplementsLedger
<1>1. Init => Ledger!Init
  <2>. SUFFICES ASSUME Init PROVE Ledger!Init
    OBVIOUS
  <2>1. \A p \in Seeded : item[p] \in Item /\ HealthyIffNone(item[p])
    BY TableAssumption DEF Init, Seeded
  <2>. QED  BY <2>1 DEF Ledger!Init, Ledger!Verdict, HealthyIffNone, Item, Healthiness
<1>2. IInv /\ [Next]_vars => [Ledger!Next]_(Ledger!lvars)
  <2>. SUFFICES ASSUME IInv, [Next]_vars,
                       ~ UNCHANGED Ledger!lvars
                PROVE  Ledger!Next
    OBVIOUS
  <2>1. item' # item
    BY DEF Ledger!lvars
  <2>2. PICK i \in Invocation :
          /\ phase[i] = "writing" /\ KeyOf(i) \in Provider /\ AlarmOf(i) \in Alarm
          /\ item' = [item EXCEPT ![KeyOf(i)] = NewRow(i)]
          /\ KeyOf(i) \in Seeded => snap[i] = item[KeyOf(i)]
    BY <2>1, SeededRowStep
  <2>3. item \in [Provider -> Item \union {Null}] /\ Seeded \subseteq Provider
    BY DEF IInv, TypeInv, TypeOK, Seeded
  <2>4. KeyOf(i) \in Seeded
    BY <2>2, <2>3 DEF Ledger!lvars
  <2>5. snap[i] = item[KeyOf(i)] /\ snap[i] # Null /\ event[i].state \in {"ALARM", "OK"}
    BY <2>2, <2>4 DEF IInv, FreshInv, TypeInv, WriterInv
  <2>6. /\ \A q \in Seeded : q # KeyOf(i) => item'[q] = item[q]
        /\ item'[KeyOf(i)] = NewRow(i)
    BY <2>2, <2>3
  <2>7. CASE event[i].state = "ALARM"
    <3>1. /\ NewRow(i).ongoingAlarms = item[KeyOf(i)].ongoingAlarms \union {AlarmOf(i)}
          /\ NewRow(i).healthiness = "UNHEALTHY"
      BY <2>5, <2>7 DEF NewRow, RowAfterAlarm
    <3>2. Ledger!Raise(AlarmOf(i))
      BY <2>4, <2>6, <3>1 DEF Ledger!Raise, Ledger!Record, Ledger!Verdict, KeyOf
    <3>. QED  BY <2>2, <2>4, <3>2 DEF Ledger!Next, Ledger!Raise, Ledger!Clear, Ledger!Record, KeyOf
  <2>8. CASE event[i].state = "OK"
    <3>1. /\ NewRow(i).ongoingAlarms = item[KeyOf(i)].ongoingAlarms \ {AlarmOf(i)}
          /\ NewRow(i).healthiness = Ledger!Verdict(NewRow(i).ongoingAlarms)
      BY <2>5, <2>8 DEF NewRow, RowAfterOk, Ledger!Verdict
    <3>2. Ledger!Clear(AlarmOf(i))
      BY <2>4, <2>6, <3>1 DEF Ledger!Clear, Ledger!Record, KeyOf
    <3>. QED  BY <2>2, <2>4, <3>2 DEF Ledger!Next, Ledger!Raise, Ledger!Clear, Ledger!Record, KeyOf
  <2>. QED  BY <2>5, <2>7, <2>8
<1>. QED  BY <1>1, <1>2, Invariance, PTL DEF Spec, ImplementsLedger, Ledger!Spec
-----------------------------------------------------------------------------
(* Orderly alarms.  Of an alarm that is not disturbed, the row says what   *)
(* the last notification that was answered said, or what the one that is   *)
(* under way says if a run of it has already written and then failed; its  *)
(* notifications write and return one after the other.                     *)

Issued(ph) == {i \in Invocation : ph[i] # "idle"}

Answered(ph) == {i \in Invocation : ph[i] = "done"}

\* The notifications of S that say something of alarm a.
About(ev, a, S) == {i \in S : ev[i].alarm = a /\ ev[i].state \in {"ALARM", "OK"}}

\* The last notification of S about a says whether a is in F; without one, the table at the
\* start says it.
Tells(ev, a, S, F) ==
  \/ About(ev, a, S) = {} /\ (a \in F <=> a \in InitItem[ProviderOf[a]].ongoingAlarms)
  \/ \E i \in About(ev, a, S) : /\ \A j \in About(ev, a, S) : j <= i
                                /\ a \in F <=> ev[i].state = "ALARM"

\* A notification about a has got to its write only after the earlier ones are answered.
Ordered(ev, ph, a) ==
  \A i \in About(ev, a, Issued(ph)) :
    ph[i] \in {"writing", "done"} =>
      \A j \in Invocation : j < i /\ ev[j].alarm = a => ph[j] = "done"

\* The row lists a as the answered notifications say, or as a failed run of another one wrote.
Recorded(ev, ph, listed, a) ==
  \/ Tells(ev, a, Answered(ph), listed)
  \/ \E i \in About(ev, a, Issued(ph) \ Answered(ph)) :
       Tells(ev, a, Answered(ph) \union {i}, listed)

\* What the row of a's provider lists.
Listed(a) == item[ProviderOf[a]].ongoingAlarms

\* Notifications are issued in order, the history follows the last one about an alarm, and of
\* an undisturbed alarm so does the row.
OrderInv ==
  /\ \A i \in Invocation, j \in Invocation : j < i /\ phase[i] # "idle" => phase[j] # "idle"
  /\ \A a \in Alarm : ProviderOf[a] \in Seeded => Tells(event, a, Issued(phase), firing)
  /\ \A a \in Alarm : ProviderOf[a] \in Seeded /\ a \notin disturbed =>
       Ordered(event, phase, a) /\ Recorded(event, phase, Listed(a), a)

\* Notifications that say the same of a, and a set that agrees on it.
LEMMA SameTells ==
  ASSUME NEW ev, NEW ew, NEW a, NEW S, NEW T, NEW F, NEW G,
         About(ev, a, S) = About(ew, a, T), \A i \in About(ev, a, S) : ev[i] = ew[i],
         a \in F <=> a \in G, Tells(ev, a, S, F)
  PROVE  Tells(ew, a, T, G)
<1>. DEFINE A == About(ev, a, S)
<1>1. About(ew, a, T) = A /\ About(ev, a, S) = A /\ \A i \in A : ev[i] = ew[i]
  OBVIOUS
<1>. HIDE DEF A
<1>. QED  BY <1>1 DEF Tells

\* A notification later than all others about a says what holds of a.
LEMMA LastTells ==
  ASSUME NEW ev, NEW a, NEW S \in SUBSET Invocation, NEW i \in Invocation, NEW F,
         ev[i].alarm = a, ev[i].state \in {"ALARM", "OK"}, a \in F <=> ev[i].state = "ALARM",
         \A j \in About(ev, a, S) : ~(i < j)
  PROVE  Tells(ev, a, S \union {i}, F)
<1>1. i \in About(ev, a, S \union {i})
  BY DEF About
<1>2. \A j \in About(ev, a, S \union {i}) : j <= i
  BY BoundAssumption DEF About, Invocation
<1>. QED  BY <1>1, <1>2 DEF Tells

\* Two sets that the same notifications describe agree on a.
LEMMA TellsOnce ==
  ASSUME NEW ev, NEW a, NEW S \in SUBSET Invocation, NEW F, NEW G,
         Tells(ev, a, S, F), Tells(ev, a, S, G)
  PROVE  a \in F <=> a \in G
<1>1. About(ev, a, S) \subseteq Invocation
  BY DEF About
<1>2. ASSUME NEW i \in About(ev, a, S), NEW j \in About(ev, a, S),
             \A k \in About(ev, a, S) : k <= i, \A k \in About(ev, a, S) : k <= j
      PROVE  i = j
  BY <1>1, <1>2, BoundAssumption DEF Invocation
<1>. QED  BY <1>2 DEF Tells

\* A step after which the row says the same of a, and the same notifications about a are answered.
LEMMA RecordedKept ==
  ASSUME NEW ev, NEW ew, NEW ph, NEW ps, NEW a, NEW F, NEW G, a \in F <=> a \in G,
         About(ev, a, Answered(ph)) = About(ew, a, Answered(ps)),
         \A i \in About(ev, a, Issued(ph)) : i \in Issued(ps) /\ ev[i] = ew[i],
         Recorded(ev, ph, F, a)
  PROVE  Recorded(ew, ps, G, a)
<1>1. \A i \in About(ev, a, Answered(ph)) : ev[i] = ew[i]
  BY DEF About, Answered, Issued
<1>2. CASE Tells(ev, a, Answered(ph), F)
  <2>1. Tells(ew, a, Answered(ps), G)
    BY <1>1, <1>2, SameTells
  <2>. QED  BY <2>1 DEF Recorded
<1>3. ASSUME NEW i \in About(ev, a, Issued(ph) \ Answered(ph)),
             Tells(ev, a, Answered(ph) \union {i}, F)
      PROVE  Recorded(ew, ps, G, a)
  <2>1. i \in About(ev, a, Issued(ph)) /\ i \notin About(ew, a, Answered(ps))
    BY DEF About
  <2>2. ev[i] = ew[i] /\ i \in Issued(ps)
    BY <2>1
  <2>3. i \in About(ew, a, Issued(ps) \ Answered(ps))
    BY <2>1, <2>2 DEF About
  <2>4. About(ev, a, Answered(ph) \union {i}) = About(ew, a, Answered(ps) \union {i})
    <3>1. About(ev, a, Answered(ph) \union {i}) = About(ev, a, Answered(ph)) \union {i}
      BY DEF About
    <3>2. About(ew, a, Answered(ps) \union {i}) = About(ew, a, Answered(ps)) \union {i}
      BY <2>3 DEF About
    <3>. QED  BY <3>1, <3>2
  <2>5. \A j \in About(ev, a, Answered(ph) \union {i}) : ev[j] = ew[j]
    BY <1>1, <2>2 DEF About
  <2>6. Tells(ew, a, Answered(ps) \union {i}, G)
    BY <1>3, <2>4, <2>5, SameTells
  <2>. QED  BY <2>3, <2>6 DEF Recorded
<1>. QED  BY <1>2, <1>3 DEF Recorded

\* A step of one invocation that is under way.
LEMMA OrderedKept ==
  ASSUME NEW ev, NEW ph \in [Invocation -> Phase], NEW a, NEW i \in Invocation, NEW x \in Phase,
         ph[i] \in {"queued", "writing"}, x # "idle", Ordered(ev, ph, a),
         (i \in About(ev, a, Issued(ph)) /\ x \in {"writing", "done"}) =>
           \A j \in Invocation : j < i /\ ev[j].alarm = a => ph[j] = "done"
  PROVE  Ordered(ev, [ph EXCEPT ![i] = x], a)
<1>. DEFINE ps == [ph EXCEPT ![i] = x]
<1>1. Issued(ps) = Issued(ph)
  BY DEF Issued
<1>2. ASSUME NEW k \in About(ev, a, Issued(ps)), ps[k] \in {"writing", "done"},
             NEW j \in Invocation, j < k, ev[j].alarm = a
      PROVE  ps[j] = "done"
  <2>1. k \in About(ev, a, Issued(ph)) /\ k \in Invocation
    BY <1>1 DEF About, Issued
  <2>2. CASE k = i
    <3>1. ph[j] = "done" /\ ps[j] = ph[j]
      BY <1>2, <2>1, <2>2, BoundAssumption DEF Invocation
    <3>. QED  BY <3>1
  <2>3. CASE k # i
    <3>1. ph[j] = "done"
      BY <1>2, <2>1, <2>3 DEF Ordered
    <3>. QED  BY <3>1
  <2>. QED  BY <2>2, <2>3
<1>. QED  BY <1>2 DEF Ordered

\* While i is under way, what is answered about its alarm came before it.
LEMMA AnsweredBefore ==
  ASSUME NEW ev, NEW ph \in [Invocation -> Phase], NEW a, NEW i \in Invocation,
         ph[i] # "done", ev[i].alarm = a, Ordered(ev, ph, a)
  PROVE  \A j \in About(ev, a, Answered(ph)) : ~(i < j)
BY DEF Ordered, About, Answered, Issued

-----------------------------------------------------------------------------
(* Orderly alarms: the steps.                                              *)

\* At the start no notification is issued, and the rows say what is firing.
LEMMA OrderInit == Init => OrderInv
<1>. SUFFICES ASSUME Init PROVE OrderInv
  OBVIOUS
<1>1. \A i \in Invocation : phase[i] = "idle"
  BY DEF Init
<1>2. Issued(phase) = {} /\ Answered(phase) = {}
  BY <1>1 DEF Issued, Answered
<1>3. \A a \in Alarm : ProviderOf[a] \in Seeded =>
        /\ a \in firing <=> a \in InitItem[ProviderOf[a]].ongoingAlarms
        /\ a \in Listed(a) <=> a \in InitItem[ProviderOf[a]].ongoingAlarms
  BY DEF Init, Seeded, Listed
<1>. QED  BY <1>1, <1>2, <1>3 DEF OrderInv, Ordered, Recorded, Tells, About

\* A new notification is the last one, and is not answered yet.
LEMMA AlertOrder ==
  ASSUME IInv, OrderInv, NEW i \in Invocation, NEW b \in Alarm,
         NEW s \in {"ALARM", "OK", "INSUFFICIENT_DATA"}, Alert(i, b, s)
  PROVE  OrderInv'
<1>1. /\ event' = [event EXCEPT ![i] = [alarm |-> b, state |-> s]]
      /\ phase' = [phase EXCEPT ![i] = "queued"] /\ phase[i] = "idle"
      /\ item' = item /\ disturbed' = disturbed
      /\ \A j \in Invocation : j < i => phase[j] # "idle"
      /\ firing' = IF s = "ALARM" THEN firing \union {b}
                   ELSE IF s = "OK" THEN firing \ {b} ELSE firing
  BY DEF Alert
<1>2. phase \in [Invocation -> Phase] /\ event \in [Invocation -> Event \union {Null}]
  BY DEF IInv, TypeInv, TypeOK
<1>3. \A j \in Issued(phase) : j \in Invocation /\ j # i /\ ~(i < j)
  BY <1>1 DEF OrderInv, Issued
<1>4. /\ Issued(phase') = Issued(phase) \union {i} /\ Answered(phase') = Answered(phase)
      /\ Answered(phase) \subseteq Issued(phase)
      /\ \A j \in Issued(phase) : event'[j] = event[j] /\ phase'[j] = phase[j]
      /\ event'[i] = [alarm |-> b, state |-> s] /\ phase'[i] = "queued"
  BY <1>1, <1>2, <1>3 DEF Issued, Answered
<1>5. ASSUME NEW k \in Invocation, NEW j \in Invocation, j < k, phase'[k] # "idle"
      PROVE  phase'[j] # "idle"
  <2>1. CASE k = i
    BY <1>1, <1>2, <1>5, <2>1, BoundAssumption DEF Invocation
  <2>2. CASE k # i
    BY <1>1, <1>2, <1>5, <2>2 DEF OrderInv
  <2>. QED  BY <2>1, <2>2
<1>6. ASSUME NEW a \in Alarm, ProviderOf[a] \in Seeded
      PROVE  Tells(event', a, Issued(phase'), firing')
  <2>1. Tells(event, a, Issued(phase), firing) /\ Issued(phase) \in SUBSET Invocation
    BY <1>6 DEF OrderInv, Issued
  <2>2. CASE a = b /\ s \in {"ALARM", "OK"}
    <3>1. \A j \in About(event', a, Issued(phase)) : ~(i < j)
      BY <1>3 DEF About
    <3>2. (a \in firing') <=> event'[i].state = "ALARM"
      BY <1>1, <1>4, <2>2
    <3>. QED  BY <1>4, <2>1, <2>2, <3>1, <3>2, LastTells
  <2>3. CASE ~(a = b /\ s \in {"ALARM", "OK"})
    <3>1. About(event, a, Issued(phase)) = About(event', a, Issued(phase'))
      BY <1>4, <2>3 DEF About
    <3>2. (a \in firing) <=> (a \in firing')
      BY <1>1, <2>3
    <3>3. \A j \in About(event, a, Issued(phase)) : event[j] = event'[j]
      BY <1>4 DEF About
    <3>. QED  BY <2>1, <3>1, <3>2, <3>3, SameTells
  <2>. QED  BY <2>2, <2>3
<1>7. ASSUME NEW a \in Alarm, ProviderOf[a] \in Seeded, a \notin disturbed'
      PROVE  Ordered(event', phase', a) /\ Recorded(event', phase', Listed(a)', a)
  <2>1. Ordered(event, phase, a) /\ Recorded(event, phase, Listed(a), a)
    BY <1>1, <1>7 DEF OrderInv
  <2>2. ASSUME NEW k \in About(event', a, Issued(phase')), phase'[k] \in {"writing", "done"},
               NEW j \in Invocation, j < k, event'[j].alarm = a
        PROVE  phase'[j] = "done"
    <3>1. k \in Issued(phase) /\ k \in Invocation
      BY <1>4, <2>2 DEF About, Issued
    <3>2. j \in Issued(phase)
      BY <2>2, <3>1 DEF OrderInv, Issued
    <3>3. k \in About(event, a, Issued(phase)) /\ event[j].alarm = a
          /\ phase[k] \in {"writing", "done"}
      BY <1>4, <2>2, <3>1, <3>2 DEF About
    <3>. QED  BY <1>4, <2>1, <2>2, <3>2, <3>3 DEF Ordered
  <2>3. About(event, a, Answered(phase)) = About(event', a, Answered(phase'))
    BY <1>4 DEF About
  <2>4. \A j \in About(event, a, Issued(phase)) : j \in Issued(phase') /\ event[j] = event'[j]
    BY <1>4 DEF About
  <2>5. a \in Listed(a) <=> a \in Listed(a)'
    BY <1>1 DEF Listed
  <2>6. Recorded(event', phase', Listed(a)', a)
    BY <2>1, <2>3, <2>4, <2>5, RecordedKept
  <2>. QED  BY <2>2, <2>6 DEF Ordered
<1>. QED  BY <1>5, <1>6, <1>7 DEF OrderInv

\* What becomes of the record when i goes on and neither answers nor writes anything about a.
LEMMA RecordedSame ==
  ASSUME NEW ev, NEW ph \in [Invocation -> Phase], NEW a, NEW i \in Invocation, NEW x \in Phase,
         ph[i] \in {"queued", "writing"}, x # "idle",
         x # "done" \/ i \notin About(ev, a, Issued(ph)),
         NEW F, NEW G, a \in F <=> a \in G, Recorded(ev, ph, F, a)
  PROVE  Recorded(ev, [ph EXCEPT ![i] = x], G, a)
<1>. DEFINE ps == [ph EXCEPT ![i] = x]
<1>1. About(ev, a, Answered(ph)) = About(ev, a, Answered(ps))
  BY DEF About, Answered, Issued
<1>2. \A j \in About(ev, a, Issued(ph)) : j \in Issued(ps)
  BY DEF About, Issued
<1>. HIDE DEF ps
<1>3. Recorded(ev, ps, G, a)
  BY <1>1, <1>2, RecordedKept
<1>. QED  BY <1>3 DEF ps

\* And when i answers or writes what its event says.
LEMMA RecordedNow ==
  ASSUME NEW ev, NEW ph \in [Invocation -> Phase], NEW a, NEW i \in Invocation, NEW x \in Phase,
         ph[i] \in {"queued", "writing"}, x # "idle", i \in About(ev, a, Issued(ph)),
         Ordered(ev, ph, a), NEW G, a \in G <=> ev[i].state = "ALARM"
  PROVE  Recorded(ev, [ph EXCEPT ![i] = x], G, a)
<1>. DEFINE ps == [ph EXCEPT ![i] = x]
<1>1. ev[i].alarm = a /\ ev[i].state \in {"ALARM", "OK"}
  BY DEF About
<1>2. \A j \in About(ev, a, Answered(ph)) : ~(i < j)
  BY <1>1, AnsweredBefore
<1>3. Tells(ev, a, Answered(ph) \union {i}, G)
  BY <1>1, <1>2, LastTells DEF Answered
<1>4. CASE x = "done"
  <2>1. Answered(ps) = Answered(ph) \union {i}
    BY <1>4 DEF Answered
  <2>. QED  BY <1>3, <2>1 DEF Recorded
<1>5. CASE x # "done"
  <2>1. Answered(ps) = Answered(ph) /\ i \in Issued(ps) \ Answered(ps)
    BY <1>5 DEF Answered, Issued
  <2>2. i \in About(ev, a, Issued(ps) \ Answered(ps))
    BY <1>1, <2>1 DEF About
  <2>. QED  BY <1>3, <2>1, <2>2 DEF Recorded
<1>. QED  BY <1>4, <1>5

\* A step of one invocation keeps the order, provided it waited for the earlier ones and the
\* record stays.
LEMMA OneStep ==
  ASSUME IInv, OrderInv, NEW i \in Invocation, NEW x \in Phase,
         phase[i] \in {"queued", "writing"}, x # "idle",
         UNCHANGED <<event, firing>>, disturbed \subseteq disturbed',
         phase' = [phase EXCEPT ![i] = x],
         \A a \in Alarm :
           ProviderOf[a] \in Seeded /\ a \notin disturbed' =>
             /\ (i \in About(event, a, Issued(phase)) /\ x \in {"writing", "done"}) =>
                  \A j \in Invocation : j < i /\ event[j].alarm = a => phase[j] = "done"
             /\ Recorded(event, phase', Listed(a)', a)
  PROVE  OrderInv'
<1>1. phase \in [Invocation -> Phase] /\ Issued(phase') = Issued(phase)
  BY DEF IInv, TypeInv, TypeOK, Issued
<1>2. \A k \in Invocation, j \in Invocation : j < k /\ phase'[k] # "idle" => phase'[j] # "idle"
  BY <1>1 DEF OrderInv
<1>3. ASSUME NEW a \in Alarm, ProviderOf[a] \in Seeded
      PROVE  Tells(event', a, Issued(phase'), firing')
  BY <1>1, <1>3 DEF OrderInv
<1>4. ASSUME NEW a \in Alarm, ProviderOf[a] \in Seeded, a \notin disturbed'
      PROVE  Ordered(event', phase', a) /\ Recorded(event', phase', Listed(a)', a)
  <2>1. Ordered(event, phase, a)
    BY <1>4 DEF OrderInv
  <2>2. Ordered(event, phase', a)
    BY <1>1, <1>4, <2>1, OrderedKept
  <2>. QED  BY <1>4, <2>2
<1>. QED  BY <1>2, <1>3, <1>4 DEF OrderInv

\* A step that leaves the rows alone, and answers no event about an alarm.
LEMMA QuietStep ==
  ASSUME IInv, OrderInv, NEW i \in Invocation, NEW x \in Phase,
         phase[i] \in {"queued", "writing"}, x # "idle",
         UNCHANGED <<item, event, firing>>, disturbed \subseteq disturbed',
         phase' = [phase EXCEPT ![i] = x],
         x # "done" \/ event[i].state \notin {"ALARM", "OK"},
         x = "writing" => \A j \in Invocation : j < i /\ AlarmOf(j) = AlarmOf(i) =>
                            phase[j] = "done" \/ AlarmOf(i) \in disturbed'
  PROVE  OrderInv'
<1>. SUFFICES ASSUME NEW a \in Alarm, ProviderOf[a] \in Seeded, a \notin disturbed'
              PROVE  /\ (i \in About(event, a, Issued(phase)) /\ x \in {"writing", "done"}) =>
                          \A j \in Invocation : j < i /\ event[j].alarm = a => phase[j] = "done"
                     /\ Recorded(event, phase', Listed(a)', a)
  BY OneStep
<1>1. Recorded(event, phase, Listed(a), a) /\ phase \in [Invocation -> Phase]
  BY DEF OrderInv, IInv, TypeInv, TypeOK
<1>2. a \in Listed(a) <=> a \in Listed(a)'
  BY DEF Listed
<1>3. x # "done" \/ i \notin About(event, a, Issued(phase))
  BY DEF About
<1>4. Recorded(event, phase', Listed(a)', a)
  BY <1>1, <1>2, <1>3, RecordedSame
<1>5. (i \in About(event, a, Issued(phase)) /\ x \in {"writing", "done"}) =>
        \A j \in Invocation : j < i /\ event[j].alarm = a => phase[j] = "done"
  BY <1>3 DEF About, AlarmOf
<1>. QED  BY <1>4, <1>5

\* A failed attempt is queued again or dropped.
LEMMA FailPhase ==
  ASSUME NEW i \in Invocation, Fail(i)
  PROVE  \E x \in {"queued", "dropped"} : phase' = [phase EXCEPT ![i] = x]
BY DEF Fail

\* A failed attempt answers nothing and writes nothing.
LEMMA FailsOrder ==
  ASSUME IInv, OrderInv, NEW i \in Invocation, ReadFails(i) \/ WriteFails(i)
  PROVE  OrderInv'
<1>1. /\ phase[i] \in {"queued", "writing"} /\ Fail(i)
      /\ UNCHANGED <<item, event, firing>> /\ disturbed \subseteq disturbed'
  BY DEF ReadFails, WriteFails
<1>2. PICK x \in {"queued", "dropped"} : phase' = [phase EXCEPT ![i] = x]
  BY <1>1, FailPhase
<1>. QED  BY <1>1, <1>2, QuietStep DEF Phase

\* A notification that is ignored says nothing of its alarm.
LEMMA IgnoreOrder ==
  ASSUME IInv, OrderInv, NEW i \in Invocation, Ignore(i)
  PROVE  OrderInv'
<1>1. /\ phase[i] = "queued" /\ phase' = [phase EXCEPT ![i] = "done"]
      /\ UNCHANGED <<item, event, firing, disturbed>> /\ event[i].state \notin {"ALARM", "OK"}
  BY DEF Ignore, Finish
<1>. QED  BY <1>1, QuietStep DEF Phase

\* An invocation that has not overtaken another one of its alarm.
LEMMA NotOvertaking ==
  ASSUME NEW i \in Invocation, AlarmOf(i) \notin Overtaking(i)
  PROVE  \A j \in Invocation : j < i /\ AlarmOf(j) = AlarmOf(i) => phase[j] = "done"
BY DEF Overtaking, Overtakes

\* A read waits for the earlier notifications of its alarm, or disturbs it; an OK that returns
\* at once has seen in the current row that its alarm is not listed.
LEMMA ReadOrder ==
  ASSUME IInv, HealthyIffNoAlarm, OrderInv, NEW i \in Invocation, Read(i)
  PROVE  OrderInv'
<1>1. phase[i] = "queued" /\ phase \in [Invocation -> Phase]
  BY DEF Read, IInv, TypeInv, TypeOK
<1>2. PICK state \in {item[KeyOf(i)], replica[KeyOf(i)]} :
        ReadForAlarm(i, state) \/ ReadForOk(i, state)
  BY DEF Read
<1>3. CASE phase' = [phase EXCEPT ![i] = "writing"]
           /\ disturbed' = disturbed \union Overtaking(i) /\ UNCHANGED <<item, event, firing>>
  <2>1. \A j \in Invocation : j < i /\ AlarmOf(j) = AlarmOf(i) =>
          phase[j] = "done" \/ AlarmOf(i) \in disturbed'
    BY <1>3, NotOvertaking
  <2>. QED  BY <1>1, <1>3, <2>1, QuietStep DEF Phase
<1>4. CASE /\ event[i].state = "OK" /\ NothingToClear(state, AlarmOf(i))
           /\ phase' = [phase EXCEPT ![i] = "done"]
           /\ disturbed' = disturbed \union Overtaking(i)
                \union (IF state # item[KeyOf(i)] THEN {AlarmOf(i)} ELSE {})
           /\ UNCHANGED <<item, event, firing>>
  <2>. SUFFICES ASSUME NEW a \in Alarm, ProviderOf[a] \in Seeded, a \notin disturbed'
                PROVE  /\ i \in About(event, a, Issued(phase)) =>
                            \A j \in Invocation : j < i /\ event[j].alarm = a => phase[j] = "done"
                       /\ Recorded(event, phase', Listed(a)', a)
    BY <1>1, <1>4, OneStep DEF Phase
  <2>1. Ordered(event, phase, a) /\ Recorded(event, phase, Listed(a), a)
    BY <1>4 DEF OrderInv
  <2>2. a \in Listed(a) <=> a \in Listed(a)'
    BY <1>4 DEF Listed
  <2>3. CASE i \notin About(event, a, Issued(phase))
    <3>1. Recorded(event, phase', Listed(a)', a)
      BY <1>1, <1>4, <2>1, <2>2, <2>3, RecordedSame DEF Phase
    <3>. QED  BY <2>3, <3>1
  <2>4. CASE i \in About(event, a, Issued(phase))
    <3>1. AlarmOf(i) = a /\ KeyOf(i) = ProviderOf[a]
      BY <2>4 DEF About, AlarmOf, KeyOf
    <3>2. \A j \in Invocation : j < i /\ event[j].alarm = a => phase[j] = "done"
      BY <1>4, <3>1, NotOvertaking DEF AlarmOf
    <3>3. state = item[ProviderOf[a]] /\ item[ProviderOf[a]] # Null
          /\ HealthyIffNone(item[ProviderOf[a]])
      BY <1>4, <3>1 DEF IInv, FreshInv, HealthyIffNoAlarm, Seeded
    <3>4. a \notin Listed(a)
      BY <1>4, <3>1, <3>3 DEF NothingToClear, Listed, HealthyIffNone
    <3>5. a \in Listed(a)' <=> event[i].state = "ALARM"
      BY <1>4, <2>2, <3>4
    <3>6. Recorded(event, phase', Listed(a)', a)
      BY <1>1, <1>4, <2>1, <2>2, <2>4, <3>5, RecordedNow DEF Phase
    <3>. QED  BY <3>2, <3>6
  <2>. QED  BY <2>3, <2>4
<1>. QED  BY <1>2, <1>3, <1>4 DEF ReadForAlarm, ReadForOk, Finish

\* A write says of its own alarm what its event says, and of others what the row said.
LEMMA CommitOrder ==
  ASSUME IInv, OrderInv, NEW i \in Invocation, WriteFirst(i) \/ UpdateItem(i)
  PROVE  OrderInv'
<1>1. /\ phase[i] = "writing" /\ phase \in [Invocation -> Phase]
      /\ snap[i] = Null \/ ConditionHolds(i)
      /\ item' = [item EXCEPT ![KeyOf(i)] = NewRow(i)] /\ UNCHANGED <<event, firing>>
      /\ disturbed \subseteq disturbed' /\ (Finish(i) \/ Fail(i))
  BY DEF WriteFirst, UpdateItem, Commit, AfterWrite, IInv, TypeInv, TypeOK
<1>2. PICK x \in {"done", "queued", "dropped"} : phase' = [phase EXCEPT ![i] = x]
  BY <1>1, FailPhase DEF Finish
<1>3. event[i].state \in {"ALARM", "OK"} /\ i \in Issued(phase)
  BY <1>1 DEF IInv, TypeInv, WriterInv, Issued
<1>. SUFFICES ASSUME NEW a \in Alarm, ProviderOf[a] \in Seeded, a \notin disturbed'
              PROVE  /\ i \in About(event, a, Issued(phase)) =>
                          \A j \in Invocation : j < i /\ event[j].alarm = a => phase[j] = "done"
                     /\ Recorded(event, phase', Listed(a)', a)
  BY <1>1, <1>2, OneStep DEF Phase
<1>4. Ordered(event, phase, a) /\ Recorded(event, phase, Listed(a), a)
  BY <1>1 DEF OrderInv
<1>5. i \in About(event, a, Issued(phase)) =>
        \A j \in Invocation : j < i /\ event[j].alarm = a => phase[j] = "done"
  BY <1>1, <1>4 DEF Ordered
<1>6. ProviderOf[a] \in Provider
      /\ item \in [Provider -> Item \union {Null}]
  BY DEF Listed, Seeded, IInv, TypeInv, TypeOK
<1>7. KeyOf(i) = ProviderOf[a] =>
        /\ item'[ProviderOf[a]] = NewRow(i)
        /\ snap[i] = item[ProviderOf[a]] /\ item[ProviderOf[a]] # Null
  BY <1>1, <1>6, WritesOverWhatItRead DEF IInv, FreshInv
<1>8. CASE AlarmOf(i) = a
  <2>1. i \in About(event, a, Issued(phase)) /\ KeyOf(i) = ProviderOf[a]
    BY <1>3, <1>8 DEF About, AlarmOf, KeyOf
  <2>2. a \in Listed(a)' <=> event[i].state = "ALARM"
    BY <1>3, <1>7, <1>8, <2>1 DEF Listed, NewRow, RowAfterAlarm, RowAfterOk
  <2>3. Recorded(event, phase', Listed(a)', a)
    BY <1>1, <1>2, <1>4, <1>6, <2>1, <2>2, RecordedNow DEF Phase
  <2>. QED  BY <1>5, <2>3
<1>9. CASE AlarmOf(i) # a
  <2>1. i \notin About(event, a, Issued(phase))
    BY <1>9 DEF About, AlarmOf
  <2>2. a \in Listed(a) <=> a \in Listed(a)'
    <3>1. CASE KeyOf(i) = ProviderOf[a]
      BY <1>3, <1>7, <1>9, <3>1 DEF Listed, NewRow, RowAfterAlarm, RowAfterOk
    <3>2. CASE KeyOf(i) # ProviderOf[a]
      BY <1>1, <1>6, <3>2 DEF Listed
    <3>. QED  BY <3>1, <3>2
  <2>3. Recorded(event, phase', Listed(a)', a)
    BY <1>1, <1>2, <1>4, <1>6, <2>1, <2>2, RecordedSame DEF Phase
  <2>. QED  BY <1>5, <2>3
<1>. QED  BY <1>8, <1>9

\* Every step keeps the invariant.
LEMMA OrderStep == IInv /\ HealthyIffNoAlarm /\ OrderInv /\ [Next]_vars => OrderInv'
<1>. SUFFICES ASSUME IInv, HealthyIffNoAlarm, OrderInv, [Next]_vars PROVE OrderInv'
  OBVIOUS
<1>1. CASE UNCHANGED <<item, event, phase, firing, disturbed>>
  <2>1. \A a \in Alarm : Listed(a)' = Listed(a)
    BY <1>1 DEF Listed
  <2>. QED  BY <1>1, <2>1 DEF OrderInv
<1>. QED
  BY <1>1, AlertOrder, IgnoreOrder, FailsOrder, ReadOrder, CommitOrder
  DEF Next, Handle, Replicate, vars

\* The row of a provider that has one lists an alarm exactly when it is firing, once the
\* notifications of that alarm have been handled one after the other, whatever the
\* invocations of other alarms of the provider do (FallbackHandler.ts:52-113).
THEOREM OrderlyRecorded == Spec => []OrderlyAlarmsRecorded
<1>1. OrderInv => OrderlyAlarmsRecorded
  <2>. SUFFICES ASSUME OrderInv, NEW a \in Alarm, ProviderOf[a] \in Seeded,
                       a \notin disturbed, Settled(a)
                PROVE  a \in Listed(a) <=> a \in firing
    BY DEF OrderlyAlarmsRecorded, Listed
  <2>1. About(event, a, Issued(phase)) = About(event, a, Answered(phase))
        /\ About(event, a, Issued(phase) \ Answered(phase)) = {}
    BY DEF Settled, About, Issued, Answered, AlarmOf
  <2>2. Tells(event, a, Answered(phase), Listed(a))
    BY <2>1 DEF OrderInv, Recorded
  <2>3. Tells(event, a, Issued(phase), firing)
    BY DEF OrderInv
  <2>4. Tells(event, a, Answered(phase), firing)
    BY <2>1, <2>3 DEF Tells
  <2>5. Answered(phase) \in SUBSET Invocation
    BY DEF Listed, Answered
  <2>. QED  BY <2>2, <2>4, <2>5, TellsOnce
<1>. QED  BY <1>1, OrderInit, OrderStep, Invariance, HealthCorrect, PTL DEF Spec
=============================================================================
