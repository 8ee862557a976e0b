------------------------ MODULE CachingRequestsProofs -----------------------
(***************************************************************************)
(* Proofs about the caching requests of a pair, for any amounts, any       *)
(* number of tasks, any lag and any length of the lambda's queue.          *)
(***************************************************************************)
EXTENDS CachingRequests, TLAPS

-----------------------------------------------------------------------------
(* Type correctness.                                                       *)

\* The bounds of the ages.
LEMMA Ages ==
  /\ Old \in Nat /\ MaxLag \in Nat /\ MaxDiff \in Nat /\ MaxLag < Old
  /\ 0 \in 0..MaxLag /\ 0..MaxLag \subseteq 0..Old
  /\ MaxQueued \in Nat /\ 0 \in 0..MaxQueued
BY CachingAssumption DEF Old

\* What a task in flight is.
LEMMA InFlightType ==
  ASSUME TypeOK, NEW t \in Task, NEW call, InFlight(t, call)
  PROVE  /\ tasks[t] # None /\ tasks[t] \in Tasks
         /\ tasks[t].amount \in Amount /\ tasks[t].age \in 0..MaxLag
         /\ tasks[t].pending \in Pending /\ call \in tasks[t].pending
<1>1. tasks[t] # None /\ tasks[t] \in Tasks
  BY DEF InFlight, TypeOK
<1>. QED  BY <1>1 DEF InFlight, Tasks

\* A task that has sent what followed from its query has one or both calls in flight.
LEMMA PendingType ==
  ASSUME NEW pending \in Pending, NEW call \in pending, pending \ {call} # {}
  PROVE  pending \ {call} \in Pending
BY DEF Pending

\* When a call ends the task goes on with what is left, or ends.
LEMMA EndedType ==
  ASSUME TypeOK, NEW t \in Task, NEW call, InFlight(t, call)
  PROVE  Ended(t, call) \in Tasks \union {None}
<1>. DEFINE rest == tasks[t].pending \ {call}
<1>1. CASE rest = {}
  BY <1>1 DEF Ended
<1>2. CASE rest # {}
  <2>1. Ended(t, call) = [tasks[t] EXCEPT !.pending = rest]
    BY <1>2 DEF Ended
  <2>2. rest \in Pending
    BY <1>2, InFlightType, PendingType
  <2>. HIDE DEF rest
  <2>. QED  BY <2>1, <2>2, InFlightType DEF Tasks
<1>. QED  BY <1>1, <1>2

\* A quote leaves the tasks alone, or starts one if its intent is optimistic.
LEMMA LookupType ==
  ASSUME TypeOK, NEW intent \in DOMAIN Optimistic, NEW a \in Amount, Lookup(intent, a)
  PROVE  tasks' \in [Task -> Tasks \union {None}]
<1>1. CASE UNCHANGED tasks
  BY <1>1 DEF TypeOK
<1>2. CASE tasks' # tasks
  <2>1. PICK t \in Task, age \in 0..MaxLag :
          tasks' = [tasks EXCEPT ![t] = [amount |-> a, age |-> age, pending |-> {"query"}]]
    BY <1>2 DEF Lookup
  <2>2. [amount |-> a, age |-> age, pending |-> {"query"}] \in Tasks
    BY DEF Tasks, Pending
  <2>. QED  BY <2>1, <2>2 DEF TypeOK
<1>. QED  BY <1>1, <1>2

\* The lambda takes caching quotes one by one.
LEMMA CachingQuoteType ==
  ASSUME TypeOK, NEW a \in Amount, CachingQuote(a)
  PROVE  TypeOK'
<1>1. tasks' \in [Task -> Tasks \union {None}]
  BY LookupType DEF CachingQuote, Optimistic
<1>2. queued' \in [Amount -> 0..MaxQueued]
  <2>1. queued[a] \in 0..MaxQueued /\ queued[a] > 0
    BY DEF CachingQuote, TypeOK
  <2>2. queued[a] - 1 \in 0..MaxQueued
    BY <2>1, CachingAssumption
  <2>. QED  BY <2>2 DEF CachingQuote, TypeOK
<1>. QED  BY <1>1, <1>2 DEF CachingQuote, Stored, TypeOK

\* A task ends or goes on.
LEMMA TaskStepType ==
  ASSUME TypeOK, NEW t \in Task, Runs(t)
  PROVE  TypeOK'
<1>1. CASE QueryFlags(t)
  <2>1. tasks[t] \in Tasks
    BY <1>1, InFlightType DEF QueryFlags
  <2>2. AfterQuery(t) \in Tasks \union {None}
    BY <2>1 DEF AfterQuery, Tasks, Pending
  <2>. QED  BY <1>1, <2>2 DEF QueryFlags, TypeOK
<1>2. CASE CallFails(t)
  BY <1>2, EndedType DEF CallFails, TypeOK
<1>3. CASE SendAsyncCachingRequest(t)
  <2>1. Ended(t, "invoke") \in Tasks \union {None} /\ tasks[t].amount \in Amount
    BY <1>3, EndedType, InFlightType DEF SendAsyncCachingRequest
  <2>2. /\ queued[tasks[t].amount] \in 0..MaxQueued
        /\ queued[tasks[t].amount] < MaxQueued
    BY <1>3, <2>1 DEF SendAsyncCachingRequest, TypeOK
  <2>3. queued[tasks[t].amount] + 1 \in 0..MaxQueued
    BY <2>2, Ages
  <2>. QED  BY <1>3, <2>1, <2>3 DEF SendAsyncCachingRequest, TypeOK
<1>4. CASE SetRoutesDbCachingIntentFlag(t)
  <2>1. Ended(t, "put") \in Tasks \union {None} /\ tasks[t].age \in 0..Old
    BY <1>4, EndedType, InFlightType, Ages DEF SetRoutesDbCachingIntentFlag
  <2>. QED  BY <1>4, <2>1 DEF SetRoutesDbCachingIntentFlag, TypeOK
<1>. QED  BY <1>1, <1>2, <1>3, <1>4 DEF Runs

\* A block makes flags and tasks older, a flag that is outdated for all no more.
LEMMA NextBlockType ==
  ASSUME TypeOK, NextBlock
  PROVE  TypeOK'
<1>1. flags' \in [Amount -> 0..Old \union {None}]
  <2>1. \A a \in Amount : Aged(flags[a]) \in 0..Old \union {None}
    <3>. TAKE a \in Amount
    <3>1. CASE flags[a] = None \/ flags[a] = Old
      BY <3>1, Ages DEF Aged, TypeOK
    <3>2. CASE flags[a] # None /\ flags[a] # Old
      <4>1. flags[a] \in 0..Old /\ Aged(flags[a]) = flags[a] + 1
        BY <3>2 DEF Aged, TypeOK
      <4>. QED  BY <3>2, <4>1, Ages
    <3>. QED  BY <3>1, <3>2
  <2>. QED  BY <2>1 DEF NextBlock
<1>2. tasks' \in [Task -> Tasks \union {None}]
  <2>1. ASSUME NEW t \in Task, tasks[t] # None
        PROVE  [tasks[t] EXCEPT !.age = @ + 1] \in Tasks
    <3>1. tasks[t] \in Tasks /\ tasks[t].age < MaxLag
      BY <2>1 DEF NextBlock, TypeOK
    <3>2. tasks[t].age + 1 \in 0..MaxLag
      BY <3>1, Ages DEF Tasks
    <3>. QED  BY <3>1, <3>2 DEF Tasks
  <2>. QED  BY <2>1 DEF NextBlock
<1>. QED  BY <1>1, <1>2 DEF NextBlock, TypeOK

\* Every step preserves the types.
LEMMA StepType ==
  ASSUME TypeOK, [Next]_vars
  PROVE  TypeOK'
<1>1. CASE Users
  <2>1. PICK intent \in DOMAIN Optimistic, a \in Amount : UserQuote(intent, a)
    BY <1>1 DEF Users
  <2>. QED  BY <2>1, LookupType DEF UserQuote, Stored, TypeOK
<1>2. CASE \E a \in Amount : FlagExpires(a)
  BY <1>2 DEF FlagExpires, TypeOK
<1>3. CASE RoutesExpire \/ UNCHANGED vars
  BY <1>3 DEF RoutesExpire, vars, TypeOK
<1>. QED  BY <1>1, <1>2, <1>3, TaskStepType, CachingQuoteType, NextBlockType DEF Next, Runs

\* The flags, the tasks and the queue keep their types, for any amounts, any number of
\* tasks and any lag: every task has a call in flight, and a query never together with a
\* call that follows from it (maybeSendCachingQuoteForRoutesDb).
THEOREM CachingTyped == Spec => []TypeOK
<1>1. Init => TypeOK
  BY Ages DEF Init, TypeOK
<1>. QED  BY <1>1, StepType, PTL DEF Spec

-----------------------------------------------------------------------------
(* What makes the requests end.  Fairness is out of the prover's reach,    *)
(* but the steps it would use are not: without users no task begins, each  *)
(* of its calls brings it nearer to its end, and a caching request is only *)
(* queued by a task that gets nearer.                                      *)

\* The calls that task t still makes, at most.
Work(t) ==
  IF tasks[t] = None THEN 0
  ELSE IF tasks[t].pending = {"query"} THEN 3
  ELSE IF tasks[t].pending = {"invoke", "put"} THEN 2 ELSE 1

\* Unless a user quotes, no task has more to do than before, and a caching request is queued
\* only by a task for its amount that has less to do.
CachingCallsNobody ==
  [][Users \/ /\ \A t \in Task : Work(t)' <= Work(t)
              /\ \A a \in Amount : queued'[a] > queued[a] =>
                   \E t \in Task : /\ tasks[t] # None /\ tasks[t].amount = a
                                   /\ Work(t)' < Work(t)]_vars

LEMMA WorkType == \A t : Work(t) \in 0..3 /\ (Work(t))' \in 0..3
BY DEF Work

\* A task that ends one of its calls has less to do.
LEMMA EndedWork ==
  ASSUME TypeOK, NEW t \in Task, NEW call, InFlight(t, call),
         tasks' = [tasks EXCEPT ![t] = Ended(t, call)]
  PROVE  (Work(t))' < Work(t) /\ \A u \in Task : (Work(u))' <= Work(u)
<1>. DEFINE rest == tasks[t].pending \ {call}
<1>1. tasks'[t] = Ended(t, call) /\ \A u \in Task : u # t => tasks'[u] = tasks[u]
  BY DEF TypeOK
<1>2. tasks[t] # None /\ tasks[t] \in Tasks /\ tasks[t].pending \in Pending /\ call \in tasks[t].pending
  BY InFlightType
<1>3. (Work(t))' < Work(t)
  <2>1. CASE rest = {}
    BY <1>1, <1>2, <2>1 DEF Ended, Work
  <2>2. CASE rest # {}
    <3>1. tasks[t].pending = {"invoke", "put"}
      BY <1>2, <2>2 DEF Pending
    <3>2. tasks[t].pending # {"query"}
      BY <3>1
    <3>3. tasks'[t].pending = rest
      BY <1>1, <1>2, <2>2 DEF Ended, Tasks
    <3>4. rest # {"query"} /\ rest # {"invoke", "put"}
      BY <1>2, <3>1
    <3>5. Work(t) = 2 /\ (Work(t))' <= 1
      BY <1>2, <3>1, <3>2, <3>3, <3>4 DEF Work
    <3>. QED  BY <3>5, WorkType
  <2>. QED  BY <2>1, <2>2
<1>4. \A u \in Task : u # t => (Work(u))' = Work(u)
  BY <1>1 DEF Work
<1>. QED  BY <1>3, <1>4, WorkType

\* A task whose query has ended has less to do.
LEMMA QueriedWork ==
  ASSUME TypeOK, NEW t \in Task, QueryFlags(t)
  PROVE  \A u \in Task : (Work(u))' <= Work(u)
<1>1. tasks[t] # None /\ tasks[t] \in Tasks /\ tasks[t].pending = {"query"}
  <2>1. tasks[t].pending \in Pending /\ "query" \in tasks[t].pending
    BY InFlightType DEF QueryFlags
  <2>. QED  BY <2>1, InFlightType DEF QueryFlags, Pending
<1>2. Work(t) = 3
  BY <1>1 DEF Work
<1>3. \A u \in Task : u # t => tasks'[u] = tasks[u]
  BY DEF QueryFlags, TypeOK
<1>4. \A u \in Task : u # t => (Work(u))' = Work(u)
  BY <1>3 DEF Work
<1>. QED  BY <1>2, <1>4, WorkType

\* Caching quotes do not call themselves: left alone, the tasks of a pair only ever get
\* nearer to their end, however flags expire or are lost and Lambda repeats its events
\* (shared.ts:290, dynamo-route-caching-provider.ts:369-426).
THEOREM CachingSettles == Spec => CachingCallsNobody
<1>. DEFINE Nearer == /\ \A t \in Task : Work(t)' <= Work(t)
                      /\ \A a \in Amount : queued'[a] > queued[a] =>
                           \E t \in Task : /\ tasks[t] # None /\ tasks[t].amount = a
                                           /\ Work(t)' < Work(t)
<1>1. ASSUME TypeOK, Next, ~Users  PROVE Nearer
  <2>1. \A a \in Amount : queued[a] \in Int /\ ~(queued[a] > queued[a])
    BY <1>1 DEF TypeOK
  <2>2. ASSUME \A t \in Task : Work(t)' <= Work(t), UNCHANGED queued  PROVE Nearer
    BY <2>1, <2>2
  <2>3. CASE UNCHANGED tasks
    <3>1. \A t \in Task : (Work(t))' = Work(t)
      BY <2>3 DEF Work
    <3>2. \A t \in Task : (Work(t))' <= Work(t)
      BY <3>1, WorkType
    <3>3. CASE \E a \in Amount : CachingQuote(a)
      <4>1. PICK a \in Amount : CachingQuote(a)
        BY <3>3
      <4>2. \A b \in Amount : ~(queued'[b] > queued[b])
        BY <1>1, <2>1, <4>1 DEF CachingQuote, TypeOK
      <4>. QED  BY <3>2, <4>2
    <3>4. ASSUME NEW t \in Task, SendAsyncCachingRequest(t)  PROVE Nearer
      <4>1. (Work(t))' < Work(t)
        BY <1>1, <3>4, EndedWork DEF SendAsyncCachingRequest
      <4>. QED  BY <3>1, <4>1, WorkType
    <3>5. CASE UNCHANGED queued
      BY <2>2, <3>2, <3>5
    <3>. QED  BY <1>1, <3>3, <3>4, <3>5
         DEF Next, QueryFlags, CallFails, SetRoutesDbCachingIntentFlag, FlagExpires, NextBlock, RoutesExpire
  <2>4. ASSUME NEW t \in Task, QueryFlags(t)  PROVE Nearer
    BY <1>1, <2>2, <2>4, QueriedWork DEF QueryFlags
  <2>5. ASSUME NEW t \in Task, CallFails(t) \/ SetRoutesDbCachingIntentFlag(t)  PROVE Nearer
    BY <1>1, <2>2, <2>5, EndedWork DEF CallFails, SetRoutesDbCachingIntentFlag
  <2>6. ASSUME NEW t \in Task, SendAsyncCachingRequest(t)  PROVE Nearer
    <3>1. /\ InFlight(t, "invoke") /\ tasks' = [tasks EXCEPT ![t] = Ended(t, "invoke")]
          /\ queued' = [queued EXCEPT ![tasks[t].amount] = @ + 1]
      BY <2>6 DEF SendAsyncCachingRequest
    <3>2. (Work(t))' < Work(t) /\ \A u \in Task : (Work(u))' <= Work(u)
      BY <1>1, <3>1, EndedWork
    <3>3. tasks[t] # None /\ \A a \in Amount : a # tasks[t].amount => queued'[a] = queued[a]
      BY <1>1, <3>1 DEF TypeOK, InFlight
    <3>. QED  BY <2>1, <3>2, <3>3
  <2>7. ASSUME NextBlock  PROVE Nearer
    <3>1. ASSUME NEW t \in Task  PROVE (Work(t))' <= Work(t)
      <4>1. CASE tasks[t] = None
        BY <2>7, <4>1 DEF NextBlock, Work
      <4>2. CASE tasks[t] # None
        <5>1. tasks[t] \in Tasks /\ tasks'[t] = [tasks[t] EXCEPT !.age = @ + 1]
          BY <1>1, <2>7, <4>2 DEF NextBlock, TypeOK
        <5>2. tasks'[t].pending = tasks[t].pending
          BY <5>1 DEF Tasks
        <5>. QED  BY <4>2, <5>2, WorkType DEF Work
      <4>. QED  BY <4>1, <4>2
    <3>. QED  BY <2>2, <2>7, <3>1 DEF NextBlock
  <2>8. ASSUME NEW a \in Amount, CachingQuote(a)  PROVE UNCHANGED tasks
    BY <2>8 DEF CachingQuote, Lookup, Optimistic
  <2>. HIDE DEF Nearer
  <2>. QED  BY <1>1, <2>3, <2>4, <2>5, <2>6, <2>7, <2>8 DEF Next, FlagExpires, RoutesExpire
<1>2. TypeOK /\ [Next]_vars => [Users \/ Nearer]_vars
  BY <1>1
<1>. QED  BY <1>2, CachingTyped, PTL DEF Spec, CachingCallsNobody
=============================================================================
