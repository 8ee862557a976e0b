-------------------------- MODULE CachingRequests --------------------------
(***************************************************************************)
(* How the routes table of one pair is kept fresh.  An optimistic quote    *)
(* that finds cached routes starts a task nobody awaits: it looks whether  *)
(* a flag near its amount is recent, and if none is, invokes the caching   *)
(* lambda and puts a flag, two calls that no one awaits either.  The       *)
(* caching lambda runs the same quote handler with the intent "caching".   *)
(*                                                                         *)
(* Block numbers only matter by their differences, so the model keeps ages *)
(* in blocks: 0 is the head of the chain, Old is any age at which a flag   *)
(* is outdated for every task still running.                               *)
(***************************************************************************)
EXTENDS Integers

CONSTANTS
  Amount,    \* the amounts that are quoted, as numbers
  Task,      \* bound: the tasks that run at one time
  None,
  MaxDiff,   \* BLOCKS_DIFF_BETWEEN_CACHING_QUOTES (3) or DEFAULT_BLOCKS_DIFF_CACHING (15)
  MaxLag,    \* bound: blocks that pass while a task runs
  MaxQueued  \* bound: caching requests of one amount that wait for the lambda

ASSUME CachingAssumption ==
  /\ Amount \subseteq Nat /\ None \notin Nat
  /\ MaxDiff \in Nat /\ MaxLag \in Nat /\ MaxQueued \in Nat \ {0}

VARIABLES
  flags,   \* routesCachingRequestFlagTable: the age of the flag of each amount
  routed,  \* whether the routes table has routes of the pair
  tasks,   \* running calls of maybeSendCachingQuoteForRoutesDb
  queued   \* asynchronous invocations of the caching lambda

vars == <<flags, routed, tasks, queued>>

Old == MaxLag + MaxDiff + 1

\* What a task has in flight: the query of the flags, or the calls that follow it.
Pending == {{"query"}, {"invoke", "put"}, {"invoke"}, {"put"}}

\* A bug: caching quotes are optimistic as well.
OptimisticCaching == [caching |-> TRUE, quote |-> TRUE, swap |-> FALSE, pricing |-> TRUE]

\* INTENT_SPECIFIC_CONFIG[intent].optimisticCachedRoutes
Optimistic == [caching |-> FALSE, quote |-> TRUE, swap |-> FALSE, pricing |-> TRUE]

(* ------------------------------ the handlers ------------------------------ *)

\* The amounts between a and a times ROUTES_DB_BUCKET_RATIO.
Covered(a) == {b \in Amount : a <= b /\ b * 317811 <= a * 514229}

\* shouldSendCachingRequest: no flag, or only flags of blocks long past.
ShouldSend(t) ==
  \A b \in Covered(t.amount) : flags[b] # None => flags[b] - t.age > MaxDiff

Init ==
  /\ flags = [a \in Amount |-> None]
  /\ routed = FALSE
  /\ tasks = [t \in Task |-> None]
  /\ queued = [a \in Amount |-> 0]

\* A quote looks its routes up at a block it read up to MaxLag blocks ago.
Lookup(intent, a) ==
  IF routed /\ Optimistic[intent]
    THEN \E t \in Task, age \in 0..MaxLag :
           /\ tasks[t] = None
           /\ tasks' = [tasks EXCEPT ![t] =
                          [amount |-> a, age |-> age, pending |-> {"query"}]]
    ELSE UNCHANGED tasks

\* The router writes the routes it computed, or does not.
Stored == routed' \in {routed, TRUE}

UserQuote(intent, a) ==
  /\ Lookup(intent, a)
  /\ Stored
  /\ UNCHANGED <<flags, queued>>

\* A bug: the call that ended last stays listed, so the task never ends.
EndedKept(t, call) == [tasks[t] EXCEPT !.pending = @ \ {call}]

\* What is left of task t when one of its calls has ended.
Ended(t, call) ==
  LET left == tasks[t].pending \ {call}
  IN  IF left = {} THEN None ELSE [tasks[t] EXCEPT !.pending = left]

\* A bug: a task that sends nothing still puts its flag.
AfterQueryFlagged(t) ==
  [tasks[t] EXCEPT !.pending = {"put"} \union IF ShouldSend(tasks[t]) THEN {"invoke"} ELSE {}]

AfterQuery(t) ==
  IF ShouldSend(tasks[t])
    THEN [tasks[t] EXCEPT !.pending = {"invoke", "put"}]
    ELSE None

InFlight(t, call) == tasks[t] # None /\ call \in tasks[t].pending

QueryFlags(t) ==
  /\ InFlight(t, "query")
  /\ tasks' = [tasks EXCEPT ![t] = AfterQuery(t)]
  /\ UNCHANGED <<flags, routed, queued>>

\* The task catches the error of its query; nobody sees the error of the other two calls.
CallFails(t) ==
  /\ \E call \in {"query", "invoke", "put"} :
       InFlight(t, call) /\ tasks' = [tasks EXCEPT ![t] = Ended(t, call)]
  /\ UNCHANGED <<flags, routed, queued>>

SendAsyncCachingRequest(t) ==
  /\ InFlight(t, "invoke")
  /\ queued[tasks[t].amount] < MaxQueued
  /\ queued' = [queued EXCEPT ![tasks[t].amount] = @ + 1]
  /\ tasks' = [tasks EXCEPT ![t] = Ended(t, "invoke")]
  /\ UNCHANGED <<flags, routed>>

\* The put replaces the flag whatever its block was.
SetRoutesDbCachingIntentFlag(t) ==
  /\ InFlight(t, "put")
  /\ flags' = [flags EXCEPT ![tasks[t].amount] = tasks[t].age]
  /\ tasks' = [tasks EXCEPT ![t] = Ended(t, "put")]
  /\ UNCHANGED <<routed, queued>>

\* A run of the caching lambda that fails leaves its event, which Lambda runs again.
CachingQuote(a) ==
  /\ queued[a] > 0
  /\ Lookup("caching", a)
  /\ queued' \in {queued, [queued EXCEPT ![a] = @ - 1]}
  /\ Stored
  /\ UNCHANGED flags

Aged(age) == IF age = None \/ age = Old THEN age ELSE age + 1

NextBlock ==
  /\ \A t \in Task : tasks[t] # None => tasks[t].age < MaxLag
  /\ flags' = [a \in Amount |-> Aged(flags[a])]
  /\ tasks' = [t \in Task |-> IF tasks[t] = None THEN None
                              ELSE [tasks[t] EXCEPT !.age = @ + 1]]
  /\ UNCHANGED <<routed, queued>>

\* DynamoDB drops a flag after ROUTES_DB_FLAG_TTL, and routes after ROUTES_DB_TTL.
FlagExpires(a) ==
  /\ flags[a] # None
  /\ flags' = [flags EXCEPT ![a] = None]
  /\ UNCHANGED <<routed, tasks, queued>>

RoutesExpire ==
  /\ routed
  /\ routed' = FALSE
  /\ UNCHANGED <<flags, tasks, queued>>

Users == \E intent \in DOMAIN Optimistic, a \in Amount : UserQuote(intent, a)

Next ==
  \/ Users
  \/ \E t \in Task : \/ QueryFlags(t)
                     \/ CallFails(t)
                     \/ SendAsyncCachingRequest(t)
                     \/ SetRoutesDbCachingIntentFlag(t)
  \/ \E a \in Amount : CachingQuote(a) \/ FlagExpires(a)
  \/ NextBlock
  \/ RoutesExpire

(* --------------------------- the specification ---------------------------- *)

Spec == Init /\ [][Next]_vars

Runs(t) ==
  \/ QueryFlags(t)
  \/ CallFails(t)
  \/ SendAsyncCachingRequest(t)
  \/ SetRoutesDbCachingIntentFlag(t)

\* Lambda runs an event at most three times, so each event is done with at last.
CachingQuoteEnds(a) == CachingQuote(a) /\ queued'[a] < queued[a]

\* A call to AWS is answered or times out, and Lambda delivers its events.  Users, the
\* chain and expiry are under no obligation.
Fairness ==
  /\ \A t \in Task : WF_vars(Runs(t))
  /\ \A a \in Amount : WF_vars(CachingQuoteEnds(a))

FairSpec == Spec /\ Fairness

(* ------------------------------- properties ------------------------------- *)

Tasks == [amount : Amount, age : 0..MaxLag, pending : Pending]

\* Every task has a call in flight, and a query is never in flight with a call that
\* follows from it; the flags' ages stay in their bounds (maybeSendCachingQuoteForRoutesDb).
TypeOK ==
  /\ flags \in [Amount -> 0..Old \union {None}]
  /\ routed \in BOOLEAN
  /\ tasks \in [Task -> Tasks \union {None}]
  /\ queued \in [Amount -> 0..MaxQueued]

Quiet == (\A t \in Task : tasks[t] = None) /\ (\A a \in Amount : queued[a] = 0)

\* Caching quotes do not call themselves: unless users go on quoting for ever, there comes
\* a time from which no task runs and no caching request waits, although flags expire or
\* are lost, blocks go by and Lambda repeats its events.
Quiesces == []<><<Users>>_vars \/ <>[]Quiet

Queries == \E t \in Task : QueryFlags(t)
Sends == \E t \in Task : tasks[t] # None /\ "query" \in tasks[t].pending
                         /\ tasks'[t] # None /\ "invoke" \in tasks'[t].pending

\* Flags hold requests back for a while only: if the flags of the pair are queried again
\* and again while the chain moves, caching requests are issued again and again, whatever
\* the order in which older and newer tasks put their flags.
PairsRefreshed ==
  []<><<Queries>>_vars /\ []<><<NextBlock>>_vars => []<><<Sends>>_vars


=============================================================================
