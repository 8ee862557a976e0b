----------------------------- MODULE RpcGateway -----------------------------
(***************************************************************************)
(* The RPC gateway of one chain: UniJsonRpcProvider picks a provider for   *)
(* each call, keeps a session on its provider while that is healthy, and   *)
(* after the answer sends shadow calls to the providers it did not pick:   *)
(* health checks to unhealthy ones, latency evaluations to healthy ones.   *)
(* SingleJsonRpcProvider keeps what is known of one provider.  Node runs   *)
(* one callback at a time, so an action is the code between two awaits.    *)
(***************************************************************************)
EXTENDS Integers, FiniteSets, FiniteSetsExt

CONSTANTS
  Provider,
  Position,      \* the place of a provider in the configured array
  Weight,        \* urlWeight
  DbSynced,      \* providers with enableDbSync
  Session,       \* session ids
  None,          \* undefined
  Method,        \* the methods that are called
  MaxSessions,   \* capacity of the session cache (1000)
  Sampling,      \* FALSE: both sample probabilities are 0
  HealthWait,    \* HEALTH_EVALUATION_WAIT_PERIOD_IN_S
  LatencyWait,   \* LATENCY_EVALUATION_WAIT_PERIOD_IN_S
  MaxCalls,      \* bound: calls in a behaviour
  MaxPending,    \* bound: calls in flight
  MaxTime        \* bound: the clock

\* ProviderSpecialWeight
NEVER == 0
AS_FALLBACK == -1

ASSUME ProviderAssumption ==
  /\ Provider # {} /\ IsFiniteSet(Provider)
  /\ Position \in [Provider -> Nat]
  /\ \A p, q \in Provider : Position[p] = Position[q] => p = q
  /\ Weight \in [Provider -> Nat \union {AS_FALLBACK}]
  /\ DbSynced \subseteq Provider

ASSUME SessionAssumption == IsFiniteSet(Session) /\ None \notin Session \union Provider

ASSUME BoundAssumption ==
  /\ MaxSessions \in Nat \ {0} /\ Sampling \in BOOLEAN
  /\ HealthWait \in Nat /\ LatencyWait \in Nat
  /\ MaxCalls \in Nat /\ MaxPending \in Nat /\ MaxTime \in Nat

\* "call" stands for the major methods whose comparison cannot fail (getBlockNumber, call),
\* "send" for a send whose answers are compared field by field, "getCode" for the methods
\* that are no major ones.
ASSUME MethodAssumption == Method \subseteq {"call", "send", "getCode"}

MAJOR_METHOD_NAMES == {"call", "send"}

VARIABLES
  healthy,                   \* providers whose healthiness is HEALTHY
  evaluatingHealthiness,     \* providers whose flag of that name is set
  lastHealthinessEvaluation, \* the timestamps
  evaluatingLatency,
  lastLatencyEvaluation,
  syncingDb,
  sessionCache,      \* the provider of each cached session
  usedAt,            \* the call that last moved a session to the recent end of the cache
  attachedSessionId,
  shouldEvaluate,
  sessionAllowProviderFallbackWhenUnhealthy,
  calls,             \* calls in flight
  checks,            \* shadow health checks in flight
  probes,            \* shadow latency evaluations in flight
  made,              \* number of calls so far
  now,               \* Date.now()
  rejected,          \* history: a promise nobody awaits was rejected
  served,            \* history: the provider of a session's last call that was sent
  lastCall,          \* history: a session's last call that was sent
  lastTry,           \* history: a session's last call
  checkedAt          \* history: when a provider's last health check began

single == <<evaluatingHealthiness, lastHealthinessEvaluation, evaluatingLatency,
            lastLatencyEvaluation, syncingDb>>
shadow == <<checks, probes>>
session == <<sessionCache, usedAt, served, lastCall, lastTry>>
uni == <<attachedSessionId, shouldEvaluate, sessionAllowProviderFallbackWhenUnhealthy>>

vars == <<healthy, single, session, uni, calls, shadow, made, now, rejected, checkedAt>>

CallNumber == Nat \ {0}

Call == [call : CallNumber, provider : Provider, session : Session \union {None},
         method : Method]

Check == [call : CallNumber, provider : Provider, session : Session \union {None},
          start : Nat]

Probe == [call : CallNumber, provider : Provider, session : Session \union {None},
          method : Method, answered : BOOLEAN, start : Nat]

-----------------------------------------------------------------------------
(* The choice of a provider.                                               *)

EffectiveWeight(p) == IF Weight[p] = AS_FALLBACK THEN 0 ELSE Weight[p]

UrlWeightSum(providers) == MapThenSumSet(EffectiveWeight, providers)

\* A bug: the providers are accumulated in the configured order.
SortedByPosition(p, q) == Position[p] <= Position[q]

\* p comes no later than q once the healthy providers are sorted by weight.
Sorted(p, q) ==
  \/ Weight[p] > Weight[q]
  \/ Weight[p] = Weight[q] /\ Position[p] <= Position[q]

AccumulatedWeight(providers, p) ==
  UrlWeightSum({q \in providers : Sorted(q, p)})

\* The first provider, in sorted order, whose accumulated weight reaches rand, for a rand
\* anywhere in [0, sum): twice the weights against whole numbers meets every case.
PickedByWeight(providers) ==
  {p \in providers : \E rand \in 0 .. (2 * UrlWeightSum(providers) - 1) :
     /\ 2 * AccumulatedWeight(providers, p) >= rand
     /\ \A q \in providers \ {p} :
          Sorted(q, p) => 2 * AccumulatedWeight(providers, q) < rand}

\* The first healthy provider with AS_FALLBACK.
FirstFallback(providers) ==
  LET fallbacks == {p \in providers : Weight[p] = AS_FALLBACK}
  IN  {p \in fallbacks : \A q \in fallbacks : Position[p] <= Position[q]}

\* The providers that may be chosen among the healthy ones; none means an error.
Selectable == [providers \in SUBSET Provider |->
  IF UrlWeightSum(providers) = 0 THEN FirstFallback(providers) ELSE PickedByWeight(providers)]

-----------------------------------------------------------------------------
(* The session cache, which drops the least recently used session.         *)

Cached == {s \in Session : sessionCache[s] # None}

\* sessionCache.get
Touched(s) == IF s \in Cached THEN [usedAt EXCEPT ![s] = made + 1] ELSE usedAt

\* The entry that makes room for session s.
Evicted(s) ==
  IF s \in Cached \/ Cardinality(Cached) < MaxSessions THEN {}
  ELSE {t \in Cached : \A u \in Cached : usedAt[t] <= usedAt[u]}

\* sessionCache.set
Remember(s, p) ==
  /\ sessionCache' = [t \in Session |->
       IF t = s THEN p ELSE IF t \in Evicted(s) THEN None ELSE sessionCache[t]]
  /\ usedAt' = [usedAt EXCEPT ![s] = made + 1]

-----------------------------------------------------------------------------
(* A call.                                                                 *)

Init ==
  /\ healthy = Provider
  /\ evaluatingHealthiness = {} /\ evaluatingLatency = {} /\ syncingDb = {}
  /\ lastHealthinessEvaluation = [p \in Provider |-> 0]
  /\ lastLatencyEvaluation = [p \in Provider |-> 0]
  /\ sessionCache = [s \in Session |-> None]
  /\ usedAt = [s \in Session |-> 0]
  /\ attachedSessionId = None
  /\ shouldEvaluate \in BOOLEAN   \* set by the constructor, cleared by the injector
  /\ sessionAllowProviderFallbackWhenUnhealthy \in BOOLEAN
  /\ calls = {} /\ checks = {} /\ probes = {}
  /\ made = 0
  /\ now = HealthWait + LatencyWait + 1   \* long after the epoch
  /\ rejected = FALSE
  /\ served = [s \in Session |-> None]
  /\ lastCall = [s \in Session |-> 0] /\ lastTry = [s \in Session |-> 0]
  /\ checkedAt = [p \in Provider |-> 0]

\* The quote handler attaches a new session id and allows shadow calls.
Attach(s) ==
  /\ usedAt[s] = 0
  /\ attachedSessionId' = s
  /\ shouldEvaluate' = TRUE
  /\ UNCHANGED <<healthy, single, session, sessionAllowProviderFallbackWhenUnhealthy,
                 calls, shadow, made, now, rejected, checkedAt>>

\* A provider was chosen: the call is sent to it.
Send(s, m, p) ==
  /\ calls' = calls \union {[call |-> made + 1, provider |-> p, session |-> s, method |-> m]}
  /\ served' = IF s = None THEN served ELSE [served EXCEPT ![s] = p]
  /\ lastCall' = IF s = None THEN lastCall ELSE [lastCall EXCEPT ![s] = made + 1]

\* selectPreferredProvider: the session's provider is healthy.
StickToProvider(s, m) ==
  /\ s \in Cached /\ sessionCache[s] \in healthy
  /\ Send(s, m, sessionCache[s])
  /\ usedAt' = Touched(s)
  /\ UNCHANGED sessionCache

\* selectPreferredProvider: it is not, and the session may not leave it.
RefuseFallback(s) ==
  /\ s \in Cached /\ sessionCache[s] \notin healthy
  /\ ~ sessionAllowProviderFallbackWhenUnhealthy
  /\ usedAt' = Touched(s)
  /\ UNCHANGED <<calls, sessionCache, served, lastCall>>

\* A bug: a session that may leave its provider is not held by a healthy one.
FreeIfAllowed(s) == s \in Cached => sessionAllowProviderFallbackWhenUnhealthy

FreeToChoose(s) ==
  s \in Cached => /\ sessionCache[s] \notin healthy
                  /\ sessionAllowProviderFallbackWhenUnhealthy

\* selectPreferredProvider: any healthy provider, by weight.
ChooseProvider(s, m) ==
  /\ FreeToChoose(s)
  /\ \E p \in Selectable[healthy] :
       /\ Send(s, m, p)
       /\ IF s = None THEN UNCHANGED <<sessionCache, usedAt>> ELSE Remember(s, p)

\* selectPreferredProvider: no healthy provider may be used.
NoProvider(s) ==
  /\ FreeToChoose(s)
  /\ Selectable[healthy] = {}
  /\ usedAt' = Touched(s)
  /\ UNCHANGED <<calls, sessionCache, served, lastCall>>

\* wrappedFunctionCall, up to its await; given is the caller's session id.
Begin(given, m) ==
  /\ made < MaxCalls /\ Cardinality(calls) < MaxPending
  /\ made' = made + 1
  /\ LET s == IF attachedSessionId = None THEN given ELSE attachedSessionId
     IN  /\ \/ StickToProvider(s, m)
            \/ RefuseFallback(s)
            \/ ChooseProvider(s, m)
            \/ NoProvider(s)
         /\ lastTry' = IF s = None THEN lastTry ELSE [lastTry EXCEPT ![s] = made + 1]
  /\ UNCHANGED <<healthy, single, uni, shadow, now, rejected, checkedAt>>

-----------------------------------------------------------------------------
(* What follows an answer.                                                 *)

\* A bug: the sync does not ask for enableDbSync.
SyncsAlways(p) == syncingDb' = syncingDb \union {p}

\* The providers' finally block: a sync that was sampled sets the flag, and nothing
\* clears it since the sync itself is commented out.
MaybeSyncDb(p) ==
  \/ UNCHANGED syncingDb
  \/ p \in DbSynced \ syncingDb /\ syncingDb' = syncingDb \union {p}

\* A bug: the session is read again after the await.
EvaluatesAttached(c) == Sampling /\ shouldEvaluate /\ attachedSessionId # None

\* Whether the finally block looks at the other providers.
Evaluates(c) == Sampling /\ shouldEvaluate /\ c.session # None

\* A bug: checkUnhealthyProviders forgets that a check may still be in flight.
HasWaited(p) == now - lastHealthinessEvaluation[p] > HealthWait

\* A bug: checkUnhealthyProviders forgets the wait period.
NotEvaluating(p) == p \notin evaluatingHealthiness

\* The providers that checkUnhealthyProviders may check.
CheckAllowed(p) ==
  /\ p \notin evaluatingHealthiness
  /\ now - lastHealthinessEvaluation[p] > HealthWait

\* checkUnhealthyProviders for a sample of the providers, evaluateHealthiness up to its
\* await.
StartChecks(c, sample) ==
  /\ checks' = checks \union
       {[call |-> c.call, provider |-> p, session |-> c.session, start |-> now] : p \in sample}
  /\ evaluatingHealthiness' = evaluatingHealthiness \union sample
  /\ checkedAt' = [p \in Provider |-> IF p \in sample THEN now ELSE checkedAt[p]]

Checkable(c) == {p \in Provider \ (healthy \union {c.provider}) : CheckAllowed(p)}

\* checkOtherHealthyProvider, evaluateLatency up to its await.
StartProbes(c, answered, others) ==
  /\ probes' = probes \union
       {[call |-> c.call, provider |-> p, session |-> c.session, method |-> c.method,
         answered |-> answered, start |-> now] : p \in others}
  /\ evaluatingLatency' = evaluatingLatency \union others

Others(c) == IF c.method \in MAJOR_METHOD_NAMES THEN healthy \ {c.provider} ELSE {}

\* The answer, or the error, of a call.
Answer(c, answered) ==
  /\ calls' = calls \ {c}
  /\ MaybeSyncDb(c.provider)
  /\ \E others \in {{}, Others(c)} : \E sample \in SUBSET Checkable(c) :
       /\ ~ Evaluates(c) => others = {} /\ sample = {}
       /\ StartProbes(c, answered, others)
       /\ StartChecks(c, sample)
  /\ UNCHANGED <<healthy, lastHealthinessEvaluation, lastLatencyEvaluation, session, uni,
                 made, now, rejected>>

\* recordProviderCallSuccess and recordProviderCallError of a health check.
RecordCheck(k) ==
  /\ lastHealthinessEvaluation' =
       [lastHealthinessEvaluation EXCEPT ![k.provider] = k.start]
  /\ evaluatingHealthiness' = evaluatingHealthiness \ {k.provider}

\* A health check ends; evaluateHealthiness swallows an error.
EndCheck(k) ==
  /\ checks' = checks \ {k}
  /\ RecordCheck(k)
  /\ MaybeSyncDb(k.provider)
  /\ UNCHANGED <<healthy, evaluatingLatency, lastLatencyEvaluation, session, uni, calls,
                 probes, made, now, rejected, checkedAt>>

\* compareRpcResponses reads a field of a missing answer: the selected provider failed, or
\* evaluateLatency swallowed an error and returned nothing.
CompareThrows(k, answered) == k.method = "send" /\ ~ (k.answered /\ answered)

\* A latency evaluation ends and its answer is compared.
EndProbe(k, answered) ==
  /\ probes' = probes \ {k}
  /\ lastLatencyEvaluation' = [lastLatencyEvaluation EXCEPT ![k.provider] = k.start]
  /\ evaluatingLatency' = evaluatingLatency \ {k.provider}
  /\ rejected' = (rejected \/ CompareThrows(k, answered))
  /\ MaybeSyncDb(k.provider)
  /\ UNCHANGED <<healthy, evaluatingHealthiness, lastHealthinessEvaluation, session, uni,
                 calls, checks, made, now, checkedAt>>

-----------------------------------------------------------------------------
\* Nothing in the class writes healthiness since the sync with the table is commented
\* out; the tests do.
SetHealthiness(p) ==
  /\ healthy' = IF p \in healthy THEN healthy \ {p} ELSE healthy \union {p}
  /\ UNCHANGED <<single, session, uni, calls, shadow, made, now, rejected, checkedAt>>

Tick ==
  /\ now < MaxTime
  /\ now' = now + 1
  /\ UNCHANGED <<healthy, single, session, uni, calls, shadow, made, rejected, checkedAt>>

Next ==
  \/ \E s \in Session : Attach(s)
  \/ \E given \in Session \union {None}, m \in Method : Begin(given, m)
  \/ \E c \in calls, answered \in BOOLEAN : Answer(c, answered)
  \/ \E k \in checks : EndCheck(k)
  \/ \E k \in probes, answered \in BOOLEAN : EndProbe(k, answered)
  \/ \E p \in Provider : SetHealthiness(p)
  \/ Tick

Spec == Init /\ [][Next]_vars

-----------------------------------------------------------------------------
(* What is claimed of it.                                                  *)

\* Every variable has its type, and only providers with enableDbSync are ever syncing.
TypeOK ==
  /\ healthy \subseteq Provider
  /\ evaluatingHealthiness \subseteq Provider /\ evaluatingLatency \subseteq Provider
  /\ lastHealthinessEvaluation \in [Provider -> Nat]
  /\ lastLatencyEvaluation \in [Provider -> Nat]
  /\ syncingDb \subseteq DbSynced
  /\ sessionCache \in [Session -> Provider \union {None}]
  /\ usedAt \in [Session -> Nat]
  /\ attachedSessionId \in Session \union {None}
  /\ shouldEvaluate \in BOOLEAN
  /\ sessionAllowProviderFallbackWhenUnhealthy \in BOOLEAN
  /\ calls \subseteq Call /\ checks \subseteq Check /\ probes \subseteq Probe
  /\ made \in Nat /\ now \in Nat /\ rejected \in BOOLEAN
  /\ served \in [Session -> Provider \union {None}]
  /\ lastCall \in [Session -> Nat] /\ lastTry \in [Session -> Nat]
  /\ checkedAt \in [Provider -> Nat]

NewCalls == calls' \ calls

\* The weights hold on every call that does not stick to its session's provider: NEVER is
\* not chosen, AS_FALLBACK only when no healthy provider has a positive weight, and then
\* the first healthy one in the configured order (UniJsonRpcProvider.ts:65-70).
SelectionFollowsWeights ==
  [][\A c \in NewCalls :
       (c.session # None => sessionCache[c.session] # c.provider)
         => /\ c.provider \in healthy
            /\ Weight[c.provider] # NEVER
            /\ Weight[c.provider] = AS_FALLBACK =>
                 \A q \in healthy : /\ Weight[q] <= 0
                                    /\ Weight[q] = AS_FALLBACK =>
                                         Position[c.provider] <= Position[q]]_vars

MoreRecent(s) == {t \in Session \ {s} : lastTry[t] > lastCall[s]}

\* However calls of several sessions interleave and providers fail and recover, a session
\* stays on the provider of its last call while that is healthy, unless as many other
\* sessions as the cache holds were used since; and where it may not fall back it makes
\* no call at all while that provider is unhealthy.
SessionSticks ==
  [][\A c \in NewCalls :
       c.session # None /\ served[c.session] # None
         /\ Cardinality(MoreRecent(c.session)) < MaxSessions
         /\ (served[c.session] \in healthy \/ ~ sessionAllowProviderFallbackWhenUnhealthy)
       => c.provider = served[c.session]]_vars

\* At most one health check of a provider is in flight, and its flag is set exactly while
\* one is: no interleaving of answers leaves the flag set for ever or cleared too early.
OneHealthCheck ==
  /\ \A j, k \in checks : j.provider = k.provider => j = k
  /\ evaluatingHealthiness = {k.provider : k \in checks}

\* Two health checks of a provider begin more than the wait period apart, although the
\* timestamp is only recorded when a check ends.
HealthChecksSpaced ==
  [][\A k \in checks' \ checks : k.start - checkedAt[k.provider] > HealthWait]_vars

\* Shadow calls follow only calls that belong to a session: one that began while the
\* lambda was initialised causes none, even if it is answered during a request.
ShadowsInRequests == \A k \in checks \union probes : k.session # None

\* The name of the test "we will not do shadow latency check calls too frequently": a
\* latency evaluation begins only when the last one is the wait period ago.
LatencyEvaluationsSpaced ==
  [][\A k \in probes' \ probes :
       now - lastLatencyEvaluation[k.provider] > LatencyWait]_vars

\* The comments on evaluateLatency ("Swallow the error.") and its caller ("fire and
\* forget"): no failing provider makes a promise that nobody awaits reject.
ShadowErrorsSwallowed == ~ rejected
=============================================================================
