-------------------------- MODULE RpcGatewayProofs --------------------------
(***************************************************************************)
(* Proofs about RpcGateway, for any providers, weights, sessions and wait  *)
(* periods.                                                                *)
(***************************************************************************)
EXTENDS RpcGateway, FiniteSetTheorems, TLAPS

-----------------------------------------------------------------------------
(* The inductive invariant: the recorded timestamp is that of the last     *)
(* check as long as none is in flight, and that of the one in flight is    *)
(* the history's.                                                          *)

CheckInv ==
  /\ OneHealthCheck
  /\ \A p \in Provider \ evaluatingHealthiness :
       lastHealthinessEvaluation[p] = checkedAt[p]
  /\ \A k \in checks : k.start = checkedAt[k.provider]

IInv == TypeOK /\ CheckInv /\ ShadowsInRequests

-----------------------------------------------------------------------------
(* Type correctness.                                                       *)

\* Only existing providers are selectable.
LEMMA SelectableType ==
  ASSUME NEW H \in SUBSET Provider
  PROVE  Selectable[H] \subseteq Provider
  BY DEF Selectable, FirstFallback, PickedByWeight

\* A call that is sent is a call; the history keeps its type.
LEMMA SendType ==
  ASSUME TypeOK, NEW s \in Session \union {None}, NEW m \in Method, NEW p \in Provider,
         Send(s, m, p)
  PROVE  /\ calls' \subseteq Call
         /\ served' \in [Session -> Provider \union {None}]
         /\ lastCall' \in [Session -> Nat]
<1>1. [call |-> made + 1, provider |-> p, session |-> s, method |-> m] \in Call
  BY DEF TypeOK, Call, CallNumber
<1>. QED  BY <1>1 DEF Send, TypeOK

\* Reading an entry keeps the type of the recency stamps.
LEMMA TouchedType ==
  ASSUME TypeOK, NEW s \in Session \union {None}
  PROVE  Touched(s) \in [Session -> Nat]
  BY DEF Touched, Cached, TypeOK

\* Starting a call preserves the types.
LEMMA BeginType ==
  ASSUME TypeOK, NEW given \in Session \union {None}, NEW m \in Method, Begin(given, m)
  PROVE  TypeOK'
<1>. DEFINE s == IF attachedSessionId = None THEN given ELSE attachedSessionId
<1>1. s \in Session \union {None}
  BY DEF TypeOK
<1>2. /\ calls' \subseteq Call
      /\ sessionCache' \in [Session -> Provider \union {None}]
      /\ usedAt' \in [Session -> Nat]
      /\ served' \in [Session -> Provider \union {None}]
      /\ lastCall' \in [Session -> Nat]
  <2>1. CASE StickToProvider(s, m)
    <3>1. sessionCache[s] \in Provider /\ Send(s, m, sessionCache[s])
      BY <2>1 DEF StickToProvider, TypeOK
    <3>. HIDE DEF s
    <3>. QED  BY <1>1, <2>1, <3>1, SendType, TouchedType DEF StickToProvider, TypeOK
  <2>2. CASE RefuseFallback(s)
    <3>. HIDE DEF s
    <3>. QED  BY <1>1, <2>2, TouchedType DEF RefuseFallback, TypeOK
  <2>3. CASE NoProvider(s)
    <3>. HIDE DEF s
    <3>. QED  BY <1>1, <2>3, TouchedType DEF NoProvider, TypeOK
  <2>4. CASE ChooseProvider(s, m)
    <3>. HIDE DEF s
    <3>1. PICK p \in Selectable[healthy] :
            /\ Send(s, m, p)
            /\ IF s = None THEN UNCHANGED <<sessionCache, usedAt>> ELSE Remember(s, p)
      BY <2>4 DEF ChooseProvider
    <3>2. p \in Provider
      BY SelectableType DEF TypeOK
    <3>3. /\ sessionCache' \in [Session -> Provider \union {None}]
          /\ usedAt' \in [Session -> Nat]
      BY <1>1, <3>1, <3>2 DEF Remember, TypeOK
    <3>. QED  BY <1>1, <3>1, <3>2, <3>3, SendType
  <2>. QED  BY <2>1, <2>2, <2>3, <2>4 DEF Begin
<1>3. made' \in Nat /\ lastTry' \in [Session -> Nat]
  BY DEF Begin, TypeOK
<1>4. UNCHANGED <<healthy, single, uni, shadow, now, rejected, checkedAt>>
  BY DEF Begin
<1>. QED  BY <1>2, <1>3, <1>4 DEF TypeOK, single, uni, shadow

\* The sampled shadow calls are typed and their session is the call's.
LEMMA ShadowType ==
  ASSUME TypeOK, NEW c \in calls, NEW answered \in BOOLEAN,
         NEW others \in SUBSET Provider, NEW sample \in SUBSET Provider,
         StartProbes(c, answered, others), StartChecks(c, sample)
  PROVE  /\ probes' \subseteq Probe /\ checks' \subseteq Check
         /\ evaluatingLatency' \subseteq Provider
         /\ evaluatingHealthiness' \subseteq Provider
         /\ checkedAt' \in [Provider -> Nat]
<1>1. c \in Call /\ now \in Nat
  BY DEF TypeOK
<1>2. \A p \in others : [call |-> c.call, provider |-> p, session |-> c.session,
        method |-> c.method, answered |-> answered, start |-> now] \in Probe
  BY <1>1 DEF Call, Probe
<1>3. \A p \in sample :
        [call |-> c.call, provider |-> p, session |-> c.session, start |-> now] \in Check
  BY <1>1 DEF Call, Check
<1>4. probes' \subseteq Probe
  BY <1>2 DEF StartProbes, TypeOK
<1>5. checks' \subseteq Check
  BY <1>3 DEF StartChecks, TypeOK
<1>. QED  BY <1>4, <1>5 DEF StartProbes, StartChecks, TypeOK

\* What the answer of call c may start.
LEMMA AnswerStarts ==
  ASSUME TypeOK, NEW c \in calls, NEW answered \in BOOLEAN, Answer(c, answered)
  PROVE  \E others \in SUBSET Provider, sample \in SUBSET Checkable(c) :
           /\ sample \subseteq Provider
           /\ c.session = None => others = {} /\ sample = {}
           /\ StartProbes(c, answered, others)
           /\ StartChecks(c, sample)
<1>1. PICK others \in {{}, Others(c)} : \E sample \in SUBSET Checkable(c) :
        /\ ~ Evaluates(c) => others = {} /\ sample = {}
        /\ StartProbes(c, answered, others)
        /\ StartChecks(c, sample)
  BY DEF Answer
<1>2. PICK sample \in SUBSET Checkable(c) :
        /\ ~ Evaluates(c) => others = {} /\ sample = {}
        /\ StartProbes(c, answered, others)
        /\ StartChecks(c, sample)
  BY <1>1
<1>3. others \in SUBSET Provider
  BY DEF Others, TypeOK
<1>4. sample \subseteq Provider
  BY DEF Checkable
<1>5. c.session = None => ~ Evaluates(c)
  BY DEF Evaluates
<1>. QED  BY <1>2, <1>3, <1>4, <1>5

\* The database flag keeps its type.
LEMMA SyncType ==
  ASSUME TypeOK, NEW p \in Provider, MaybeSyncDb(p)
  PROVE  syncingDb' \subseteq DbSynced
  BY DEF MaybeSyncDb, TypeOK

\* The answer of a call preserves the types.
LEMMA AnswerType ==
  ASSUME TypeOK, NEW c \in calls, NEW answered \in BOOLEAN, Answer(c, answered)
  PROVE  TypeOK'
<1>1. PICK others \in SUBSET Provider, sample \in SUBSET Checkable(c) :
        /\ sample \subseteq Provider
        /\ StartProbes(c, answered, others)
        /\ StartChecks(c, sample)
  BY AnswerStarts
<1>2. /\ probes' \subseteq Probe /\ checks' \subseteq Check
      /\ evaluatingLatency' \subseteq Provider
      /\ evaluatingHealthiness' \subseteq Provider
      /\ checkedAt' \in [Provider -> Nat]
  BY <1>1, ShadowType
<1>3. syncingDb' \subseteq DbSynced
  <2>1. c.provider \in Provider
    BY DEF TypeOK, Call
  <2>. QED  BY <2>1, SyncType DEF Answer
<1>4. /\ calls' \subseteq Call
      /\ UNCHANGED <<healthy, lastHealthinessEvaluation, lastLatencyEvaluation, session, uni,
                     made, now, rejected>>
  BY DEF Answer, TypeOK
<1>. QED  BY <1>2, <1>3, <1>4 DEF TypeOK, session, uni

\* The end of a health check preserves the types.
LEMMA EndCheckType ==
  ASSUME TypeOK, NEW k \in checks, EndCheck(k)
  PROVE  TypeOK'
<1>1. k.provider \in Provider /\ k.start \in Nat
  BY DEF TypeOK, Check
<1>2. syncingDb' \subseteq DbSynced
  BY <1>1, SyncType DEF EndCheck
<1>3. /\ checks' \subseteq Check
      /\ lastHealthinessEvaluation' \in [Provider -> Nat]
      /\ evaluatingHealthiness' \subseteq Provider
  BY <1>1 DEF EndCheck, RecordCheck, TypeOK
<1>4. UNCHANGED <<healthy, evaluatingLatency, lastLatencyEvaluation, session, uni, calls,
                  probes, made, now, rejected, checkedAt>>
  BY DEF EndCheck
<1>. QED  BY <1>2, <1>3, <1>4 DEF TypeOK, session, uni

\* The end of a latency evaluation preserves the types.
LEMMA EndProbeType ==
  ASSUME TypeOK, NEW k \in probes, NEW answered \in BOOLEAN, EndProbe(k, answered)
  PROVE  TypeOK'
<1>1. k.provider \in Provider /\ k.start \in Nat
  BY DEF TypeOK, Probe
<1>2. syncingDb' \subseteq DbSynced
  BY <1>1, SyncType DEF EndProbe
<1>3. /\ probes' \subseteq Probe
      /\ lastLatencyEvaluation' \in [Provider -> Nat]
      /\ evaluatingLatency' \subseteq Provider
  BY <1>1 DEF EndProbe, TypeOK
<1>4. rejected' \in BOOLEAN
  BY DEF EndProbe, CompareThrows, TypeOK
<1>5. UNCHANGED <<healthy, evaluatingHealthiness, lastHealthinessEvaluation, session, uni,
                  calls, checks, made, now, checkedAt>>
  BY DEF EndProbe
<1>. QED  BY <1>2, <1>3, <1>4, <1>5 DEF TypeOK, session, uni

\* Every step preserves the types.
LEMMA NextType ==
  ASSUME TypeOK, [Next]_vars
  PROVE  TypeOK'
<1>1. ASSUME NEW s \in Session, Attach(s) PROVE TypeOK'
  BY <1>1 DEF Attach, TypeOK, single, session, shadow
<1>2. ASSUME NEW p \in Provider, SetHealthiness(p) PROVE TypeOK'
  BY <1>2 DEF SetHealthiness, TypeOK, single, session, uni, shadow
<1>3. ASSUME Tick PROVE TypeOK'
  BY <1>3 DEF Tick, TypeOK, single, session, uni, shadow
<1>4. ASSUME UNCHANGED vars PROVE TypeOK'
  BY <1>4 DEF vars, TypeOK, single, session, uni, shadow
<1>. QED  BY <1>1, <1>2, <1>3, <1>4, BeginType, AnswerType, EndCheckType, EndProbeType DEF Next

-----------------------------------------------------------------------------
(* The health checks.                                                      *)

\* The initial states satisfy the invariant.
LEMMA InitInv == Init => IInv
<1>. SUFFICES ASSUME Init PROVE IInv
  OBVIOUS
<1>1. HealthWait + LatencyWait + 1 \in Nat
  BY BoundAssumption
<1>2. TypeOK
  BY <1>1 DEF Init, TypeOK
<1>3. CheckInv
  BY DEF Init, CheckInv, OneHealthCheck
<1>4. ShadowsInRequests
  BY DEF Init, ShadowsInRequests
<1>. QED  BY <1>2, <1>3, <1>4 DEF IInv

\* A check that starts is the first one in flight of its provider, and its start is the
\* one the history records.
LEMMA StartChecksInv ==
  ASSUME TypeOK, CheckInv, NEW c \in calls, NEW sample \in SUBSET Checkable(c),
         sample \subseteq Provider, StartChecks(c, sample),
         UNCHANGED lastHealthinessEvaluation
  PROVE  /\ CheckInv'
         /\ \A k \in checks' \ checks : /\ k.session = c.session
                                        /\ k.start - checkedAt[k.provider] > HealthWait
<1>. DEFINE new(p) == [call |-> c.call, provider |-> p, session |-> c.session, start |-> now]
<1>1. checks' = checks \union {new(p) : p \in sample}
  BY DEF StartChecks
<1>2. \A p \in sample : new(p).provider = p /\ new(p).start = now /\ new(p).session = c.session
  OBVIOUS
<1>. HIDE DEF new
<1>3. \A p \in sample : /\ p \notin evaluatingHealthiness
                        /\ now - lastHealthinessEvaluation[p] > HealthWait
  BY DEF Checkable, CheckAllowed
<1>4. \A k \in checks : k.provider \in evaluatingHealthiness /\ k.provider \in Provider
  BY DEF CheckInv, OneHealthCheck, TypeOK, Check
<1>5. (\A j, k \in checks : j.provider = k.provider => j = k)'
  BY <1>1, <1>2, <1>3, <1>4 DEF CheckInv, OneHealthCheck
<1>6. evaluatingHealthiness' = {k.provider : k \in checks'}
  <2>1. evaluatingHealthiness' = evaluatingHealthiness \union sample
    BY DEF StartChecks
  <2>. QED  BY <1>1, <1>2, <2>1 DEF CheckInv, OneHealthCheck
<1>7. (\A p \in Provider \ evaluatingHealthiness : lastHealthinessEvaluation[p] = checkedAt[p])'
  BY DEF StartChecks, CheckInv, TypeOK
<1>8. (\A k \in checks : k.start = checkedAt[k.provider])'
  BY <1>1, <1>2, <1>3, <1>4 DEF StartChecks, CheckInv, TypeOK
<1>9. \A k \in checks' \ checks : /\ k.session = c.session
                                  /\ k.start - checkedAt[k.provider] > HealthWait
  BY <1>1, <1>2, <1>3 DEF CheckInv
<1>. QED  BY <1>5, <1>6, <1>7, <1>8, <1>9 DEF CheckInv, OneHealthCheck

\* The end of a check frees its provider and records the check's start.
LEMMA EndCheckInv ==
  ASSUME TypeOK, CheckInv, NEW k \in checks, EndCheck(k)
  PROVE  CheckInv'
<1>1. k.provider \in Provider /\ k.start = checkedAt[k.provider]
  BY DEF TypeOK, Check, CheckInv
<1>2. /\ checks' = checks \ {k}
      /\ lastHealthinessEvaluation' = [lastHealthinessEvaluation EXCEPT ![k.provider] = k.start]
      /\ evaluatingHealthiness' = evaluatingHealthiness \ {k.provider}
      /\ checkedAt' = checkedAt
  BY DEF EndCheck, RecordCheck
<1>3. OneHealthCheck'
  BY <1>2 DEF CheckInv, OneHealthCheck
<1>4. (\A p \in Provider \ evaluatingHealthiness : lastHealthinessEvaluation[p] = checkedAt[p])'
  BY <1>1, <1>2 DEF CheckInv, TypeOK
<1>5. (\A j \in checks : j.start = checkedAt[j.provider])'
  BY <1>2 DEF CheckInv
<1>. QED  BY <1>3, <1>4, <1>5 DEF CheckInv

\* The steps that touch no health check keep what is known of them.
LEMMA ChecksUntouched ==
  ASSUME CheckInv,
         UNCHANGED <<checks, checkedAt, evaluatingHealthiness, lastHealthinessEvaluation>>
  PROVE  CheckInv'
  BY DEF CheckInv, OneHealthCheck

\* The variables of the health checks.
checkVars == <<checks, checkedAt, evaluatingHealthiness, lastHealthinessEvaluation>>

\* Which steps change them.
LEMMA OtherSteps ==
  ASSUME [Next]_vars
  PROVE  \/ \E c \in calls, answered \in BOOLEAN : Answer(c, answered)
         \/ \E k \in checks : EndCheck(k)
         \/ UNCHANGED checkVars /\ probes' \subseteq probes
<1>. USE DEF checkVars, single, shadow
<1>1. ASSUME NEW s \in Session, Attach(s) PROVE UNCHANGED checkVars /\ probes' = probes
  BY <1>1 DEF Attach
<1>2. ASSUME NEW given \in Session \union {None}, NEW m \in Method, Begin(given, m)
      PROVE  UNCHANGED checkVars /\ probes' = probes
  BY <1>2 DEF Begin
<1>3. ASSUME NEW k \in probes, NEW answered \in BOOLEAN, EndProbe(k, answered)
      PROVE  UNCHANGED checkVars /\ probes' \subseteq probes
  BY <1>3 DEF EndProbe
<1>4. ASSUME NEW p \in Provider, SetHealthiness(p)
      PROVE  UNCHANGED checkVars /\ probes' = probes
  BY <1>4 DEF SetHealthiness
<1>5. ASSUME Tick PROVE UNCHANGED checkVars /\ probes' = probes
  BY <1>5 DEF Tick
<1>6. ASSUME UNCHANGED vars PROVE UNCHANGED checkVars /\ probes' = probes
  BY <1>6 DEF vars
<1>. QED  BY <1>1, <1>2, <1>3, <1>4, <1>5, <1>6 DEF Next

\* Every step preserves what is known of the health checks, and spaces them.
LEMMA NextChecks ==
  ASSUME TypeOK, CheckInv, [Next]_vars
  PROVE  /\ CheckInv'
         /\ \A k \in checks' \ checks : k.start - checkedAt[k.provider] > HealthWait
<1>1. ASSUME NEW c \in calls, NEW answered \in BOOLEAN, Answer(c, answered)
      PROVE  /\ CheckInv'
             /\ \A k \in checks' \ checks : k.start - checkedAt[k.provider] > HealthWait
  <2>1. PICK others \in SUBSET Provider, sample \in SUBSET Checkable(c) :
          sample \subseteq Provider /\ StartChecks(c, sample)
    BY <1>1, AnswerStarts
  <2>2. UNCHANGED lastHealthinessEvaluation
    BY <1>1 DEF Answer
  <2>. QED  BY <2>1, <2>2, StartChecksInv
<1>2. ASSUME NEW k \in checks, EndCheck(k)
      PROVE  CheckInv' /\ checks' \subseteq checks
  BY <1>2, EndCheckInv DEF EndCheck
<1>3. ASSUME UNCHANGED checkVars PROVE CheckInv' /\ checks' = checks
  BY <1>3, ChecksUntouched DEF checkVars
<1>. QED  BY <1>1, <1>2, <1>3, OtherSteps

\* Every shadow call that starts belongs to a session.
LEMMA NextShadows ==
  ASSUME TypeOK, ShadowsInRequests, [Next]_vars
  PROVE  ShadowsInRequests'
<1>1. ASSUME NEW c \in calls, NEW answered \in BOOLEAN, Answer(c, answered)
      PROVE  ShadowsInRequests'
  <2>1. PICK others \in SUBSET Provider, sample \in SUBSET Checkable(c) :
          /\ c.session = None => others = {} /\ sample = {}
          /\ StartProbes(c, answered, others)
          /\ StartChecks(c, sample)
    BY <1>1, AnswerStarts
  <2>2. \A k \in checks' : k \in checks \/ (k.session = c.session /\ sample # {})
    BY <2>1 DEF StartChecks
  <2>3. \A k \in probes' : k \in probes \/ (k.session = c.session /\ others # {})
    BY <2>1 DEF StartProbes
  <2>. QED  BY <2>1, <2>2, <2>3 DEF ShadowsInRequests
<1>2. ASSUME NEW k \in checks, EndCheck(k) PROVE ShadowsInRequests'
  BY <1>2 DEF EndCheck, ShadowsInRequests
<1>3. ASSUME UNCHANGED checkVars, probes' \subseteq probes PROVE ShadowsInRequests'
  BY <1>3 DEF checkVars, ShadowsInRequests
<1>. QED  BY <1>1, <1>2, <1>3, OtherSteps

-----------------------------------------------------------------------------
(* The theorems.                                                           *)

LEMMA Invariance == Spec => []IInv
<1>1. IInv /\ [Next]_vars => IInv'
  BY NextType, NextChecks, NextShadows DEF IInv
<1>. QED  BY InitInv, <1>1, PTL DEF Spec

\* The gateway's variables keep their types.
THEOREM TypeCorrect == Spec => []TypeOK
<1>1. IInv => TypeOK
  BY DEF IInv
<1>. QED  BY Invariance, <1>1, PTL

\* No interleaving of answers lets two health checks of a provider overlap, leaves the
\* flag set when none is in flight or clears it while one is.
THEOREM ChecksExclusive == Spec => []OneHealthCheck
<1>1. IInv => OneHealthCheck
  BY DEF IInv, CheckInv
<1>. QED  BY Invariance, <1>1, PTL

\* Shadow calls follow only calls that belong to a session.
THEOREM ShadowsOnlyInRequests == Spec => []ShadowsInRequests
<1>1. IInv => ShadowsInRequests
  BY DEF IInv
<1>. QED  BY Invariance, <1>1, PTL

\* Two health checks of a provider begin more than the wait period apart.
THEOREM ChecksSpaced == Spec => HealthChecksSpaced
<1>1. IInv /\ [Next]_vars
        => [\A k \in checks' \ checks : k.start - checkedAt[k.provider] > HealthWait]_vars
  BY NextChecks DEF IInv
<1>. QED  BY Invariance, <1>1, PTL DEF Spec, HealthChecksSpaced

-----------------------------------------------------------------------------
(* The sessions.  The cache has the provider of a session's last call, or  *)
(* the session was dropped for others that were used since; stamps order   *)
(* what was used when.                                                     *)

StampInv ==
  /\ \A s \in Session : /\ lastCall[s] <= usedAt[s] /\ usedAt[s] <= lastTry[s]
                        /\ lastTry[s] <= made
  /\ \A s, t \in Cached : usedAt[s] = usedAt[t] => s = t

Dropped(s) == Cardinality(MoreRecent(s)) >= MaxSessions

SessionInv ==
  /\ StampInv
  /\ \A s \in Cached : sessionCache[s] = served[s]
  /\ \A s \in Session \ Cached : served[s] # None => Dropped(s)

\* The sessions more recent than one are finitely many.
LEMMA MoreRecentFinite ==
  ASSUME NEW s
  PROVE  /\ IsFiniteSet(MoreRecent(s)) /\ Cardinality(MoreRecent(s)) \in Nat
         /\ \A T \in SUBSET MoreRecent(s) :
              IsFiniteSet(T) /\ Cardinality(T) <= Cardinality(MoreRecent(s))
<1>1. MoreRecent(s) \in SUBSET Session
  BY DEF MoreRecent
<1>2. IsFiniteSet(MoreRecent(s))
  BY <1>1, SessionAssumption, FS_Subset
<1>. QED  BY <1>2, FS_CardinalityType, FS_Subset

\* A session that was dropped stays so until its next call is sent.
LEMMA StaysDropped ==
  ASSUME TypeOK, NEW s \in Session, Dropped(s), lastCall'[s] = lastCall[s],
         \A t \in Session : lastTry'[t] \in Nat /\ lastTry'[t] >= lastTry[t]
  PROVE  Dropped(s)'
<1>1. ASSUME NEW t \in MoreRecent(s)
      PROVE  t \in (MoreRecent(s))'
  <2>1. t \in Session /\ t # s /\ lastTry[t] > lastCall[s]
    BY DEF MoreRecent
  <2>2. /\ lastTry[t] \in Nat /\ lastCall[s] \in Nat
        /\ lastTry'[t] \in Nat /\ lastTry'[t] >= lastTry[t]
    BY <2>1 DEF TypeOK
  <2>3. lastTry'[t] > lastCall'[s]
    BY <2>1, <2>2
  <2>. QED  BY <2>1, <2>3 DEF MoreRecent
<1>2. /\ IsFiniteSet((MoreRecent(s))')
      /\ Cardinality((MoreRecent(s))') \in Nat
  <2>1. (MoreRecent(s))' \in SUBSET Session
    BY DEF MoreRecent
  <2>. QED  BY <2>1, SessionAssumption, FS_Subset, FS_CardinalityType
<1>3. Cardinality(MoreRecent(s)) <= Cardinality((MoreRecent(s))')
  BY <1>1, <1>2, FS_Subset
<1>4. Cardinality(MoreRecent(s)) \in Nat /\ MaxSessions \in Nat
  BY MoreRecentFinite, BoundAssumption
<1>. QED  BY <1>2, <1>3, <1>4 DEF Dropped

\* The stamps of a call of session s are later than any other.
LEMMA StampStep ==
  ASSUME TypeOK, StampInv, NEW s \in Session,
         made' = made + 1, lastTry' = [lastTry EXCEPT ![s] = made + 1],
         \/ usedAt' = usedAt /\ lastCall' = lastCall
         \/ /\ usedAt' = [usedAt EXCEPT ![s] = made + 1]
            /\ lastCall' \in {lastCall, [lastCall EXCEPT ![s] = made + 1]},
         (Cached)' \subseteq Cached \union {s},
         s \in (Cached)' \ Cached => usedAt'[s] = made + 1
  PROVE  StampInv'
<1>. DEFINE new == made + 1
<1>1. new \in Nat /\ made \in Nat /\ made < new
  BY DEF TypeOK
<1>2. \A t \in Session : /\ lastCall[t] \in Nat /\ usedAt[t] \in Nat /\ lastTry[t] \in Nat
                         /\ lastCall[t] <= usedAt[t] /\ usedAt[t] <= lastTry[t]
                         /\ lastTry[t] <= made
  BY DEF TypeOK, StampInv
<1>3. /\ lastTry'[s] = new /\ usedAt'[s] \in {usedAt[s], new} /\ lastCall'[s] \in {lastCall[s], new}
      /\ lastCall'[s] = new => usedAt'[s] = new \/ lastCall[s] = new
      /\ \A t \in Session \ {s} :
           lastCall'[t] = lastCall[t] /\ usedAt'[t] = usedAt[t] /\ lastTry'[t] = lastTry[t]
  BY DEF TypeOK
<1>. HIDE DEF new
<1>4. \A t \in Session : /\ lastCall'[t] <= usedAt'[t] /\ usedAt'[t] <= lastTry'[t]
                         /\ lastTry'[t] <= new
  BY <1>1, <1>2, <1>3
<1>5. ASSUME NEW t \in (Cached)', NEW u \in (Cached)', usedAt'[t] = usedAt'[u]  PROVE t = u
  <2>1. t \in Session /\ u \in Session /\ Cached \subseteq Session
    BY DEF Cached
  <2>2. CASE t # s /\ u # s
    BY <1>3, <1>5, <2>1, <2>2 DEF StampInv
  <2>3. ASSUME NEW x \in Session, x \in (Cached)', x # s, usedAt'[x] = usedAt'[s], s \in (Cached)'
        PROVE  FALSE
    <3>1. usedAt'[x] = usedAt[x] /\ usedAt[x] < new /\ x \in Cached
      BY <1>1, <1>2, <1>3, <2>3
    <3>2. usedAt'[s] = usedAt[s] /\ s \in Cached
      BY <1>3, <2>3, <3>1 DEF new
    <3>. QED  BY <2>3, <3>1, <3>2 DEF StampInv
  <2>4. CASE t = s /\ u # s
    BY <1>5, <2>1, <2>3, <2>4
  <2>5. CASE u = s /\ t # s
    BY <1>5, <2>1, <2>3, <2>5
  <2>. QED  BY <2>2, <2>4, <2>5
<1>6. made' = new
  BY DEF new
<1>. QED  BY <1>4, <1>5, <1>6 DEF StampInv

\* Whom the least recently used session makes room for: it was used before as many others as
\* the cache holds.
LEMMA EvictedDropped ==
  ASSUME TypeOK, StampInv, NEW s \in Session, NEW x \in Evicted(s),
         lastTry' = [lastTry EXCEPT ![s] = made + 1], lastCall'[x] = lastCall[x]
  PROVE  Dropped(x)'
<1>1. /\ s \notin Cached /\ ~ (Cardinality(Cached) < MaxSessions)
      /\ x \in Cached /\ \A u \in Cached : usedAt[x] <= usedAt[u]
  BY DEF Evicted
<1>2. Cached \in SUBSET Session /\ IsFiniteSet(Cached) /\ Cardinality(Cached) \in Nat
  <2>1. Cached \in SUBSET Session
    BY DEF Cached
  <2>. QED  BY <2>1, SessionAssumption, FS_Subset, FS_CardinalityType
<1>. DEFINE others == (Cached \ {x}) \union {s}
<1>3. IsFiniteSet(others) /\ Cardinality(others) = Cardinality(Cached)
  <2>1. IsFiniteSet(Cached \ {x}) /\ Cardinality(Cached \ {x}) = Cardinality(Cached) - 1
    BY <1>1, <1>2, FS_RemoveElement
  <2>. DEFINE rest == Cached \ {x}
  <2>2. s \notin rest /\ others = rest \union {s}
    BY <1>1
  <2>3. IsFiniteSet(rest) /\ Cardinality(rest) = Cardinality(Cached) - 1
    BY <2>1
  <2>. HIDE DEF rest, others
  <2>4. IsFiniteSet(others) /\ Cardinality(others) = Cardinality(rest) + 1
    BY <2>2, <2>3, FS_AddElement
  <2>. QED  BY <1>2, <2>3, <2>4
<1>4. ASSUME NEW u \in others  PROVE u \in (MoreRecent(x))'
  <2>1. /\ lastCall[x] \in Nat /\ lastCall[x] <= usedAt[x] /\ usedAt[x] <= lastTry[x]
        /\ lastTry[x] <= made /\ usedAt[x] \in Nat /\ lastTry[x] \in Nat /\ made \in Nat
    BY <1>1, <1>2 DEF TypeOK, StampInv
  <2>2. CASE u = s
    <3>1. u \in Session /\ u # x /\ lastTry'[u] = made + 1
      BY <1>1, <2>2 DEF TypeOK
    <3>2. lastTry'[u] > lastCall'[x]
      BY <2>1, <3>1
    <3>. QED  BY <3>1, <3>2 DEF MoreRecent
  <2>3. CASE u # s
    <3>1. u \in Cached /\ u \in Session /\ u # x /\ lastTry'[u] = lastTry[u]
      BY <1>2, <2>3 DEF TypeOK
    <3>2. usedAt[u] # usedAt[x] /\ usedAt[x] <= usedAt[u]
      BY <1>1, <3>1 DEF StampInv
    <3>3. usedAt[u] <= lastTry[u] /\ usedAt[u] \in Nat /\ lastTry[u] \in Nat
      BY <3>1 DEF StampInv, TypeOK
    <3>4. lastTry'[u] > lastCall'[x]
      BY <2>1, <3>1, <3>2, <3>3
    <3>. QED  BY <3>1, <3>4 DEF MoreRecent
  <2>. QED  BY <2>2, <2>3
<1>5. /\ IsFiniteSet((MoreRecent(x))') /\ Cardinality((MoreRecent(x))') \in Nat
  <2>1. (MoreRecent(x))' \in SUBSET Session
    BY DEF MoreRecent
  <2>. QED  BY <2>1, SessionAssumption, FS_Subset, FS_CardinalityType
<1>. HIDE DEF others
<1>6. Cardinality(others) <= Cardinality((MoreRecent(x))')
  BY <1>4, <1>5, FS_Subset
<1>7. MaxSessions \in Nat
  BY BoundAssumption
<1>. QED  BY <1>1, <1>2, <1>3, <1>5, <1>6, <1>7 DEF Dropped

\* What a call of session s may do to the cache and the history.
LEMMA BeginUses ==
  ASSUME TypeOK, NEW given \in Session \union {None}, NEW m \in Method, Begin(given, m)
  PROVE  LET s == IF attachedSessionId = None THEN given ELSE attachedSessionId
         IN  \/ /\ s = None
                /\ UNCHANGED session /\ made' = made + 1
             \/ /\ s \in Session /\ s \in Cached
                /\ sessionCache' = sessionCache /\ usedAt' = [usedAt EXCEPT ![s] = made + 1]
                /\ \/ UNCHANGED <<served, lastCall>>
                   \/ /\ served' = [served EXCEPT ![s] = sessionCache[s]]
                      /\ lastCall' = [lastCall EXCEPT ![s] = made + 1]
             \/ /\ s \in Session /\ s \notin Cached
                /\ UNCHANGED <<sessionCache, usedAt, served, lastCall>>
             \/ /\ s \in Session
                /\ \E p \in Provider :
                     /\ Remember(s, p)
                     /\ served' = [served EXCEPT ![s] = p]
                     /\ lastCall' = [lastCall EXCEPT ![s] = made + 1]
<1>. DEFINE s == IF attachedSessionId = None THEN given ELSE attachedSessionId
<1>1. s \in Session \union {None} /\ Cached \subseteq Session /\ None \notin Session
  BY SessionAssumption DEF TypeOK, Cached
<1>2. /\ made' = made + 1
      /\ lastTry' = IF s = None THEN lastTry ELSE [lastTry EXCEPT ![s] = made + 1]
  BY DEF Begin
<1>3. CASE StickToProvider(s, m)
  <2>1. s \in Cached /\ s # None
    BY <1>1, <1>3 DEF StickToProvider
  <2>. HIDE DEF s
  <2>2. /\ sessionCache' = sessionCache /\ usedAt' = [usedAt EXCEPT ![s] = made + 1]
        /\ served' = [served EXCEPT ![s] = sessionCache[s]]
        /\ lastCall' = [lastCall EXCEPT ![s] = made + 1]
    BY <1>3, <2>1 DEF StickToProvider, Send, Touched
  <2>. QED  BY <1>1, <2>1, <2>2 DEF s
<1>4. CASE RefuseFallback(s)
  <2>1. s \in Cached
    BY <1>4 DEF RefuseFallback
  <2>. HIDE DEF s
  <2>2. /\ sessionCache' = sessionCache /\ usedAt' = [usedAt EXCEPT ![s] = made + 1]
        /\ UNCHANGED <<served, lastCall>>
    BY <1>4, <2>1 DEF RefuseFallback, Touched
  <2>. QED  BY <1>1, <2>1, <2>2 DEF s
<1>5. CASE NoProvider(s)
  <2>1. CASE s \in Cached
    <3>. HIDE DEF s
    <3>1. /\ sessionCache' = sessionCache /\ usedAt' = [usedAt EXCEPT ![s] = made + 1]
          /\ UNCHANGED <<served, lastCall>>
      BY <1>5, <2>1 DEF NoProvider, Touched
    <3>. QED  BY <1>1, <2>1, <3>1 DEF s
  <2>2. CASE s \notin Cached
    <3>. HIDE DEF s
    <3>1. UNCHANGED <<sessionCache, usedAt, served, lastCall>>
      BY <1>5, <2>2 DEF NoProvider, Touched
    <3>2. s = None => UNCHANGED session
      BY <1>2, <3>1 DEF session
    <3>. QED  BY <1>1, <1>2, <2>2, <3>1, <3>2 DEF s
  <2>. QED  BY <2>1, <2>2
<1>6. CASE ChooseProvider(s, m)
  <2>. HIDE DEF s
  <2>1. PICK p \in Selectable[healthy] :
          /\ Send(s, m, p)
          /\ IF s = None THEN UNCHANGED <<sessionCache, usedAt>> ELSE Remember(s, p)
    BY <1>6 DEF ChooseProvider
  <2>2. p \in Provider
    BY SelectableType DEF TypeOK
  <2>3. CASE s = None
    BY <1>2, <2>1, <2>3 DEF Send, session, s
  <2>4. CASE s # None
    <3>1. /\ s \in Session /\ Remember(s, p)
          /\ served' = [served EXCEPT ![s] = p]
          /\ lastCall' = [lastCall EXCEPT ![s] = made + 1]
      BY <1>1, <2>1, <2>4 DEF Send
    <3>. QED  BY <2>2, <3>1 DEF s
  <2>. QED  BY <2>3, <2>4
<1>. QED  BY <1>3, <1>4, <1>5, <1>6 DEF Begin

\* A call keeps the session invariant.
LEMMA BeginSession ==
  ASSUME TypeOK, TypeOK', SessionInv, NEW given \in Session \union {None}, NEW m \in Method,
         Begin(given, m)
  PROVE  SessionInv'
<1>. DEFINE s == IF attachedSessionId = None THEN given ELSE attachedSessionId
<1>1. /\ made' = made + 1 /\ made \in Nat
      /\ s # None => lastTry' = [lastTry EXCEPT ![s] = made + 1]
  BY DEF Begin, TypeOK
<1>2. s \in Session \union {None} /\ None \notin Session \union Provider
  BY SessionAssumption DEF TypeOK
<1>3. \/ s = None /\ UNCHANGED session
      \/ /\ s \in Session /\ s \in Cached
         /\ sessionCache' = sessionCache /\ usedAt' = [usedAt EXCEPT ![s] = made + 1]
         /\ \/ UNCHANGED <<served, lastCall>>
            \/ /\ served' = [served EXCEPT ![s] = sessionCache[s]]
               /\ lastCall' = [lastCall EXCEPT ![s] = made + 1]
      \/ /\ s \in Session /\ s \notin Cached
         /\ UNCHANGED <<sessionCache, usedAt, served, lastCall>>
      \/ /\ s \in Session
         /\ \E p \in Provider : /\ Remember(s, p)
                                /\ served' = [served EXCEPT ![s] = p]
                                /\ lastCall' = [lastCall EXCEPT ![s] = made + 1]
  BY BeginUses DEF s
<1>. HIDE DEF s
<1>4. CASE s = None /\ UNCHANGED session
  <2>1. UNCHANGED <<sessionCache, usedAt, served, lastCall, lastTry>>
    BY <1>4 DEF session
  <2>. QED  BY <1>1, <2>1 DEF SessionInv, StampInv, Dropped, MoreRecent, Cached, TypeOK
<1>5. ASSUME s \in Session, NEW t \in Session, Dropped(t), lastCall'[t] = lastCall[t]
      PROVE  Dropped(t)'
  <2>1. lastTry' = [lastTry EXCEPT ![s] = made + 1]
    BY <1>1, <1>2, <1>5
  <2>2. \A u \in Session : /\ lastTry[u] \in Nat /\ lastTry[u] <= made
                           /\ lastTry'[u] = IF u = s THEN made + 1 ELSE lastTry[u]
    BY <2>1 DEF TypeOK, SessionInv, StampInv
  <2>3. \A u \in Session : lastTry'[u] \in Nat /\ lastTry'[u] >= lastTry[u]
    BY <1>1, <2>2
  <2>. QED  BY <1>5, <2>3, StaysDropped
<1>6. CASE /\ s \in Session /\ s \in Cached
           /\ sessionCache' = sessionCache /\ usedAt' = [usedAt EXCEPT ![s] = made + 1]
           /\ \/ UNCHANGED <<served, lastCall>>
              \/ /\ served' = [served EXCEPT ![s] = sessionCache[s]]
                 /\ lastCall' = [lastCall EXCEPT ![s] = made + 1]
  <2>1. (Cached)' = Cached
    BY <1>6 DEF Cached
  <2>2. StampInv'
    <3>1. lastTry' = [lastTry EXCEPT ![s] = made + 1]
      BY <1>1, <1>2, <1>6
    <3>. QED  BY <1>1, <1>6, <2>1, <3>1, StampStep DEF SessionInv
  <2>3. \A t \in (Cached)' : sessionCache'[t] = served'[t]
    <3>1. \A t \in Cached : sessionCache[t] = served[t] /\ t \in Session
      BY DEF SessionInv, Cached
    <3>2. \A t \in Cached : served'[t] = IF t = s THEN sessionCache[s] ELSE served[t]
      BY <1>6, <3>1 DEF TypeOK
    <3>. QED  BY <1>6, <2>1, <3>1, <3>2
  <2>4. ASSUME NEW t \in Session \ (Cached)', served'[t] # None  PROVE Dropped(t)'
    <3>1. t # s /\ t \notin Cached
      BY <1>6, <2>1
    <3>2. served'[t] = served[t] /\ lastCall'[t] = lastCall[t]
      BY <1>6, <3>1 DEF TypeOK
    <3>. QED  BY <1>5, <1>6, <2>4, <3>1, <3>2 DEF SessionInv
  <2>. QED  BY <2>2, <2>3, <2>4 DEF SessionInv
<1>7. CASE /\ s \in Session /\ s \notin Cached
           /\ UNCHANGED <<sessionCache, usedAt, served, lastCall>>
  <2>1. (Cached)' = Cached
    BY <1>7 DEF Cached
  <2>2. StampInv'
    <3>1. lastTry' = [lastTry EXCEPT ![s] = made + 1]
      BY <1>1, <1>2, <1>7
    <3>. QED  BY <1>1, <1>7, <2>1, <3>1, StampStep DEF SessionInv
  <2>3. \A t \in (Cached)' : sessionCache'[t] = served'[t]
    BY <1>7, <2>1 DEF SessionInv
  <2>4. ASSUME NEW t \in Session \ (Cached)', served'[t] # None  PROVE Dropped(t)'
    BY <1>5, <1>7, <2>1, <2>4 DEF SessionInv
  <2>. QED  BY <2>2, <2>3, <2>4 DEF SessionInv
<1>8. ASSUME s \in Session, NEW p \in Provider, Remember(s, p),
             served' = [served EXCEPT ![s] = p],
             lastCall' = [lastCall EXCEPT ![s] = made + 1]
      PROVE  SessionInv'
  <2>1. \A t \in Session :
          sessionCache'[t] =
            IF t = s THEN p ELSE IF t \in Evicted(s) THEN None ELSE sessionCache[t]
    BY <1>8 DEF Remember
  <2>2. usedAt' = [usedAt EXCEPT ![s] = made + 1] /\ usedAt'[s] = made + 1
    BY <1>8 DEF Remember, TypeOK
  <2>3. (Cached)' = (Cached \ Evicted(s)) \union {s}
    <3>1. s \notin Evicted(s)
      BY DEF Evicted
    <3>. QED  BY <1>2, <1>8, <2>1, <3>1 DEF Cached
  <2>4. lastTry' = [lastTry EXCEPT ![s] = made + 1]
    BY <1>1, <1>2, <1>8
  <2>5. StampInv'
    BY <1>1, <1>8, <2>2, <2>3, <2>4, StampStep DEF SessionInv
  <2>6. \A t \in Session : /\ served'[t] = IF t = s THEN p ELSE served[t]
                           /\ t # s => lastCall'[t] = lastCall[t]
    BY <1>8 DEF TypeOK
  <2>7. ASSUME NEW t \in (Cached)'  PROVE sessionCache'[t] = served'[t]
    <3>1. t \in Session /\ (t = s \/ (t \in Cached /\ t \notin Evicted(s)))
      BY <1>8, <2>3 DEF Cached
    <3>. QED  BY <2>1, <2>6, <3>1 DEF SessionInv
  <2>8. ASSUME NEW t \in Session \ (Cached)', served'[t] # None  PROVE Dropped(t)'
    <3>1. t # s /\ (t \in Evicted(s) \/ t \notin Cached)
      BY <2>3
    <3>2. served[t] # None /\ lastCall'[t] = lastCall[t]
      BY <2>6, <2>8, <3>1
    <3>3. CASE t \in Evicted(s)
      BY <1>8, <2>4, <3>2, <3>3, EvictedDropped DEF SessionInv
    <3>4. CASE t \notin Cached
      BY <1>5, <1>8, <3>2, <3>4 DEF SessionInv
    <3>. QED  BY <3>1, <3>3, <3>4
  <2>. QED  BY <2>5, <2>7, <2>8 DEF SessionInv
<1>. QED  BY <1>3, <1>4, <1>6, <1>7, <1>8

\* Only a call moves the sessions.
LEMMA SessionsUntouched ==
  ASSUME [Next]_vars, \A given \in Session \union {None}, m \in Method : ~ Begin(given, m)
  PROVE  UNCHANGED <<session, made>> /\ calls' \subseteq calls
<1>1. ASSUME NEW t \in Session, Attach(t) PROVE UNCHANGED <<session, made, calls>>
  BY <1>1 DEF Attach
<1>2. ASSUME NEW c \in calls, NEW answered \in BOOLEAN, Answer(c, answered)
      PROVE  UNCHANGED <<session, made>> /\ calls' \subseteq calls
  BY <1>2 DEF Answer
<1>3. ASSUME NEW k \in checks, EndCheck(k) PROVE UNCHANGED <<session, made, calls>>
  BY <1>3 DEF EndCheck
<1>4. ASSUME NEW k \in probes, NEW answered \in BOOLEAN, EndProbe(k, answered)
      PROVE  UNCHANGED <<session, made, calls>>
  BY <1>4 DEF EndProbe
<1>5. ASSUME NEW p \in Provider, SetHealthiness(p) PROVE UNCHANGED <<session, made, calls>>
  BY <1>5 DEF SetHealthiness
<1>6. CASE Tick
  BY <1>6 DEF Tick
<1>7. CASE UNCHANGED vars
  BY <1>7 DEF vars
<1>. QED  BY <1>1, <1>2, <1>3, <1>4, <1>5, <1>6, <1>7 DEF Next

LEMMA InitSession ==
  ASSUME Init
  PROVE  SessionInv
<1>1. /\ \A s \in Session : sessionCache[s] = None /\ served[s] = None /\ usedAt[s] = 0
      /\ \A s \in Session : lastCall[s] = 0 /\ lastTry[s] = 0
      /\ made = 0
  BY DEF Init
<1>2. Cached = {}
  BY <1>1 DEF Cached
<1>. QED  BY <1>1, <1>2 DEF SessionInv, StampInv

LEMMA NextSession ==
  ASSUME TypeOK, TypeOK', SessionInv, [Next]_vars
  PROVE  SessionInv'
<1>1. CASE \A given \in Session \union {None}, m \in Method : ~ Begin(given, m)
  <2>1. UNCHANGED <<sessionCache, usedAt, served, lastCall, lastTry, made>>
    BY <1>1, SessionsUntouched DEF session
  <2>. QED  BY <2>1 DEF SessionInv, StampInv, Dropped, MoreRecent, Cached
<1>. QED  BY <1>1, BeginSession

\* A new call of a session that was not dropped goes to the provider of its last one, where
\* that is healthy or must be kept.
LEMMA BeginSticks ==
  ASSUME TypeOK, SessionInv, NEW given \in Session \union {None}, NEW m \in Method,
         Begin(given, m), NEW c \in calls' \ calls,
         c.session # None, served[c.session] # None,
         Cardinality(MoreRecent(c.session)) < MaxSessions,
         served[c.session] \in healthy \/ ~ sessionAllowProviderFallbackWhenUnhealthy
  PROVE  c.provider = served[c.session]
<1>. DEFINE s == IF attachedSessionId = None THEN given ELSE attachedSessionId
<1>1. \/ StickToProvider(s, m)
      \/ RefuseFallback(s)
      \/ ChooseProvider(s, m)
      \/ NoProvider(s)
  BY DEF Begin
<1>2. s \in Session \union {None}
  BY DEF TypeOK
<1>. HIDE DEF s
<1>3. ASSUME NEW p, Send(s, m, p)  PROVE c.session = s /\ c.provider = p
  BY <1>3 DEF Send
<1>4. CASE StickToProvider(s, m)
  <2>1. s \in Cached /\ Send(s, m, sessionCache[s])
    BY <1>4 DEF StickToProvider
  <2>. QED  BY <1>3, <2>1 DEF SessionInv
<1>5. CASE RefuseFallback(s) \/ NoProvider(s)
  BY <1>5 DEF RefuseFallback, NoProvider
<1>6. CASE ChooseProvider(s, m)
  <2>1. c.session = s
    BY <1>3, <1>6 DEF ChooseProvider
  <2>2. Cardinality(MoreRecent(s)) \in Nat /\ MaxSessions \in Nat
    BY MoreRecentFinite, BoundAssumption
  <2>3. s \in Cached
    BY <1>2, <2>1, <2>2 DEF SessionInv, Dropped
  <2>4. served[s] \notin healthy /\ sessionAllowProviderFallbackWhenUnhealthy
    BY <1>6, <2>3 DEF ChooseProvider, FreeToChoose, SessionInv
  <2>. QED  BY <2>1, <2>4
<1>. QED  BY <1>1, <1>4, <1>5, <1>6

\* A session stays on its provider while that is healthy, or fallback is not allowed, until as
\* many others as the cache holds were used.
THEOREM SessionsStick == Spec => SessionSticks
<1>1. Init => IInv /\ SessionInv
  BY InitInv, InitSession
<1>2. IInv /\ SessionInv /\ [Next]_vars => IInv' /\ SessionInv'
  <2>1. IInv /\ [Next]_vars => IInv'
    BY NextType, NextChecks, NextShadows DEF IInv
  <2>. QED  BY <2>1, NextSession DEF IInv
<1>3. IInv /\ SessionInv /\ [Next]_vars
        => [\A c \in NewCalls :
              c.session # None /\ served[c.session] # None
                /\ Cardinality(MoreRecent(c.session)) < MaxSessions
                /\ (served[c.session] \in healthy \/ ~ sessionAllowProviderFallbackWhenUnhealthy)
              => c.provider = served[c.session]]_vars
  BY BeginSticks, SessionsUntouched DEF IInv, NewCalls
<1>. QED  BY <1>1, <1>2, <1>3, PTL DEF Spec, SessionSticks
-----------------------------------------------------------------------------
(* The sum of weights.  It is a recursive function on the subsets of a set *)
(* that takes one element at a time; each fact about it is shown for a     *)
(* subset that is a smallest counterexample.                               *)

\* Among sets of providers some are smallest.
LEMMA SmallestSet ==
  ASSUME NEW F \in SUBSET (SUBSET Provider), F # {}
  PROVE  \E S \in F : \A T \in F : T \subseteq S => T = S
<1>1. FiniteSubsetsOf(Provider) = SUBSET Provider
  BY ProviderAssumption, FS_FiniteSubsetsOfFinite
<1>2. IsWellFoundedOn(StrictSubsetOrdering(Provider), SUBSET Provider)
  BY <1>1, FS_StrictSubsetOrderingWellFounded
<1>3. PICK S \in F : \A T \in F : ~ (<<T, S>> \in StrictSubsetOrdering(Provider))
  BY <1>2, WFMin
<1>4. ASSUME NEW T \in F, T \subseteq S  PROVE T = S
  BY <1>3, <1>4 DEF StrictSubsetOrdering
<1>. QED  BY <1>3, <1>4

Pick(S) == CHOOSE x \in S : TRUE

LEMMA PickType == ASSUME NEW S, S # {} PROVE Pick(S) \in S
BY DEF Pick

\* What the sum is defined to be.
Sums(g, S) ==
  g = [T \in SUBSET S |->
         IF T = {} THEN 0 ELSE EffectiveWeight(Pick(T)) + g[T \ {Pick(T)}]]

LEMMA SumChosen ==
  ASSUME NEW S
  PROVE  UrlWeightSum(S) = (CHOOSE g : Sums(g, S))[S]
BY DEF UrlWeightSum, MapThenSumSet, MapThenFoldSet, Sums, Pick

\* The sums of a set do not depend on the set they are taken in.
LEMMA SumsUnique ==
  ASSUME NEW S \in SUBSET Provider, NEW T \in SUBSET Provider, NEW g, NEW h,
         Sums(g, S), Sums(h, T)
  PROVE  \A U \in SUBSET (S \cap T) : g[U] = h[U]
<1>. DEFINE F == {U \in SUBSET (S \cap T) : g[U] # h[U]}
<1>. SUFFICES ASSUME F # {} PROVE FALSE
  OBVIOUS
<1>1. F \in SUBSET (SUBSET Provider)
  OBVIOUS
<1>2. PICK U \in F : \A V \in F : V \subseteq U => V = U
  <2>. HIDE DEF F
  <2>. QED  BY <1>1, SmallestSet
<1>3. U \in SUBSET S /\ U \in SUBSET T
  OBVIOUS
<1>4. /\ g[U] = IF U = {} THEN 0 ELSE EffectiveWeight(Pick(U)) + g[U \ {Pick(U)}]
      /\ h[U] = IF U = {} THEN 0 ELSE EffectiveWeight(Pick(U)) + h[U \ {Pick(U)}]
  BY <1>3 DEF Sums
<1>5. CASE U = {}
  BY <1>4, <1>5
<1>6. CASE U # {}
  <2>1. Pick(U) \in U
    BY <1>6, PickType
  <2>2. U \ {Pick(U)} \notin F
    BY <1>2, <2>1
  <2>3. g[U \ {Pick(U)}] = h[U \ {Pick(U)}]
    BY <1>3, <2>2
  <2>. QED  BY <1>4, <1>6, <2>3
<1>. QED  BY <1>5, <1>6

\* There are sums.
LEMMA SumsExist ==
  ASSUME NEW S \in SUBSET Provider
  PROVE  \E g : Sums(g, S)
<1>. DEFINE F == {T \in SUBSET Provider : ~ \E g : Sums(g, T)}
<1>. SUFFICES ASSUME F # {} PROVE FALSE
  OBVIOUS
<1>1. F \in SUBSET (SUBSET Provider)
  OBVIOUS
<1>2. PICK T \in F : \A V \in F : V \subseteq T => V = T
  <2>. HIDE DEF F
  <2>. QED  BY <1>1, SmallestSet
<1>. DEFINE Rest(V) == V \ {Pick(V)}
            g == [V \in SUBSET T |->
                    IF V = {} THEN 0 ELSE EffectiveWeight(Pick(V)) + UrlWeightSum(Rest(V))]
<1>3. ASSUME NEW V \in SUBSET T, V # T
      PROVE  \E h : Sums(h, V) /\ UrlWeightSum(V) = h[V]
  <2>1. \E h : Sums(h, V)
    BY <1>2, <1>3
  <2>2. Sums(CHOOSE h : Sums(h, V), V)
    BY <2>1
  <2>. QED  BY <2>2, SumChosen
<1>4. ASSUME NEW V \in SUBSET T, V # T
      PROVE  UrlWeightSum(V) = IF V = {} THEN 0
                               ELSE EffectiveWeight(Pick(V)) + UrlWeightSum(Rest(V))
  <2>1. PICK h : Sums(h, V) /\ UrlWeightSum(V) = h[V]
    BY <1>3, <1>4
  <2>2. h[V] = IF V = {} THEN 0 ELSE EffectiveWeight(Pick(V)) + h[Rest(V)]
    BY <2>1 DEF Sums
  <2>3. CASE V # {}
    <3>1. Rest(V) \in SUBSET V /\ Rest(V) # T /\ Rest(V) \in SUBSET T
      BY <1>4, <2>3, PickType
    <3>. HIDE DEF Rest
    <3>2. PICK k : Sums(k, Rest(V)) /\ UrlWeightSum(Rest(V)) = k[Rest(V)]
      BY <1>3, <3>1
    <3>3. h[Rest(V)] = k[Rest(V)]
      BY <2>1, <3>1, <3>2, SumsUnique
    <3>. QED  BY <2>1, <2>2, <2>3, <3>2, <3>3
  <2>. QED  BY <2>1, <2>2, <2>3
<1>5. ASSUME NEW V \in SUBSET T, V # {}  PROVE g[Rest(V)] = UrlWeightSum(Rest(V))
  <2>1. Rest(V) \in SUBSET T /\ Rest(V) # T
    BY <1>5, PickType
  <2>. QED  BY <1>4, <2>1
<1>6. g = [V \in SUBSET T |->
             IF V = {} THEN 0 ELSE EffectiveWeight(Pick(V)) + g[Rest(V)]]
  BY <1>5
<1>7. Sums(g, T)
  BY <1>6 DEF Sums
<1>. QED  BY <1>2, <1>7

\* The sum takes one element at a time.
LEMMA SumPicks ==
  ASSUME NEW S \in SUBSET Provider
  PROVE  UrlWeightSum(S) = IF S = {} THEN 0
                           ELSE EffectiveWeight(Pick(S)) + UrlWeightSum(S \ {Pick(S)})
<1>1. \A T \in SUBSET Provider : \E h : Sums(h, T) /\ UrlWeightSum(T) = h[T]
  <2>. TAKE T \in SUBSET Provider
  <2>1. \E h : Sums(h, T)
    BY SumsExist
  <2>2. Sums(CHOOSE h : Sums(h, T), T)
    BY <2>1
  <2>. QED  BY <2>2, SumChosen
<1>2. PICK g : Sums(g, S) /\ UrlWeightSum(S) = g[S]
  BY <1>1
<1>3. g[S] = IF S = {} THEN 0 ELSE EffectiveWeight(Pick(S)) + g[S \ {Pick(S)}]
  BY <1>2 DEF Sums
<1>. DEFINE R == S \ {Pick(S)}
<1>4. PICK k : Sums(k, R) /\ UrlWeightSum(R) = k[R]
  BY <1>1
<1>5. g[R] = k[R]
  BY <1>2, <1>4, SumsUnique
<1>. QED  BY <1>2, <1>3, <1>4, <1>5

LEMMA WeightType ==
  ASSUME NEW p \in Provider
  PROVE  /\ EffectiveWeight(p) \in Nat /\ Weight[p] \in Int
         /\ EffectiveWeight(p) # 0 <=> Weight[p] > 0
BY ProviderAssumption DEF EffectiveWeight, AS_FALLBACK

LEMMA SumType ==
  ASSUME NEW S \in SUBSET Provider
  PROVE  UrlWeightSum(S) \in Nat
<1>. DEFINE F == {T \in SUBSET Provider : UrlWeightSum(T) \notin Nat}
<1>. SUFFICES ASSUME F # {} PROVE FALSE
  OBVIOUS
<1>1. F \in SUBSET (SUBSET Provider)
  OBVIOUS
<1>2. PICK T \in F : \A V \in F : V \subseteq T => V = T
  <2>. HIDE DEF F
  <2>. QED  BY <1>1, SmallestSet
<1>3. CASE T = {}
  <2>1. UrlWeightSum(T) = 0
    BY <1>3, SumPicks
  <2>. QED  BY <2>1
<1>4. CASE T # {}
  <2>1. Pick(T) \in T
    BY <1>4, PickType
  <2>2. UrlWeightSum(T \ {Pick(T)}) \in Nat
    BY <1>2, <2>1
  <2>3. EffectiveWeight(Pick(T)) \in Nat
    BY <2>1, WeightType
  <2>4. UrlWeightSum(T) = EffectiveWeight(Pick(T)) + UrlWeightSum(T \ {Pick(T)})
    BY <1>4, SumPicks
  <2>5. UrlWeightSum(T) \in Nat
    BY <2>2, <2>3, <2>4
  <2>. QED  BY <2>5
<1>. QED  BY <1>3, <1>4

\* The order of the elements does not matter.
LEMMA SumOf ==
  ASSUME NEW S \in SUBSET Provider, NEW x \in S
  PROVE  UrlWeightSum(S) = EffectiveWeight(x) + UrlWeightSum(S \ {x})
<1>. DEFINE F == {T \in SUBSET Provider : \E y \in T :
                    UrlWeightSum(T) # EffectiveWeight(y) + UrlWeightSum(T \ {y})}
<1>. SUFFICES ASSUME F # {} PROVE FALSE
  OBVIOUS
<1>1. F \in SUBSET (SUBSET Provider)
  OBVIOUS
<1>2. PICK T \in F : \A V \in F : V \subseteq T => V = T
  <2>. HIDE DEF F
  <2>. QED  BY <1>1, SmallestSet
<1>3. PICK y \in T : UrlWeightSum(T) # EffectiveWeight(y) + UrlWeightSum(T \ {y})
  BY <1>2
<1>. DEFINE p == Pick(T)
<1>4. p \in T /\ T \in SUBSET Provider /\ p \in Provider /\ y \in Provider
  BY <1>2, <1>3, PickType
<1>5. UrlWeightSum(T) = EffectiveWeight(p) + UrlWeightSum(T \ {p})
  BY <1>4, SumPicks
<1>. HIDE DEF p
<1>6. p # y
  BY <1>3, <1>5
<1>7. T \ {p} \notin F /\ T \ {y} \notin F
  BY <1>2, <1>4
<1>8. /\ UrlWeightSum(T \ {p}) = EffectiveWeight(y) + UrlWeightSum((T \ {p}) \ {y})
      /\ UrlWeightSum(T \ {y}) = EffectiveWeight(p) + UrlWeightSum((T \ {y}) \ {p})
  BY <1>4, <1>6, <1>7
<1>9. (T \ {p}) \ {y} = (T \ {y}) \ {p}
  OBVIOUS
<1>10. /\ UrlWeightSum((T \ {y}) \ {p}) \in Nat
       /\ EffectiveWeight(p) \in Nat /\ EffectiveWeight(y) \in Nat
  BY <1>4, SumType, WeightType
<1>. HIDE DEF F
<1>. QED  BY <1>3, <1>5, <1>8, <1>9, <1>10

\* Only the positive weights count.
LEMMA SumOfPositive ==
  ASSUME NEW S \in SUBSET Provider
  PROVE  UrlWeightSum(S) = UrlWeightSum({p \in S : Weight[p] > 0})
<1>. DEFINE Positive(T) == {p \in T : Weight[p] > 0}
            F == {T \in SUBSET Provider : UrlWeightSum(T) # UrlWeightSum(Positive(T))}
<1>. SUFFICES ASSUME F # {} PROVE FALSE
  OBVIOUS
<1>1. F \in SUBSET (SUBSET Provider)
  OBVIOUS
<1>2. PICK T \in F : \A V \in F : V \subseteq T => V = T
  <2>. HIDE DEF F
  <2>. QED  BY <1>1, SmallestSet
<1>3. PICK x \in T : ~ (Weight[x] > 0)
  BY <1>2
<1>4. UrlWeightSum(T \ {x}) \in Nat /\ EffectiveWeight(x) = 0
  BY <1>2, <1>3, SumType, WeightType
<1>5. UrlWeightSum(T) = UrlWeightSum(T \ {x})
  BY <1>2, <1>4, SumOf
<1>6. Positive(T \ {x}) = Positive(T)
  BY <1>3
<1>7. T \ {x} \notin F
  BY <1>2
<1>. QED  BY <1>2, <1>5, <1>6, <1>7

\* A weight is no more than the sum.
LEMMA SumBounds ==
  ASSUME NEW S \in SUBSET Provider, NEW p \in S
  PROVE  EffectiveWeight(p) <= UrlWeightSum(S)
<1>1. UrlWeightSum(S) = EffectiveWeight(p) + UrlWeightSum(S \ {p})
  BY SumOf
<1>2. UrlWeightSum(S \ {p}) \in Nat /\ EffectiveWeight(p) \in Nat
  BY SumType, WeightType
<1>. QED  BY <1>1, <1>2

-----------------------------------------------------------------------------
(* The choice by weight.                                                   *)

\* Some provider with a positive weight comes after all others of them.
LEMMA LastPositive ==
  ASSUME NEW H \in SUBSET Provider, UrlWeightSum(H) # 0
  PROVE  \E q \in H : /\ Weight[q] > 0
                      /\ {r \in H : Sorted(r, q)} = {r \in H : Weight[r] > 0}
<1>. DEFINE Positive == {r \in H : Weight[r] > 0}
            After(q) == {r \in Positive : ~ Sorted(r, q)}
            F == {After(q) : q \in Positive}
<1>1. \A r \in Provider : Weight[r] \in Int /\ Position[r] \in Nat
  BY WeightType, ProviderAssumption
<1>2. Positive # {}
  <2>1. UrlWeightSum({}) = 0
    BY SumPicks
  <2>2. UrlWeightSum(H) = UrlWeightSum(Positive)
    BY SumOfPositive
  <2>. QED  BY <2>1, <2>2
<1>3. PICK q \in Positive :
        \A t \in Positive : After(t) \subseteq After(q) => After(t) = After(q)
  <2>1. F \in SUBSET (SUBSET Provider) /\ F # {}
    BY <1>2
  <2>2. \E S \in F : \A T \in F : T \subseteq S => T = S
    <3>. HIDE DEF F
    <3>. QED  BY <2>1, SmallestSet
  <2>. HIDE DEF Positive, After
  <2>. QED  BY <2>2
<1>4. ASSUME NEW r \in After(q)  PROVE FALSE
  <2>1. r \in Positive /\ r \in Provider /\ q \in Provider /\ ~ Sorted(r, q)
    OBVIOUS
  <2>2. ASSUME NEW u \in After(r)  PROVE u \in After(q)
    <3>1. u \in Provider /\ u \in Positive /\ ~ Sorted(u, r)
      OBVIOUS
    <3>2. ~ Sorted(u, q)
      BY <1>1, <2>1, <3>1 DEF Sorted
    <3>. QED  BY <3>1, <3>2
  <2>3. r \notin After(r)
    BY <1>1, <2>1 DEF Sorted
  <2>. QED  BY <1>3, <1>4, <2>1, <2>2, <2>3
<1>5. ASSUME NEW r \in H, Sorted(r, q)  PROVE Weight[r] > 0
  BY <1>1, <1>5 DEF Sorted
<1>. QED  BY <1>4, <1>5

\* A provider that is picked by weight has one.
LEMMA PickedHasWeight ==
  ASSUME NEW H \in SUBSET Provider, UrlWeightSum(H) # 0, NEW p \in PickedByWeight(H)
  PROVE  p \in H /\ Weight[p] > 0
<1>1. p \in H /\ p \in Provider
  BY DEF PickedByWeight
<1>2. PICK rand \in 0 .. (2 * UrlWeightSum(H) - 1) :
        \A q \in H \ {p} : Sorted(q, p) => 2 * AccumulatedWeight(H, q) < rand
  BY DEF PickedByWeight
<1>3. PICK q \in H : /\ Weight[q] > 0
                     /\ {r \in H : Sorted(r, q)} = {r \in H : Weight[r] > 0}
  BY LastPositive
<1>4. AccumulatedWeight(H, q) = UrlWeightSum(H) /\ UrlWeightSum(H) \in Nat
  BY <1>3, SumOfPositive, SumType DEF AccumulatedWeight
<1>5. ASSUME ~ (Weight[p] > 0)  PROVE FALSE
  <2>1. Weight[q] > Weight[p] /\ q # p
    BY <1>1, <1>3, <1>5, WeightType
  <2>2. 2 * AccumulatedWeight(H, q) < rand
    BY <1>2, <2>1 DEF Sorted
  <2>. QED  BY <1>2, <1>4, <2>2
<1>. QED  BY <1>1, <1>5

\* What is selected among some providers.
LEMMA SelectedByWeight ==
  ASSUME NEW H \in SUBSET Provider, NEW p \in Selectable[H]
  PROVE  /\ p \in H
         /\ Weight[p] # NEVER
         /\ Weight[p] = AS_FALLBACK =>
              \A q \in H : /\ Weight[q] <= 0
                           /\ Weight[q] = AS_FALLBACK => Position[p] <= Position[q]
<1>1. CASE UrlWeightSum(H) = 0
  <2>1. p \in FirstFallback(H)
    BY <1>1 DEF Selectable
  <2>2. /\ p \in H /\ Weight[p] = AS_FALLBACK
        /\ \A q \in H : Weight[q] = AS_FALLBACK => Position[p] <= Position[q]
    BY <2>1 DEF FirstFallback
  <2>3. ASSUME NEW q \in H  PROVE Weight[q] <= 0
    <3>1. EffectiveWeight(q) <= 0 /\ EffectiveWeight(q) \in Nat
      BY <1>1, SumBounds, WeightType
    <3>. QED  BY <3>1, WeightType
  <2>. QED  BY <2>2, <2>3 DEF NEVER, AS_FALLBACK
<1>2. CASE UrlWeightSum(H) # 0
  <2>1. p \in PickedByWeight(H)
    BY <1>2 DEF Selectable
  <2>2. p \in H /\ Weight[p] > 0 /\ Weight[p] \in Int
    BY <1>2, <2>1, PickedHasWeight, WeightType
  <2>. QED  BY <2>2 DEF NEVER, AS_FALLBACK
<1>. QED  BY <1>1, <1>2

\* A new call that does not stick to its session's provider goes to one that was selected.
LEMMA BeginSelects ==
  ASSUME TypeOK, NEW given \in Session \union {None}, NEW m \in Method, Begin(given, m),
         NEW c \in calls' \ calls,
         c.session # None => sessionCache[c.session] # c.provider
  PROVE  c.provider \in Selectable[healthy]
<1>. DEFINE s == IF attachedSessionId = None THEN given ELSE attachedSessionId
<1>1. \/ StickToProvider(s, m)
      \/ RefuseFallback(s)
      \/ ChooseProvider(s, m)
      \/ NoProvider(s)
  BY DEF Begin
<1>. HIDE DEF s
<1>2. ASSUME NEW p, Send(s, m, p)  PROVE c.session = s /\ c.provider = p
  BY <1>2 DEF Send
<1>3. CASE StickToProvider(s, m)
  <2>1. s # None
    BY <1>3, SessionAssumption DEF StickToProvider, Cached
  <2>2. c.session = s /\ c.provider = sessionCache[s]
    BY <1>2, <1>3 DEF StickToProvider
  <2>. QED  BY <2>1, <2>2
<1>4. CASE RefuseFallback(s) \/ NoProvider(s)
  BY <1>4 DEF RefuseFallback, NoProvider
<1>5. CASE ChooseProvider(s, m)
  BY <1>2, <1>5 DEF ChooseProvider
<1>. QED  BY <1>1, <1>3, <1>4, <1>5

\* The weights hold on every call that does not stick to its session's provider.
THEOREM SelectionWeighted == Spec => SelectionFollowsWeights
<1>1. TypeOK /\ [Next]_vars
        => [\A c \in NewCalls :
              (c.session # None => sessionCache[c.session] # c.provider)
                => /\ c.provider \in healthy
                   /\ Weight[c.provider] # NEVER
                   /\ Weight[c.provider] = AS_FALLBACK =>
                        \A q \in healthy :
                          /\ Weight[q] <= 0
                          /\ Weight[q] = AS_FALLBACK =>
                               Position[c.provider] <= Position[q]]_vars
  <2>. SUFFICES ASSUME TypeOK, [Next]_vars, NEW c \in calls' \ calls,
                       c.session # None => sessionCache[c.session] # c.provider
                PROVE  /\ c.provider \in healthy
                       /\ Weight[c.provider] # NEVER
                       /\ Weight[c.provider] = AS_FALLBACK =>
                            \A q \in healthy :
                              /\ Weight[q] <= 0
                              /\ Weight[q] = AS_FALLBACK =>
                                   Position[c.provider] <= Position[q]
    BY DEF NewCalls
  <2>1. PICK given \in Session \union {None}, m \in Method : Begin(given, m)
    BY SessionsUntouched
  <2>2. c.provider \in Selectable[healthy] /\ healthy \in SUBSET Provider
    BY <2>1, BeginSelects DEF TypeOK
  <2>. QED  BY <2>2, SelectedByWeight
<1>. QED  BY TypeCorrect, <1>1, PTL DEF Spec, SelectionFollowsWeights
=============================================================================
