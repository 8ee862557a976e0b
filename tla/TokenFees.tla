------------------------------ MODULE TokenFees ------------------------------
(***************************************************************************)
(* How the fees tokens take on transfer are fetched.  The control asks the *)
(* GraphQL service, except for tokens whose fee changes all the time, and  *)
(* the chain for every token that is still without an entry.  The          *)
(* treatment asks the chain for all of them.  TrafficSwitcher puts the two *)
(* behind one method, either sampling or switching between them.           *)
(***************************************************************************)
EXTENDS Integers

CONSTANTS
  FeeCall,         \* calls of fetchFees at one time
  Token,           \* token addresses, as callers write them
  ListedDynamic,   \* those that are in DYNAMIC_FOT_ADDRESSES when written in lower case
  Checksummed,     \* those that are not written in lower case
  FeeChain,        \* names of ChainId
  Customization,   \* customizations somebody may construct the switcher with
  FeeDraw          \* bound: values of Math.random(), in thousandths

ASSUME FeesAssumption ==
  /\ ListedDynamic \subseteq Token /\ Checksummed \subseteq Token /\ FeeChain \subseteq STRING
  /\ Customization \subseteq [pctEnabled : Int, pctShadowSampling : Int]
  /\ FeeDraw \subseteq 0..999

VARIABLES
  custom,     \* props.customization, in thousandths
  fetching    \* the calls

feesVars == <<custom, fetching>>

Fetcher == {"current", "target"}   \* the control and the treatment
Entry == {"none", "graphql", "chain"}

NoFees == [t \in Token |-> "none"]

(* ------------------------------- the switcher ----------------------------- *)

\* A bug: an experiment may sample and switch at the same time.
AcceptedBoth(c) == c.pctEnabled >= 0 /\ c.pctEnabled <= 1000

\* What the constructor lets pass; a negative or an excessive sampling share is not refused.
Accepted(c) ==
  /\ c.pctEnabled >= 0 /\ c.pctEnabled <= 1000
  /\ ~(c.pctEnabled > 0 /\ c.pctShadowSampling > 0)

IsSamplingEnabled == custom.pctShadowSampling > 0

Samples(draw) == IsSamplingEnabled /\ draw < custom.pctShadowSampling

\* While sampling is enabled the control is due.
DueFetcher(draw) ==
  IF ~IsSamplingEnabled /\ draw < custom.pctEnabled THEN "target" ELSE "current"

(* ------------------------------- the fetchers ----------------------------- *)

\* A bug: an address is looked up in the list as it is written.
IsDynamicFOTAsWritten(t) == t \in ListedDynamic \ Checksummed

IsDynamicFOT(t) == t \in ListedDynamic

\* Chains with a name in the GraphQL schema; the others make the provider throw.
GraphQLChain ==
  {"MAINNET", "ARBITRUM_ONE", "AVALANCHE", "OPTIMISM", "POLYGON", "CELO", "BNB", "BASE",
   "BASE_SEPOLIA", "BLAST", "ZORA", "ZKSYNC", "WORLDCHAIN", "UNICHAIN_SEPOLIA",
   "MONAD_TESTNET", "UNICHAIN", "SONEIUM"}

ForGraphQL(wanted) == {t \in wanted : ~IsDynamicFOT(t)}

Missing(call) == {t \in call.wanted : call.entry[t] = "none"}

\* A bug: the chain is only asked when the GraphQL service gave nothing at all.
FallbackIfNothing(call) == IF Missing(call) = call.wanted THEN call.wanted ELSE {}

\* Which tokens the fallback asks the chain for.
Fallback(call) == Missing(call)

(* -------------------------------- the calls ------------------------------- *)

InitFees ==
  /\ custom \in {c \in Customization : Accepted(c)}
  /\ fetching = [c \in FeeCall |->
       [control |-> "unasked", treatment |-> "unasked", wanted |-> {}, named |-> TRUE,
        due |-> "current", entry |-> NoFees, onChain |-> {},
        ended |-> [by |-> "current", how |-> "answer"]]]

Settled(call) == {call.control, call.treatment} \subseteq {"unasked", "answered", "failed"}

\* A bug: the call does not wait for the treatment it samples.
ReturnWhenDue(call) ==
  LET last == IF call.due = "current" THEN call.control ELSE call.treatment
  IN  IF last \notin {"answered", "failed"} THEN call
        ELSE [call EXCEPT !.ended.how = IF last = "answered" THEN "answer" ELSE "error"]

\* A bug: a sampled call returns what the treatment answered.
ReturnTreatment(call) ==
  IF ~Settled(call) THEN call
    ELSE [call EXCEPT !.ended = [by |-> IF call.treatment = "answered" THEN "target" ELSE "current",
                                 how |-> "answer"]]

\* The call returns once everything it asked has settled; while sampling, the control's map.
Return(call) ==
  IF ~Settled(call) THEN call
    ELSE LET last == IF call.due = "current" THEN call.control ELSE call.treatment
         IN  [call EXCEPT !.ended.how = IF last = "answered" THEN "answer" ELSE "error"]

\* What the control does once the GraphQL service has been asked, if there was anything to ask.
AfterGraphQL(call) ==
  IF Fallback(call) = {} THEN Return([call EXCEPT !.control = "answered"])
    ELSE [call EXCEPT !.control = "fallback", !.onChain = Fallback(call)]

FetchFees(c, wanted, chain, draw) ==
  /\ fetching[c].ended.how # "pending"
  /\ LET due == DueFetcher(draw)
     IN  fetching' = [fetching EXCEPT ![c] =
           [control |-> IF due = "current" THEN "graphql" ELSE "unasked",
            treatment |-> IF Samples(draw) \/ due = "target" THEN "chain" ELSE "unasked",
            wanted |-> wanted, named |-> chain \in GraphQLChain, due |-> due,
            entry |-> NoFees, onChain |-> {}, ended |-> [by |-> due, how |-> "pending"]]]
  /\ UNCHANGED custom

\* An answer may leave tokens out or spell them otherwise, and an error may come half way.
GraphQLEnds(c, got) ==
  /\ fetching[c].control = "graphql"
  /\ got \subseteq ForGraphQL(fetching[c].wanted)
  /\ fetching[c].named \/ got = {}
  /\ fetching' = [fetching EXCEPT ![c] =
       AfterGraphQL([@ EXCEPT
         !.entry = [t \in Token |-> IF t \in got THEN "graphql" ELSE fetching[c].entry[t]]])]
  /\ UNCHANGED custom

\* The fallback's errors are swallowed, like those of the GraphQL service.
FallbackEnds(c, got) ==
  /\ fetching[c].control = "fallback"
  /\ got \subseteq fetching[c].onChain
  /\ fetching' = [fetching EXCEPT ![c] =
       Return([@ EXCEPT
         !.control = "answered",
         !.entry = [t \in Token |-> IF t \in got THEN "chain" ELSE fetching[c].entry[t]]])]
  /\ UNCHANGED custom

\* While sampling, the treatment's error is logged and its map is only compared.
TreatmentEnds(c, how) ==
  /\ fetching[c].treatment = "chain"
  /\ fetching' = [fetching EXCEPT ![c] = Return([@ EXCEPT !.treatment = how])]
  /\ UNCHANGED custom

FeesNext ==
  \E c \in FeeCall :
    \/ \E wanted \in SUBSET Token, chain \in FeeChain, draw \in FeeDraw : FetchFees(c, wanted, chain, draw)
    \/ \E got \in SUBSET Token : GraphQLEnds(c, got) \/ FallbackEnds(c, got)
    \/ \E how \in {"answered", "failed"} : TreatmentEnds(c, how)

FeesSpec == InitFees /\ [][FeesNext]_feesVars

(* ------------------------------- properties ------------------------------- *)

FetchingCall ==
  [control : {"unasked", "graphql", "fallback", "answered"},
   treatment : {"unasked", "chain", "answered", "failed"}, wanted : SUBSET Token, named : BOOLEAN,
   due : Fetcher, entry : [Token -> Entry], onChain : SUBSET Token,
   ended : [by : Fetcher, how : {"pending", "answer", "error"}]]

\* Type invariant: the calls; a call ends exactly when nothing it asked is outstanding.
FeesTypeOK ==
  /\ custom \in {c \in Customization : Accepted(c)}
  /\ fetching \in [FeeCall -> FetchingCall]
  /\ \A c \in FeeCall : Settled(fetching[c]) <=> fetching[c].ended.how # "pending"

\* The GraphQL service has the last word on no token but those whose latest fee it gave: when
\* the control answers, the chain was asked for every token without an entry, so the errors
\* swallowed on the way (graphql-token-fee-fetcher.ts:74-96) lose none by themselves, and for
\* every token of the dynamic list, however its address is written (37-38).
NothingForgotten ==
  \A c \in FeeCall : LET call == fetching[c] IN
    call.ended = [by |-> "current", how |-> "answer"] =>
      Missing(call) \union (call.wanted \intersect ListedDynamic) \subseteq call.onChain

\* An experiment that is enabled for everybody reaches the treatment on every call
\* (traffic-switcher.ts:31-38): sampling, which always returns the control's, cannot be on.
FullExperimentSwitches ==
  custom.pctEnabled = 1000 =>
    \A c \in FeeCall : fetching[c].ended.how = "pending" => fetching[c].due = "target"

\* The switcher can be told from one fetcher only by who is due: sampling hides the
\* treatment's errors and answers (59-83).
FeesSwitch == INSTANCE ShadowSwitch WITH
  Call <- FeeCall, due <- [c \in FeeCall |-> fetching[c].due],
  ended <- [c \in FeeCall |-> fetching[c].ended]

FeesImplementSwitch == FeesSwitch!Spec
=============================================================================
