---------------------------- MODULE InstanceProofs ---------------------------
(***************************************************************************)
(* Proofs about an instance of the routing lambda: its requests, whichever *)
(* they are and whichever chains the environment has no endpoint for; the  *)
(* gateways of its chains, for any configuration and environment; and how  *)
(* its quoters pack their calls, for any parameters of the library.        *)
(***************************************************************************)
EXTENDS QuoteRequests, RpcProviders, QuoteBatches, TLAPS

-----------------------------------------------------------------------------
(* The requests.                                                           *)

\* What the metric of the request is while it is under way.
CountInv ==
  /\ stage \in {"idle", "validating", "injecting", "checking", "looking up", "routing", "responding"}
  /\ stage \in {"validating", "injecting", "checking", "looking up", "routing"} => counted = "none"
  /\ stage = "responding" => counted = "200"
  /\ CountedAsAnswered

\* A request that waits for its chain has been validated, and the container has them all.
ChainInv ==
  /\ container \in {"building", "built", "rejected"} /\ asked \in QuoteRequest
  /\ container = "built" => DOMAIN dependencies = SUPPORTED_CHAINS
  /\ stage = "injecting" => Refused(asked) = "none"
  /\ ChainsInjected

RequestsInv == CountInv /\ ChainInv

-----------------------------------------------------------------------------
(* The steps.                                                              *)

LEMMA RequestsInit == InitRequests => RequestsInv
BY DEF InitRequests, RequestsInv, CountInv, ChainInv, CountedAsAnswered, ChainsInjected

LEMMA BuildStep ==
  ASSUME RequestsInv, NEW how \in {"built", "rejected"}, BuildContainer(how)
  PROVE  RequestsInv'
<1>1. UNCHANGED <<asked, stage, answer, counted>> /\ container' = how
  BY DEF BuildContainer, handling
<1>2. container' = "built" => DOMAIN dependencies' = SUPPORTED_CHAINS
  BY <1>1 DEF BuildContainer, Built
<1>. QED  BY <1>1, <1>2 DEF RequestsInv, CountInv, ChainInv, CountedAsAnswered, ChainsInjected

LEMMA BeginStep ==
  ASSUME RequestsInv, NEW r \in QuoteRequest, Begin(r)
  PROVE  RequestsInv'
BY DEF Begin, RequestsInv, CountInv, ChainInv, CountedAsAnswered, ChainsInjected

LEMMA ValidateStep ==
  ASSUME RequestsInv, Validate
  PROVE  RequestsInv'
<1>1. counted = "none" /\ UNCHANGED <<container, dependencies, asked, counted>>
  BY DEF Validate, RequestsInv, CountInv, handling
<1>2. CASE Refused(asked) # "none"
  <2>1. stage' = "idle" /\ answer'.code = "VALIDATION_ERROR"
    BY <1>2 DEF Validate, Respond
  <2>. QED  BY <1>1, <2>1 DEF RequestsInv, CountInv, ChainInv, CountedAsAnswered, ChainsInjected
<1>3. CASE Refused(asked) = "none"
  <2>1. stage' = "injecting" /\ answer' = answer
    BY <1>3 DEF Validate
  <2>2. Refused(asked') = "none"
    BY <1>1, <1>3
  <2>. QED  BY <1>1, <2>1, <2>2 DEF RequestsInv, CountInv, ChainInv, CountedAsAnswered, ChainsInjected
<1>. QED  BY <1>2, <1>3

LEMMA InjectStep ==
  ASSUME RequestsInv, Inject
  PROVE  RequestsInv'
<1>1. /\ counted = "none" /\ UNCHANGED <<container, dependencies, asked, counted>>
      /\ stage = "injecting" /\ container \in {"built", "rejected"}
  BY DEF Inject, RequestsInv, CountInv, ChainInv, handling
<1>2. asked.params \in {"none", "given"}
  <2>1. asked \in Requests
    BY RequestsAssumption DEF RequestsInv, ChainInv
  <2>. QED  BY <2>1 DEF Requests
<1>3. container = "built" /\ asked.params = "given" => asked.chain \in DOMAIN dependencies
  BY <1>1 DEF RequestsInv, ChainInv, Refused
<1>4. \/ stage' = "idle" /\ answer' = [status |-> "thrown", code |-> "none"]
      \/ /\ stage' = "idle" /\ answer' = [status |-> "500", code |-> "INTERNAL_ERROR"]
         /\ asked.params = "none"
      \/ stage' = "checking" /\ answer' = answer
  BY <1>1, <1>2, <1>3 DEF Inject, Respond
<1>5. CASE stage' = "checking" /\ answer' = answer
  BY <1>1, <1>5 DEF RequestsInv, CountInv, ChainInv, CountedAsAnswered, ChainsInjected
<1>6. CASE stage' = "idle" /\ answer' = [status |-> "thrown", code |-> "none"]
  <2>1. answer'.status = "thrown" /\ answer'.code = "none"
    BY <1>6
  <2>. QED  BY <1>1, <1>6, <2>1 DEF RequestsInv, CountInv, ChainInv, CountedAsAnswered, ChainsInjected
<1>7. CASE /\ stage' = "idle" /\ answer' = [status |-> "500", code |-> "INTERNAL_ERROR"]
           /\ asked.params = "none"
  <2>1. answer'.status = "500" /\ answer'.code = "INTERNAL_ERROR" /\ asked'.params = "none"
    BY <1>1, <1>7
  <2>. QED  BY <1>1, <1>7, <2>1 DEF RequestsInv, CountInv, ChainInv, CountedAsAnswered, ChainsInjected
<1>. QED  BY <1>4, <1>5, <1>6, <1>7

\* A response of the quote handler: none of them says that a chain has no dependencies.
LEMMA Answered ==
  ASSUME RequestsInv, UNCHANGED <<container, dependencies, asked>>,
         NEW status \in {"400", "404"}, NEW code, code # "no dependencies", Answer(status, code)
  PROVE  RequestsInv'
BY DEF Answer, Respond, Class, RequestsInv, CountInv, ChainInv, CountedAsAnswered, ChainsInjected

LEMMA Thrown ==
  ASSUME RequestsInv, UNCHANGED <<container, dependencies, asked>>, Throw
  PROVE  RequestsInv'
BY DEF Throw, Respond, Class, RequestsInv, CountInv, ChainInv, CountedAsAnswered, ChainsInjected

\* A step from one stage of the quote handler to the next.
LEMMA GoneOn ==
  ASSUME RequestsInv, UNCHANGED <<container, dependencies, asked, answer, counted>>,
         stage \in {"checking", "looking up"}, stage' \in {"looking up", "routing"}
  PROVE  RequestsInv'
BY DEF RequestsInv, CountInv, ChainInv, CountedAsAnswered, ChainsInjected

LEMMA CheckStep ==
  ASSUME RequestsInv, Check
  PROVE  RequestsInv'
<1>1. stage = "checking" /\ UNCHANGED <<container, dependencies, asked>>
  BY DEF Check
<1>2. \/ Answer("400", "TOKEN_CHAINS_DIFFERENT") \/ Answer("400", "INVALID_PROTOCOL")
      \/ stage' = "looking up" /\ UNCHANGED <<answer, counted>>
  BY DEF Check
<1>. QED  BY <1>1, <1>2, Answered, GoneOn

LEMMA LookUpStep ==
  ASSUME RequestsInv, NEW t, NEW how, LookUp(t, how)
  PROVE  RequestsInv'
<1>1. stage = "looking up" /\ UNCHANGED <<container, dependencies, asked>>
  BY DEF LookUp
<1>2. Throw \/ UNCHANGED <<stage, answer, counted>>
  BY DEF LookUp
<1>. QED  BY <1>1, <1>2, Thrown, GoneOn

LEMMA AssembleStep ==
  ASSUME RequestsInv, Assemble
  PROVE  RequestsInv'
<1>1. stage = "looking up" /\ UNCHANGED <<container, dependencies, asked>>
  BY DEF Assemble
<1>2. \/ Answer("400", "TOKEN_IN_INVALID") \/ Answer("400", "TOKEN_OUT_INVALID")
      \/ Answer("400", "TOKEN_IN_OUT_SAME") \/ Answer("400", "AMOUNT_INVALID")
      \/ Throw
      \/ stage' = "routing" /\ UNCHANGED <<answer, counted>>
  BY DEF Assemble
<1>. QED  BY <1>1, <1>2, Answered, Thrown, GoneOn

LEMMA RouteStep ==
  ASSUME RequestsInv, NEW how \in {"route", "no route", "error"}, Route(how)
  PROVE  RequestsInv'
<1>1. stage = "routing" /\ UNCHANGED <<container, dependencies, asked>>
  BY DEF Route, handling
<1>2. CASE how = "route"
  <2>1. stage' = "responding" /\ counted' = "200" /\ answer' = answer
    BY <1>2 DEF Route
  <2>. QED  BY <1>1, <2>1 DEF RequestsInv, CountInv, ChainInv, CountedAsAnswered, ChainsInjected
<1>3. CASE how = "no route"
  BY <1>1, <1>3, Answered DEF Route
<1>4. CASE how = "error"
  BY <1>1, <1>4, Thrown DEF Route
<1>. QED  BY <1>2, <1>3, <1>4

LEMMA ValidateResponseStep ==
  ASSUME RequestsInv, NEW valid \in BOOLEAN, ValidateResponse(valid)
  PROVE  RequestsInv'
<1>1. counted = "200" /\ UNCHANGED <<container, dependencies, asked, counted>>
  BY DEF ValidateResponse, RequestsInv, CountInv, handling
<1>2. /\ stage' = "idle"
      /\ \/ answer' = [status |-> "200", code |-> "none"]
         \/ answer' = [status |-> "500", code |-> "INTERNAL_ERROR"]
  BY DEF ValidateResponse, Respond
<1>3. /\ answer'.status = "200" \/ answer'.status = "500"
      /\ answer'.code # "no dependencies"
  <2>1. CASE answer' = [status |-> "200", code |-> "none"]
    BY <2>1
  <2>2. CASE answer' = [status |-> "500", code |-> "INTERNAL_ERROR"]
    BY <2>2
  <2>. QED  BY <1>2, <2>1, <2>2
<1>4. CountedAsAnswered'
  <2>1. CASE answer'.status = "200"
    BY <1>1, <2>1 DEF CountedAsAnswered, Class
  <2>2. CASE answer'.status = "500"
    BY <1>1, <2>2 DEF CountedAsAnswered
  <2>. QED  BY <1>3, <2>1, <2>2
<1>. QED  BY <1>1, <1>2, <1>3, <1>4 DEF RequestsInv, CountInv, ChainInv, ChainsInjected

LEMMA EndInstanceStep ==
  ASSUME RequestsInv, EndInstance
  PROVE  RequestsInv'
<1>1. container' = "building" /\ UNCHANGED <<asked, counted>>
  BY DEF EndInstance, handling
<1>2. \/ stage = "idle" /\ UNCHANGED <<stage, answer>>
      \/ /\ stage # "idle" /\ stage' = "idle"
         /\ answer' = [status |-> "thrown", code |-> "none"]
  BY DEF EndInstance, Respond
<1>3. CASE stage = "idle" /\ UNCHANGED <<stage, answer>>
  <2>1. CountedAsAnswered'
    BY <1>1, <1>3 DEF RequestsInv, CountInv, CountedAsAnswered, Class
  <2>. QED  BY <1>1, <1>3, <2>1 DEF RequestsInv, CountInv, ChainInv, ChainsInjected
<1>4. CASE /\ stage # "idle" /\ stage' = "idle"
           /\ answer' = [status |-> "thrown", code |-> "none"]
  <2>1. answer'.status = "thrown" /\ answer'.code = "none"
    BY <1>4
  <2>2. counted \in {"none", "200"}
    BY <1>4 DEF RequestsInv, CountInv
  <2>3. CountedAsAnswered'
    BY <1>1, <2>1, <2>2 DEF CountedAsAnswered
  <2>. QED  BY <1>1, <1>4, <2>1, <2>3 DEF RequestsInv, CountInv, ChainInv, ChainsInjected
<1>. QED  BY <1>2, <1>3, <1>4

LEMMA RequestsStep == RequestsInv /\ [RequestsNext]_requestVars => RequestsInv'
<1>. SUFFICES ASSUME RequestsInv, [RequestsNext]_requestVars PROVE RequestsInv'
  OBVIOUS
<1>1. CASE UNCHANGED requestVars
  BY <1>1 DEF requestVars, RequestsInv, CountInv, ChainInv, CountedAsAnswered, ChainsInjected
<1>2. CASE RequestsNext
  BY <1>2, BuildStep, BeginStep, ValidateStep, InjectStep, CheckStep, LookUpStep, AssembleStep,
     RouteStep, ValidateResponseStep, EndInstanceStep DEF RequestsNext
<1>. QED  BY <1>1, <1>2

-----------------------------------------------------------------------------
(* The theorems.                                                           *)

\* The inductive invariant holds in every behaviour.
THEOREM RequestsInvariant == RequestsSpec => []RequestsInv
<1>. QED  BY RequestsInit, RequestsStep, PTL DEF RequestsSpec

\* A request is counted under the status it is answered with (quote.ts:58-192), but for those
\* that never reach the quote handler and for a quote that is spoilt after it was counted.
THEOREM Counted == RequestsSpec => []CountedAsAnswered
<1>1. RequestsInv => CountedAsAnswered
  BY DEF RequestsInv, CountInv
<1>. QED  BY <1>1, RequestsInvariant, PTL

\* A chain that passes validation has dependencies (quote/injector.ts:81-84), whichever
\* endpoints are missing and however often the instance is replaced.
THEOREM Injected == RequestsSpec => []ChainsInjected
<1>1. RequestsInv => ChainsInjected
  BY DEF RequestsInv, ChainInv
<1>. QED  BY <1>1, RequestsInvariant, PTL

-----------------------------------------------------------------------------
(* The gateways of RpcProviders.  Once they are built nothing changes the  *)
(* static field, and as long as the container is not rejected they are     *)
(* built with the injection of its first chain, so each chain injected so  *)
(* far has what the field has for it now.                                  *)

FieldInv ==
  /\ builds \in 0..1
  /\ builds = 0 => UNI_RPC_PROVIDERS = <<>>
  /\ \A chain \in DOMAIN UNI_RPC_PROVIDERS : UNI_RPC_PROVIDERS[chain].build = builds
  /\ DOMAIN UNI_RPC_PROVIDERS \subseteq {prodConfig[i].chain : i \in Rows}

ContainerInv ==
  /\ position \in 1..Len(InjectionOrder) + 1
  /\ endpoint \in [InjectedChain -> {NoEndpoint, Web3, 1}]
  /\ fatal \in BOOLEAN
  /\ ~fatal /\ position > 1 => builds = 1
  /\ ~fatal => \A i \in 1..position - 1 : endpoint[InjectionOrder[i]] = EndpointOf(InjectionOrder[i], UNI_RPC_PROVIDERS)
  /\ attached # Undefined => ~fatal /\ position = Len(InjectionOrder) + 1

ProvidersInv == FieldInv /\ ContainerInv /\ RequestsUseTheirGateway

\* The order of injection is a sequence.
LEMMA OrderDomain ==
  /\ DOMAIN InjectionOrder = 1..Len(InjectionOrder)
  /\ Len(InjectionOrder) \in Nat /\ Len(InjectionOrder) > 0
BY DEF InjectionOrder

\* Building the gateways fills the field with gateways of one build.
LEMMA BuiltField ==
  ASSUME FieldInv, IsNull, NEW singles, NEW throws, InitGlobalUniRpcProviders(singles, throws),
         UNCHANGED prodConfig
  PROVE  FieldInv' /\ builds' = 1
<1>1. builds' = 1
  BY DEF FieldInv, IsNull, InitGlobalUniRpcProviders
<1>2. PICK rows \in SUBSET Rows :
         UNI_RPC_PROVIDERS' = [chain \in {prodConfig[i].chain : i \in rows} |->
           UniProvider(prodConfig[RowOf(chain)], singles[chain], builds')]
  BY DEF InitGlobalUniRpcProviders, BeforeThrow
<1>3. \A chain \in DOMAIN UNI_RPC_PROVIDERS' : UNI_RPC_PROVIDERS'[chain].build = builds'
  BY <1>2 DEF UniProvider
<1>4. (DOMAIN UNI_RPC_PROVIDERS \subseteq {prodConfig[i].chain : i \in Rows})'
  BY <1>2 DEF Rows
<1>. QED  BY <1>1, <1>3, <1>4 DEF FieldInv

\* A call keeps the field correct, and leaves it as it is once the gateways are built.
LEMMA GetField ==
  ASSUME FieldInv, NEW throws, GetGlobalUniRpcProviders(throws),
         UNCHANGED prodConfig
  PROVE  /\ FieldInv'
         /\ ~throws => builds' = 1
         /\ builds = 1 => UNCHANGED staticFields
<1>1. CASE UNCHANGED staticFields /\ (throws \/ ~IsNull)
  BY <1>1 DEF staticFields, FieldInv, IsNull, Rows
<1>2. CASE IsNull /\ \E singles : InitGlobalUniRpcProviders(singles, throws)
  BY <1>2, BuiltField DEF IsNull
<1>3. CASE IsNull /\ throws /\ UNCHANGED <<UNI_RPC_PROVIDERS, builds>>
  BY <1>3 DEF FieldInv, IsNull, Rows
<1>. QED  BY <1>1, <1>2, <1>3 DEF GetGlobalUniRpcProviders

\* The configuration of an instance is one that the schema accepts; its chains are distinct.
\* Rows that are always or never drawn are, and a build that does not throw serves all drawn.
DrawInv ==
  /\ \A i, j \in Rows : prodConfig[i].chain = prodConfig[j].chain => i = j
  /\ ~fatal /\ builds = 0 => SINGLE_RPC_PROVIDERS = Undefined
  /\ ~fatal => \A i \in Rows :
       /\ builds = 1 /\ prodConfig[i].useMultiProviderProb = 100
            => prodConfig[i].chain \in DOMAIN UNI_RPC_PROVIDERS
       /\ prodConfig[i].useMultiProviderProb = 0
            => prodConfig[i].chain \notin DOMAIN UNI_RPC_PROVIDERS

\* A call that does not throw builds the gateways of all rows drawn, of no other, or nothing.
LEMMA GetDrawn ==
  ASSUME FieldInv, DrawInv, ~fatal, GetGlobalUniRpcProviders(FALSE),
         UNCHANGED <<prodConfig, fatal>>
  PROVE  DrawInv'
<1>1. CASE UNCHANGED staticFields
  BY <1>1 DEF staticFields, DrawInv, Rows
<1>2. CASE IsNull /\ ~UNCHANGED staticFields
  <2>1. PICK rows \in Draws :
          /\ InitGlobalSingleRpcProviders(rows)
          /\ BeforeThrow(rows, SingleThrows) = rows
          /\ InitGlobalUniRpcProviders(SINGLE_RPC_PROVIDERS', FALSE)
    BY <1>2 DEF GetGlobalUniRpcProviders, DrawInv, IsNull
  <2>2. DOMAIN SINGLE_RPC_PROVIDERS' = {prodConfig[i].chain : i \in rows}
    BY <2>1 DEF InitGlobalSingleRpcProviders
  <2>3. rows \subseteq Rows /\ \A i \in Rows :
          /\ prodConfig[i].useMultiProviderProb = 100 => i \in rows
          /\ prodConfig[i].useMultiProviderProb = 0 => i \notin rows
    BY DEF Draws
  <2>4. {i \in Rows : prodConfig[i].chain \in DOMAIN SINGLE_RPC_PROVIDERS'} = rows
    BY <2>2, <2>3 DEF DrawInv
  <2>5. DOMAIN UNI_RPC_PROVIDERS' = {prodConfig[i].chain : i \in rows}
    BY <2>1, <2>4 DEF InitGlobalUniRpcProviders
  <2>6. builds' = 1
    BY <1>2, <2>1, BuiltField
  <2>. QED  BY <2>3, <2>5, <2>6 DEF DrawInv, Rows
<1>3. CASE ~IsNull /\ ~UNCHANGED staticFields
  BY <1>3 DEF GetGlobalUniRpcProviders
<1>. QED  BY <1>1, <1>2, <1>3

-----------------------------------------------------------------------------
\* The injection of one chain preserves the invariant.
LEMMA InjectPreserves ==
  ASSUME ProvidersInv, DrawInv, InjectChain
  PROVE  ProvidersInv' /\ DrawInv'
<1>. DEFINE chain == InjectionOrder[position]
<1>1. /\ position \in 1..Len(InjectionOrder) /\ position' = position + 1
      /\ attached = Undefined /\ UNCHANGED <<prodConfig, environment, attached>>
  BY OrderDomain DEF InjectChain, ProvidersInv, ContainerInv
<1>2. CASE GetGlobalUniRpcProviders(TRUE) /\ fatal' = TRUE /\ UNCHANGED endpoint
  <2>1. FieldInv'
    BY <1>1, <1>2, GetField DEF ProvidersInv
  <2>2. ContainerInv' /\ RequestsUseTheirGateway'
    BY <1>1, <1>2, OrderDomain DEF ProvidersInv, ContainerInv, RequestsUseTheirGateway
  <2>. QED  BY <1>1, <1>2, <2>1, <2>2 DEF ProvidersInv, DrawInv, Rows
<1>3. CASE /\ GetGlobalUniRpcProviders(FALSE) /\ UNCHANGED fatal
           /\ endpoint' = [endpoint EXCEPT ![chain] = EndpointOf(chain, UNI_RPC_PROVIDERS')]
  <2>1. FieldInv' /\ builds' = 1 /\ (builds = 1 => UNCHANGED staticFields)
    BY <1>1, <1>3, GetField DEF ProvidersInv
  <2>2. endpoint' \in [InjectedChain -> {NoEndpoint, Web3, 1}]
    <3>1. EndpointOf(chain, UNI_RPC_PROVIDERS') \in {NoEndpoint, Web3, 1}
      BY <2>1 DEF FieldInv, EndpointOf
    <3>. QED  BY <1>3, <3>1 DEF ProvidersInv, ContainerInv
  <2>3. ASSUME ~fatal, NEW i \in 1..position
        PROVE  endpoint'[InjectionOrder[i]] = EndpointOf(InjectionOrder[i], UNI_RPC_PROVIDERS')
    <3>1. CASE InjectionOrder[i] = chain
      BY <1>1, <1>3, <3>1, OrderDomain DEF InjectedChain, ProvidersInv, ContainerInv
    <3>2. CASE InjectionOrder[i] # chain
      <4>1. i \in 1..position - 1 /\ position > 1
        BY <1>1, <3>2, OrderDomain
      <4>2. UNCHANGED staticFields
        BY <2>1, <2>3, <4>1 DEF ProvidersInv, ContainerInv
      <4>. QED  BY <1>1, <1>3, <2>3, <3>2, <4>1, <4>2
                DEF ProvidersInv, ContainerInv, EndpointOf, staticFields
    <3>. QED  BY <3>1, <3>2
  <2>4. ContainerInv' /\ RequestsUseTheirGateway'
    <3>1. ~fatal' => \A i \in 1..position' - 1 :
            endpoint'[InjectionOrder[i]] = EndpointOf(InjectionOrder[i], UNI_RPC_PROVIDERS')
      BY <1>1, <1>3, <2>3
    <3>2. \A c : (EndpointOf(c, UNI_RPC_PROVIDERS))' = EndpointOf(c, UNI_RPC_PROVIDERS')
      BY <1>1 DEF EndpointOf
    <3>3. fatal' \in BOOLEAN /\ (position \in 1..Len(InjectionOrder) + 1)'
      BY <1>1, <1>3, OrderDomain DEF ProvidersInv, ContainerInv
    <3>. QED  BY <1>1, <2>1, <2>2, <3>1, <3>2, <3>3 DEF ContainerInv, RequestsUseTheirGateway
  <2>5. DrawInv'
    <3>1. CASE fatal
      BY <1>1, <1>3, <3>1 DEF DrawInv, Rows
    <3>2. CASE ~fatal
      BY <1>1, <1>3, <3>2, GetDrawn DEF ProvidersInv
    <3>. QED  BY <3>1, <3>2
  <2>. QED  BY <2>1, <2>4, <2>5 DEF ProvidersInv
<1>. QED  BY <1>2, <1>3 DEF InjectChain

\* A request preserves the invariant: it finds the field as the container left it.
LEMMA SessionPreserves ==
  ASSUME ProvidersInv, DrawInv, NEW chain \in InjectedChain, StartSession(chain)
  PROVE  ProvidersInv' /\ DrawInv'
<1>1. /\ position \notin DOMAIN InjectionOrder /\ ~fatal
      /\ GetGlobalUniRpcProviders(FALSE)
      /\ UNCHANGED <<prodConfig, environment, position, endpoint, fatal>>
  BY DEF StartSession
<1>2. position = Len(InjectionOrder) + 1 /\ builds = 1
  BY <1>1, OrderDomain DEF ProvidersInv, ContainerInv
<1>3. UNCHANGED staticFields /\ FieldInv'
  BY <1>1, <1>2, GetField DEF ProvidersInv
<1>4. endpoint[chain] = EndpointOf(chain, UNI_RPC_PROVIDERS)
  BY <1>1, <1>2, OrderDomain DEF InjectedChain, ProvidersInv, ContainerInv
<1>5. RequestsUseTheirGateway'
  <2>1. attached' = [chain |-> chain,
                     to |-> IF chain \in DOMAIN UNI_RPC_PROVIDERS'
                              THEN UNI_RPC_PROVIDERS'[chain].build ELSE Web3]
        /\ endpoint[chain] # NoEndpoint
    BY DEF StartSession
  <2>. QED  BY <1>1, <1>3, <1>4, <2>1 DEF staticFields, RequestsUseTheirGateway, EndpointOf
<1>6. ContainerInv'
  BY <1>1, <1>2, <1>3 DEF ProvidersInv, ContainerInv, EndpointOf, staticFields
<1>7. DrawInv'
  BY <1>1, <1>3 DEF DrawInv, Rows, staticFields
<1>. QED  BY <1>3, <1>5, <1>6, <1>7 DEF ProvidersInv

\* The inductive invariant of the gateways and the container of an instance.
THEOREM ProvidersInvariant == ProvidersSpec => [](ProvidersInv /\ DrawInv)
<1>1. InitProviders => ProvidersInv /\ DrawInv
  <2>. SUFFICES ASSUME InitProviders  PROVE ProvidersInv /\ DrawInv
    OBVIOUS
  <2>1. \A i, j \in Rows : prodConfig[i].chain = prodConfig[j].chain => i = j
    BY ProvidersAssumption DEF InitProviders, Configurations, Rows
  <2>2. DOMAIN UNI_RPC_PROVIDERS = {}
    BY DEF InitProviders
  <2>3. FieldInv /\ RequestsUseTheirGateway
    BY <2>2 DEF InitProviders, FieldInv, RequestsUseTheirGateway
  <2>4. ContainerInv
    <3>1. endpoint \in [InjectedChain -> {NoEndpoint, Web3, 1}]
      BY DEF InitProviders
    <3>2. position = 1 /\ fatal = FALSE /\ attached = Undefined
      BY DEF InitProviders
    <3>3. position \in 1..Len(InjectionOrder) + 1 /\ 1..position - 1 = {} /\ ~(position > 1)
      BY <3>2, OrderDomain
    <3>. QED  BY <3>1, <3>2, <3>3 DEF ContainerInv
  <2>5. DrawInv
    BY <2>1, <2>2 DEF InitProviders, DrawInv
  <2>. QED  BY <2>3, <2>4, <2>5 DEF ProvidersInv
<1>2. ProvidersInv /\ DrawInv /\ [ProvidersNext]_providersVars => (ProvidersInv /\ DrawInv)'
  <2>. SUFFICES ASSUME ProvidersInv, DrawInv, [ProvidersNext]_providersVars
                PROVE  (ProvidersInv /\ DrawInv)'
    OBVIOUS
  <2>1. CASE UNCHANGED providersVars
    BY <2>1 DEF providersVars, staticFields, ProvidersInv, FieldInv, ContainerInv, EndpointOf,
                RequestsUseTheirGateway, DrawInv, Rows
  <2>. QED  BY <2>1, InjectPreserves, SessionPreserves DEF ProvidersNext
<1>. QED  BY <1>1, <1>2, PTL DEF ProvidersSpec

\* A request puts on a new session the gateway that the router of its chain was given
\* (quote.ts:73), for any configuration, environment and draws.
THEOREM OwnGateway == ProvidersSpec => []RequestsUseTheirGateway
<1>1. ProvidersInv /\ DrawInv => RequestsUseTheirGateway
  BY DEF ProvidersInv
<1>. QED  BY <1>1, ProvidersInvariant, PTL

\* A container that is not rejected has the gateways of its configuration, although a map that
\* is half full may be left in the static field (GlobalRpcProviders.ts:92).
THEOREM AsConfigured == ProvidersSpec => []GatewaysAsConfigured
<1>1. ProvidersInv /\ DrawInv => GatewaysAsConfigured
  <2>. SUFFICES ASSUME ProvidersInv, DrawInv, position \notin DOMAIN InjectionOrder, ~fatal,
                       NEW i \in Rows, prodConfig[i].chain \in InjectedChain
                PROVE  /\ prodConfig[i].useMultiProviderProb = 100 => endpoint[prodConfig[i].chain] > Web3
                       /\ prodConfig[i].useMultiProviderProb = 0 => endpoint[prodConfig[i].chain] <= Web3
    BY DEF GatewaysAsConfigured
  <2>1. position = Len(InjectionOrder) + 1 /\ builds = 1
    BY OrderDomain DEF ProvidersInv, ContainerInv
  <2>2. endpoint[prodConfig[i].chain] = EndpointOf(prodConfig[i].chain, UNI_RPC_PROVIDERS)
    BY <2>1, OrderDomain DEF InjectedChain, ProvidersInv, ContainerInv
  <2>3. CASE prodConfig[i].useMultiProviderProb = 100
    BY <2>1, <2>2, <2>3 DEF DrawInv, EndpointOf, ProvidersInv, FieldInv, Web3
  <2>4. CASE prodConfig[i].useMultiProviderProb = 0
    BY <2>1, <2>2, <2>4 DEF DrawInv, EndpointOf, Web3, NoEndpoint
  <2>. QED  BY <2>3, <2>4
<1>. QED  BY <1>1, ProvidersInvariant, PTL

\* The fields, the container and its position keep their types; the gateways are built once.
THEOREM ProvidersTyped == ProvidersSpec => []ProvidersTypeOK
<1>1. ProvidersInv /\ DrawInv => ProvidersTypeOK
  BY DEF ProvidersInv, FieldInv, ContainerInv, ProvidersTypeOK
<1>. QED  BY <1>1, ProvidersInvariant, PTL
-----------------------------------------------------------------------------
(* The deployment.  Every gateway is made from a row of the configuration, *)
(* and no row of the deployed one makes a constructor throw.               *)

\* A gateway is that of its chain's row, and so are the providers kept for it.
ServedInv ==
  /\ SINGLE_RPC_PROVIDERS # Undefined =>
       \A chain \in DOMAIN SINGLE_RPC_PROVIDERS : \E i \in Rows :
         /\ prodConfig[i].chain = chain
         /\ SINGLE_RPC_PROVIDERS[chain] = SingleProviders(prodConfig[i])
  /\ \A chain \in DOMAIN UNI_RPC_PROVIDERS : \E i \in Rows :
       /\ prodConfig[i].chain = chain
       /\ UNI_RPC_PROVIDERS[chain] = UniProvider(prodConfig[i], SingleProviders(prodConfig[i]), 1)

LEMMA RowOfChain ==
  ASSUME DrawInv, NEW i \in Rows
  PROVE  RowOf(prodConfig[i].chain) = i
BY DEF DrawInv, RowOf

\* The gateways that are built are those of their chains' rows.
LEMMA BuiltServed ==
  ASSUME FieldInv, DrawInv, IsNull, NEW singles, NEW throws,
         InitGlobalUniRpcProviders(singles, throws),
         \A chain \in DOMAIN singles : \E i \in Rows :
           prodConfig[i].chain = chain /\ singles[chain] = SingleProviders(prodConfig[i])
  PROVE  \A chain \in DOMAIN UNI_RPC_PROVIDERS' : \E i \in Rows :
           /\ prodConfig[i].chain = chain
           /\ UNI_RPC_PROVIDERS'[chain]
                = UniProvider(prodConfig[i], SingleProviders(prodConfig[i]), 1)
<1>1. builds' = 1
  BY DEF FieldInv, IsNull, InitGlobalUniRpcProviders
<1>2. PICK done \in SUBSET {i \in Rows : prodConfig[i].chain \in DOMAIN singles} :
         UNI_RPC_PROVIDERS' = [chain \in {prodConfig[i].chain : i \in done} |->
           UniProvider(prodConfig[RowOf(chain)], singles[chain], builds')]
  BY DEF InitGlobalUniRpcProviders, BeforeThrow
<1>3. ASSUME NEW i \in done
      PROVE  UNI_RPC_PROVIDERS'[prodConfig[i].chain]
               = UniProvider(prodConfig[i], SingleProviders(prodConfig[i]), 1)
  <2>1. PICK j \in Rows : /\ prodConfig[j].chain = prodConfig[i].chain
                          /\ singles[prodConfig[i].chain] = SingleProviders(prodConfig[j])
    OBVIOUS
  <2>2. j = i /\ RowOf(prodConfig[i].chain) = i
    BY <2>1, RowOfChain DEF DrawInv
  <2>. QED  BY <1>1, <1>2, <2>1, <2>2
<1>. QED  BY <1>2, <1>3

LEMMA SinglesServed ==
  ASSUME DrawInv, NEW rows \in Draws, InitGlobalSingleRpcProviders(rows)
  PROVE  \A chain \in DOMAIN SINGLE_RPC_PROVIDERS' : \E i \in Rows :
           /\ prodConfig[i].chain = chain
           /\ SINGLE_RPC_PROVIDERS'[chain] = SingleProviders(prodConfig[i])
<1>1. BeforeThrow(rows, SingleThrows) \subseteq Rows
  BY DEF BeforeThrow, Draws
<1>. QED  BY <1>1, RowOfChain DEF InitGlobalSingleRpcProviders

\* A call keeps the maps those of the configuration, whether it throws or not.
LEMMA GetServed ==
  ASSUME FieldInv, DrawInv, ServedInv, NEW throws \in BOOLEAN, GetGlobalUniRpcProviders(throws),
         UNCHANGED <<prodConfig, environment>>
  PROVE  ServedInv'
<1>1. \A row : (SingleProviders(row))' = SingleProviders(row)
  BY DEF SingleProviders
<1>2. Rows' = Rows
  BY DEF Rows
<1>3. CASE UNCHANGED staticFields
  BY <1>1, <1>2, <1>3 DEF staticFields, ServedInv
<1>4. ASSUME IsNull, NEW rows \in Draws, InitGlobalSingleRpcProviders(rows),
             \/ InitGlobalUniRpcProviders(SINGLE_RPC_PROVIDERS', throws)
             \/ UNCHANGED <<UNI_RPC_PROVIDERS, builds>>
      PROVE  ServedInv'
  <2>1. \A chain \in DOMAIN SINGLE_RPC_PROVIDERS' : \E i \in Rows :
          /\ prodConfig[i].chain = chain
          /\ SINGLE_RPC_PROVIDERS'[chain] = SingleProviders(prodConfig[i])
    BY <1>4, SinglesServed
  <2>2. \A chain \in DOMAIN UNI_RPC_PROVIDERS' : \E i \in Rows :
          /\ prodConfig[i].chain = chain
          /\ UNI_RPC_PROVIDERS'[chain]
               = UniProvider(prodConfig[i], SingleProviders(prodConfig[i]), 1)
    <3>1. CASE InitGlobalUniRpcProviders(SINGLE_RPC_PROVIDERS', throws)
      BY <1>4, <2>1, <3>1, BuiltServed
    <3>2. CASE UNCHANGED <<UNI_RPC_PROVIDERS, builds>>
      BY <3>2 DEF ServedInv
    <3>. QED  BY <1>4, <3>1, <3>2
  <2>. QED  BY <1>1, <1>2, <2>1, <2>2 DEF ServedInv
<1>5. ASSUME IsNull, SINGLE_RPC_PROVIDERS # Undefined,
             InitGlobalUniRpcProviders(SINGLE_RPC_PROVIDERS, throws),
             UNCHANGED SINGLE_RPC_PROVIDERS
      PROVE  ServedInv'
  <2>1. \A chain \in DOMAIN UNI_RPC_PROVIDERS' : \E i \in Rows :
          /\ prodConfig[i].chain = chain
          /\ UNI_RPC_PROVIDERS'[chain]
               = UniProvider(prodConfig[i], SingleProviders(prodConfig[i]), 1)
    BY <1>5, BuiltServed DEF ServedInv
  <2>. QED  BY <1>1, <1>2, <1>5, <2>1 DEF ServedInv
<1>. QED  BY <1>3, <1>4, <1>5 DEF GetGlobalUniRpcProviders

\* A row that no constructor refuses, and one of whose providers can be selected: no other of
\* the row has its host.
Host(urlKey) == IF urlKey[1] = "QUICKNODERETH" THEN "QUICKNODE" ELSE urlKey[1]

IsServable(row) ==
  /\ row.useMultiProviderProb = 100 /\ row.named
  /\ Undefined \notin {row.providerInitialWeights, row.providerUrls} /\ row.providerUrls # <<>>
  /\ Len(row.providerInitialWeights) = Len(row.providerUrls)
  /\ DOMAIN row.providerUrls \subseteq Int
  /\ \A n \in DOMAIN row.providerUrls :
       row.providerUrls[n] \in DeployedUrls /\ IsKnown(row.providerUrls[n])
  /\ \E n \in DOMAIN row.providerUrls :
       /\ row.providerInitialWeights[n] # 0
       /\ \A m \in DOMAIN row.providerUrls :
            m # n => Host(row.providerUrls[m]) # Host(row.providerUrls[n])

LEMMA PairServable ==
  ASSUME NEW k \in DeployedUrls, NEW u \in DeployedUrls, Host(k) # Host(u), IsKnown(k), IsKnown(u),
         NEW row, Undefined \notin {row.providerInitialWeights, row.providerUrls},
         row.useMultiProviderProb = 100, row.named,
         row.providerUrls = <<k, u>>, row.providerInitialWeights = <<0, 1>>
  PROVE  IsServable(row)
<1>. DEFINE urls == <<k, u>>
            weights == <<0, 1>>
<1>1. /\ DOMAIN urls = {1, 2} /\ Len(urls) = 2 /\ Len(weights) = 2 /\ urls # <<>>
      /\ urls[1] = k /\ urls[2] = u /\ weights[2] = 1
  OBVIOUS
<1>. HIDE DEF urls, weights
<1>2. row.providerUrls = urls /\ row.providerInitialWeights = weights
  BY DEF urls, weights
<1>. QED  BY <1>1, <1>2 DEF IsServable

UnweightedChains ==
  {"CELO", "AVALANCHE", "BNB", "OPTIMISM", "POLYGON", "ARBITRUM_ONE", "BASE", "BLAST", "ZORA",
   "ZKSYNC", "WORLDCHAIN"}

LEMMA UnirpcUrl ==
  /\ Unirpc \in DeployedUrls
  /\ IsKnown(Unirpc) /\ Host(Unirpc) = "UNIRPC"
<1>1. Unirpc \in DeployedUrls /\ Unirpc[1] = "UNIRPC" /\ Unirpc[2] = "0"
  BY DEF Unirpc, DeployedUrls
<1>2. IsKnown(Unirpc)
  BY <1>1 DEF IsKnown, KnownUrls
<1>. QED  BY <1>1, <1>2 DEF Host

LEMMA UnweightedServable ==
  ASSUME NEW c \in UnweightedChains,
         Undefined \notin {Unweighted(c).providerInitialWeights, Unweighted(c).providerUrls}
  PROVE  IsServable(Unweighted(c))
<1>1. Quicknode(c) \in DeployedUrls
  BY DEF DeployedUrls, UnweightedChains
<1>2. Quicknode(c)[1] = "QUICKNODE" /\ Quicknode(c)[2] = c
  BY DEF Quicknode
<1>3. IsKnown(Quicknode(c))
  BY <1>2 DEF IsKnown, KnownUrls, UnweightedChains
<1>4. Host(Quicknode(c)) # Host(Unirpc)
  BY <1>2, UnirpcUrl DEF Host
<1>5. /\ Unweighted(c).useMultiProviderProb = 100 /\ Unweighted(c).named
      /\ Unweighted(c).providerUrls = <<Quicknode(c), Unirpc>>
      /\ Unweighted(c).providerInitialWeights = <<0, 1>>
  BY DEF Unweighted, Row
<1>. HIDE DEF UnweightedChains
<1>. QED  BY <1>1, <1>3, <1>4, <1>5, UnirpcUrl, PairServable

SepoliaRow ==
  [Row("SEPOLIA", <<0, 1>>, <<<<"ALCHEMY", "SEPOLIA">>, Unirpc>>) EXCEPT !.enableDbSync = TRUE]

LEMMA SepoliaServable ==
  ASSUME Undefined \notin {SepoliaRow.providerInitialWeights, SepoliaRow.providerUrls}
  PROVE  IsServable(SepoliaRow)
<1>. DEFINE k == <<"ALCHEMY", "SEPOLIA">>
<1>1. k \in DeployedUrls /\ k[1] = "ALCHEMY" /\ k[2] = "SEPOLIA"
  BY DEF DeployedUrls
<1>2. /\ SepoliaRow.useMultiProviderProb = 100 /\ SepoliaRow.named /\ SepoliaRow.providerUrls = <<k, Unirpc>>
      /\ SepoliaRow.providerInitialWeights = <<0, 1>>
  BY DEF SepoliaRow, Row
<1>. HIDE DEF k
<1>3. IsKnown(k)
  BY <1>1 DEF IsKnown, KnownUrls
<1>4. Host(k) # Host(Unirpc)
  BY <1>1, UnirpcUrl DEF Host
<1>. QED  BY <1>1, <1>2, <1>3, <1>4, UnirpcUrl, PairServable

UnichainSepoliaRow ==
  Row("UNICHAIN_SEPOLIA", <<0, 1>>,
      <<Quicknode("UNICHAIN_SEPOLIA"), <<"ALCHEMY", "UNICHAIN_SEPOLIA">>>>)

LEMMA UnichainSepoliaServable ==
  ASSUME Undefined \notin {UnichainSepoliaRow.providerInitialWeights,
                         UnichainSepoliaRow.providerUrls}
  PROVE  IsServable(UnichainSepoliaRow)
<1>. DEFINE k == <<"QUICKNODE", "UNICHAIN_SEPOLIA">>
            u == <<"ALCHEMY", "UNICHAIN_SEPOLIA">>
<1>1. /\ k \in DeployedUrls
      /\ k[1] = "QUICKNODE" /\ k[2] = "UNICHAIN_SEPOLIA"
  BY DEF DeployedUrls, Quicknode
<1>2. /\ u \in DeployedUrls /\ u[1] = "ALCHEMY" /\ u[2] = "UNICHAIN_SEPOLIA"
  BY DEF DeployedUrls
<1>3. /\ UnichainSepoliaRow.useMultiProviderProb = 100 /\ UnichainSepoliaRow.named
      /\ UnichainSepoliaRow.providerUrls = <<k, u>>
      /\ UnichainSepoliaRow.providerInitialWeights = <<0, 1>>
  BY DEF UnichainSepoliaRow, Row, Quicknode
<1>. HIDE DEF k, u
<1>4. IsKnown(k) /\ IsKnown(u)
  BY <1>1, <1>2 DEF IsKnown, KnownUrls
<1>5. Host(k) # Host(u)
  BY <1>1, <1>2 DEF Host
<1>. QED  BY <1>1, <1>2, <1>3, <1>4, <1>5, PairServable

LEMMA UnirpcServable ==
  ASSUME NEW c,
         Undefined \notin {OnlyUnirpc(c).providerInitialWeights, OnlyUnirpc(c).providerUrls}
  PROVE  IsServable(OnlyUnirpc(c))
<1>. DEFINE urls == <<Unirpc>>
            weights == <<1>>
<1>1. /\ DOMAIN urls = {1} /\ Len(urls) = 1 /\ Len(weights) = 1 /\ urls # <<>>
      /\ urls[1] = Unirpc /\ weights[1] = 1
  OBVIOUS
<1>. HIDE DEF urls, weights
<1>. DEFINE row == OnlyUnirpc(c)
<1>2. /\ row.useMultiProviderProb = 100 /\ row.named
      /\ row.providerUrls = urls /\ row.providerInitialWeights = weights
      /\ Undefined \notin {row.providerInitialWeights, row.providerUrls}
  BY DEF OnlyUnirpc, Row, urls, weights
<1>. HIDE DEF row
<1>3. \A n \in DOMAIN urls : urls[n] \in DeployedUrls /\ IsKnown(urls[n])
  BY <1>1, UnirpcUrl
<1>4. \E n \in DOMAIN urls : /\ weights[n] # 0
                            /\ \A m \in DOMAIN urls : m # n => Host(urls[m]) # Host(urls[n])
  BY <1>1
<1>5. /\ urls # <<>> /\ Len(weights) = Len(urls)
      /\ DOMAIN urls \subseteq Int
  BY <1>1
<1>6. IsServable(row)
  BY <1>2, <1>3, <1>4, <1>5 DEF IsServable
<1>. QED  BY <1>6 DEF row

MainnetRow ==
  Row("MAINNET", <<0, 1, 0>>, <<Quicknode("MAINNET"), Unirpc, <<"QUICKNODERETH", "MAINNET">>>>)

LEMMA MainnetServable ==
  ASSUME Undefined \notin {MainnetRow.providerInitialWeights, MainnetRow.providerUrls}
  PROVE  IsServable(MainnetRow)
<1>. DEFINE k == <<"QUICKNODE", "MAINNET">>
            r == <<"QUICKNODERETH", "MAINNET">>
            urls == <<k, Unirpc, r>>
            weights == <<0, 1, 0>>
<1>1. k \in DeployedUrls /\ k[1] = "QUICKNODE" /\ k[2] = "MAINNET"
  BY DEF DeployedUrls, Quicknode
<1>2. r \in DeployedUrls /\ r[1] = "QUICKNODERETH" /\ r[2] = "MAINNET"
  BY DEF DeployedUrls
<1>3. /\ MainnetRow.useMultiProviderProb = 100 /\ MainnetRow.named
      /\ MainnetRow.providerUrls = urls /\ MainnetRow.providerInitialWeights = weights
  BY DEF MainnetRow, Row, Quicknode
<1>. HIDE DEF k, r
<1>4. IsKnown(k) /\ IsKnown(r)
  BY <1>1, <1>2 DEF IsKnown, KnownUrls
<1>5. Host(k) # Host(Unirpc) /\ Host(r) # Host(Unirpc)
  BY <1>1, <1>2, UnirpcUrl DEF Host
<1>6. /\ DOMAIN urls = {1, 2, 3} /\ Len(urls) = 3 /\ Len(weights) = 3 /\ urls # <<>>
      /\ urls[1] = k /\ urls[2] = Unirpc /\ urls[3] = r /\ weights[2] = 1
  OBVIOUS
<1>. HIDE DEF urls, weights
<1>. QED  BY <1>1, <1>2, <1>3, <1>4, <1>5, <1>6, UnirpcUrl DEF IsServable

\* The rows of the deployed configuration.
LEMMA DeployedRows ==
  ASSUME NEW i \in DOMAIN PROD_CONFIG
  PROVE  IsServable(PROD_CONFIG[i])
<1>1. \/ \E c \in UnweightedChains : PROD_CONFIG[i] = Unweighted(c)
      \/ \E c : PROD_CONFIG[i] = OnlyUnirpc(c)
      \/ PROD_CONFIG[i] \in {SepoliaRow, MainnetRow, UnichainSepoliaRow}
  <2>1. i \in 1..18
    BY DEF PROD_CONFIG
  <2>2. CASE i \in 1..4
    BY <2>2 DEF PROD_CONFIG, UnweightedChains
  <2>3. CASE i \in {5, 9, 14}
    <3>1. PROD_CONFIG[5] = SepoliaRow
      BY DEF PROD_CONFIG, SepoliaRow
    <3>2. PROD_CONFIG[9] = MainnetRow
      BY DEF PROD_CONFIG, MainnetRow
    <3>3. PROD_CONFIG[14] = UnichainSepoliaRow
      BY DEF PROD_CONFIG, UnichainSepoliaRow
    <3>. QED  BY <2>3, <3>1, <3>2, <3>3
  <2>4. CASE i \in {6, 7, 8}
    BY <2>4 DEF PROD_CONFIG, UnweightedChains
  <2>5. CASE i \in 10..13
    BY <2>5 DEF PROD_CONFIG, UnweightedChains
  <2>6. CASE i \in 15..18
    BY <2>6 DEF PROD_CONFIG
  <2>. QED  BY <2>1, <2>2, <2>3, <2>4, <2>5, <2>6
<1>2. Undefined \notin {PROD_CONFIG[i].providerInitialWeights, PROD_CONFIG[i].providerUrls}
  BY UndefinedAssumption
<1>. QED  BY <1>1, <1>2, UnweightedServable, UnirpcServable, SepoliaServable, MainnetServable,
             UnichainSepoliaServable
\* As deployed, no row makes a constructor throw.
LEMMA DeployedStep ==
  ASSUME FieldInv, DrawInv, ~fatal, prodConfig = PROD_CONFIG, IsDeployed(environment)
  PROVE  ~GetGlobalUniRpcProviders(TRUE)
<1>1. \A i \in Rows : IsServable(prodConfig[i])
  BY DeployedRows DEF Rows
<1>2. ValidateProdConfig
  <2>1. DeployedUrls \subseteq DOMAIN environment.urls
    BY DEF IsDeployed
  <2>. QED  BY <1>1, <2>1 DEF ValidateProdConfig, IsServable
<1>3. \A i \in Rows : ~SingleThrows(prodConfig[i]) /\ ~UniThrows(prodConfig[i])
  <2>1. environment.healthTable
    BY DEF IsDeployed
  <2>. QED  BY <1>1, <2>1 DEF SingleThrows, UniThrows, IsServable
<1>4. IsNull => SINGLE_RPC_PROVIDERS = Undefined
  BY DEF DrawInv, IsNull
<1>5. ASSUME NEW rows \in Draws, NEW singles
      PROVE  /\ BeforeThrow(rows, SingleThrows) = rows
             /\ ~InitGlobalUniRpcProviders(singles, TRUE)
  <2>1. BeforeThrow(rows, SingleThrows) = rows
    <3>1. rows \subseteq Rows
      BY DEF Draws
    <3>. QED  BY <1>3, <3>1 DEF BeforeThrow
  <2>2. BeforeThrow({i \in Rows : prodConfig[i].chain \in DOMAIN singles}, UniThrows)
          = {i \in Rows : prodConfig[i].chain \in DOMAIN singles}
    BY <1>3 DEF BeforeThrow
  <2>. QED  BY <2>1, <2>2 DEF InitGlobalUniRpcProviders
<1>. QED  BY <1>2, <1>4, <1>5 DEF GetGlobalUniRpcProviders

\* Where its row is servable a gateway has a provider that can be selected.
LEMMA ServableSelects ==
  ASSUME NEW row, IsServable(row)
  PROVE  LET uni == UniProvider(row, SingleProviders(row), 1)
         IN  \E url \in DOMAIN uni.urlWeight : uni.urlWeight[url] # 0
<1>. DEFINE singles == SingleProviders(row)
            uni == UniProvider(row, singles, 1)
<1>1. PICK n \in DOMAIN row.providerUrls :
        /\ row.providerInitialWeights[n] # 0
        /\ \A m \in DOMAIN row.providerUrls :
             m # n => Host(row.providerUrls[m]) # Host(row.providerUrls[n])
  BY DEF IsServable
<1>2. /\ DOMAIN singles = DOMAIN row.providerUrls
      /\ \A m \in DOMAIN singles : singles[m].url.host = Host(row.providerUrls[m])
  BY DEF SingleProviders, GenerateProviderUrl, Host
<1>. HIDE DEF singles
<1>3. \A m \in DOMAIN singles : singles[m].url = singles[n].url => m = n
  BY <1>1, <1>2
<1>. DEFINE Last(k) == /\ singles[k].url = singles[n].url
                       /\ \A m \in DOMAIN singles : singles[m].url = singles[n].url => m <= k
<1>4. n \in DOMAIN singles
  BY <1>2
<1>5. n <= n
  <2>1. n \in Int
    BY DEF IsServable
  <2>. QED  BY <2>1
<1>6. Last(n) /\ \A k \in DOMAIN singles : Last(k) => k = n
  BY <1>3, <1>4, <1>5
<1>7. (CHOOSE k \in DOMAIN singles : Last(k)) = n
  <2>. HIDE DEF Last
  <2>. QED  BY <1>4, <1>6
<1>8. /\ singles[n].url \in DOMAIN uni.urlWeight
      /\ uni.urlWeight[singles[n].url] = row.providerInitialWeights[n]
  BY <1>4, <1>7 DEF UniProvider, IsServable
<1>. QED  BY <1>1, <1>8 DEF singles
\* What is deployed stays so, and no chain of it throws.
DeployedInv ==
  /\ ServedInv
  /\ prodConfig = PROD_CONFIG /\ IsDeployed(environment) => ~fatal

LEMMA DeployedPreserved ==
  ASSUME ProvidersInv, DrawInv, DeployedInv, [ProvidersNext]_providersVars
  PROVE  DeployedInv'
<1>1. UNCHANGED <<prodConfig, environment>>
  BY DEF ProvidersNext, InjectChain, StartSession, providersVars
<1>2. ASSUME NEW throws \in BOOLEAN, GetGlobalUniRpcProviders(throws)
      PROVE  ServedInv'
  BY <1>1, <1>2, GetServed DEF ProvidersInv, DeployedInv
<1>3. CASE InjectChain
  <2>1. \/ GetGlobalUniRpcProviders(TRUE)
        \/ GetGlobalUniRpcProviders(FALSE) /\ UNCHANGED fatal
    BY <1>3 DEF InjectChain
  <2>2. ServedInv'
    BY <1>2, <2>1
  <2>3. ASSUME prodConfig = PROD_CONFIG, IsDeployed(environment)
        PROVE  ~fatal'
    BY <2>1, <2>3, DeployedStep DEF ProvidersInv, DeployedInv
  <2>. QED  BY <1>1, <2>2, <2>3 DEF DeployedInv
<1>4. ASSUME NEW chain \in InjectedChain, StartSession(chain)
      PROVE  DeployedInv'
  <2>1. GetGlobalUniRpcProviders(FALSE) /\ UNCHANGED fatal
    BY <1>4 DEF StartSession
  <2>2. ServedInv'
    BY <1>2, <2>1
  <2>. QED  BY <1>1, <2>1, <2>2 DEF DeployedInv
<1>5. CASE UNCHANGED providersVars
  BY <1>5 DEF providersVars, staticFields, DeployedInv, ServedInv, Rows, SingleProviders
<1>. QED  BY <1>3, <1>4, <1>5 DEF ProvidersNext

\* A chain that has no node behind WEB3_RPC has a row.
LEMMA EveryChainServed ==
  ASSUME NEW chain \in InjectedChain \ DeployedWeb3
  PROVE  \E i \in DOMAIN PROD_CONFIG : PROD_CONFIG[i].chain = chain
<1>1. chain \in {"WORLDCHAIN", "UNICHAIN_SEPOLIA", "MONAD_TESTNET", "BASE_SEPOLIA", "UNICHAIN",
                 "SONEIUM"}
  BY DEF DeployedWeb3
<1>2. /\ PROD_CONFIG[13].chain = "WORLDCHAIN" /\ PROD_CONFIG[14].chain = "UNICHAIN_SEPOLIA"
      /\ PROD_CONFIG[15].chain = "MONAD_TESTNET" /\ PROD_CONFIG[16].chain = "BASE_SEPOLIA"
      /\ PROD_CONFIG[17].chain = "UNICHAIN" /\ PROD_CONFIG[18].chain = "SONEIUM"
  BY DEF PROD_CONFIG, Unweighted, OnlyUnirpc, Row
<1>3. DOMAIN PROD_CONFIG = 1..18
  BY DEF PROD_CONFIG
<1>. QED  BY <1>1, <1>2, <1>3

\* An instance as it is deployed has an endpoint for every chain injected so far.
LEMMA DeployedEndpoints ==
  ASSUME ProvidersInv, DrawInv, DeployedInv, prodConfig = PROD_CONFIG, IsDeployed(environment),
         NEW i \in 1..position - 1
  PROVE  endpoint[InjectionOrder[i]] # NoEndpoint
<1>. DEFINE chain == InjectionOrder[i]
<1>1. ~fatal
  BY DEF DeployedInv
<1>2. position \in 1..Len(InjectionOrder) + 1 /\ chain \in InjectedChain /\ position > 1
  BY OrderDomain DEF ProvidersInv, ContainerInv, InjectedChain
<1>3. /\ builds = 1
      /\ endpoint[chain] = EndpointOf(chain, UNI_RPC_PROVIDERS)
  BY <1>1, <1>2 DEF ProvidersInv, ContainerInv
<1>. SUFFICES endpoint[chain] # NoEndpoint
  OBVIOUS
<1>. HIDE DEF chain
<1>4. CASE chain \in DOMAIN UNI_RPC_PROVIDERS
  BY <1>3, <1>4 DEF EndpointOf, ProvidersInv, FieldInv, NoEndpoint
<1>5. CASE chain \notin DOMAIN UNI_RPC_PROVIDERS
  <2>1. chain \in DeployedWeb3
    <3>1. ASSUME NEW r \in Rows  PROVE prodConfig[r].chain # chain
      BY <1>1, <1>3, <1>5, DeployedRows DEF DrawInv, Rows, IsServable
    <3>. QED  BY <1>2, <3>1, EveryChainServed DEF Rows
  <2>2. chain \in environment.web3
    BY <2>1 DEF IsDeployed
  <2>. QED  BY <1>3, <1>5, <2>2 DEF EndpointOf, NoEndpoint, Web3
<1>. QED  BY <1>4, <1>5

\* A failure of a provider with a name of its own is one that an alarm of its row watches.
LEMMA FailureWatched ==
  ASSUME NEW i \in DOMAIN PROD_CONFIG,
         NEW n \in DOMAIN SingleProviders(PROD_CONFIG[i])
  PROVE  LET provider == SingleProviders(PROD_CONFIG[i])[n]
         IN  \/ provider.urlKey[1] \notin {"QUICKNODE", "ALCHEMY"}
             \/ provider.url.value # "plain"
             \/ provider.providerId \in ErrorRateAlarms
<1>. DEFINE row == PROD_CONFIG[i]
            provider == SingleProviders(row)[n]
            urlKey == row.providerUrls[n]
            url == GenerateProviderUrl(urlKey, environment.urls[urlKey], row.chain)
<1>1. n \in DOMAIN row.providerUrls
  BY DEF SingleProviders
<1>2. /\ provider.urlKey = urlKey /\ provider.url = url
      /\ provider.providerId = GetProviderId(row.chain, DeriveProviderName(url))
  BY <1>1 DEF SingleProviders
<1>3. GetProviderId(row.chain, AlarmedName(urlKey)) \in ErrorRateAlarms
  BY <1>1 DEF ErrorRateAlarms
<1>4. url.host = Host(urlKey)
  BY DEF GenerateProviderUrl, Host
<1>5. ASSUME urlKey[1] \in {"QUICKNODE", "ALCHEMY"}, url.value = "plain"
      PROVE  DeriveProviderName(url) = AlarmedName(urlKey)
  <2>. HIDE DEF url, urlKey
  <2>1. CASE urlKey[1] = "QUICKNODE"
    BY <1>4, <1>5, <2>1 DEF DeriveProviderName, AlarmedName, Host
  <2>2. CASE urlKey[1] = "ALCHEMY"
    BY <1>4, <1>5, <2>2 DEF DeriveProviderName, AlarmedName, Host
  <2>. QED  BY <1>5, <2>1, <2>2
<1>. QED  BY <1>2, <1>3, <1>5

\* The configuration, the variables of the pipeline, the URLs the code knows and the names of
\* alarms and metrics agree (rpcProviderProdConfig.json, app.ts:213,
\* rpc-gateway-fallback-stack.ts:64), whatever the values of the variables are.
THEOREM DeploymentConsistent == ProvidersSpec => []DeploymentAgrees
<1>1. InitProviders => DeployedInv
  <2>. SUFFICES ASSUME InitProviders PROVE DeployedInv
    OBVIOUS
  <2>1. DOMAIN UNI_RPC_PROVIDERS = {} /\ SINGLE_RPC_PROVIDERS = Undefined /\ ~fatal
    BY DEF InitProviders
  <2>. QED  BY <2>1 DEF DeployedInv, ServedInv
<1>2. ProvidersInv /\ DrawInv /\ DeployedInv /\ [ProvidersNext]_providersVars => DeployedInv'
  BY DeployedPreserved
<1>3. ProvidersInv /\ DrawInv /\ DeployedInv => DeploymentAgrees
  <2>. SUFFICES ASSUME ProvidersInv, DrawInv, DeployedInv, prodConfig = PROD_CONFIG
                PROVE  DeploymentAgrees
    BY DEF DeploymentAgrees, DeployedInstancesStart, FailuresReachTheTable
  <2>1. ASSUME NEW chain \in DOMAIN UNI_RPC_PROVIDERS
        PROVE  \E i \in DOMAIN PROD_CONFIG :
                 UNI_RPC_PROVIDERS[chain]
                   = UniProvider(PROD_CONFIG[i], SingleProviders(PROD_CONFIG[i]), 1)
    BY DEF DeployedInv, ServedInv, Rows
  <2>2. DeployedInstancesStart
    <3>. SUFFICES ASSUME IsDeployed(environment) PROVE DeployedInstancesStart
      BY DEF DeployedInstancesStart
    <3>1. ~fatal
      BY DEF DeployedInv
    <3>2. \A i \in 1..position - 1 : endpoint[InjectionOrder[i]] # NoEndpoint
      BY DeployedEndpoints
    <3>3. ASSUME NEW chain \in DOMAIN UNI_RPC_PROVIDERS
          PROVE  LET uni == UNI_RPC_PROVIDERS[chain]
                 IN  \E url \in DOMAIN uni.urlWeight : uni.urlWeight[url] # 0
      BY <2>1, DeployedRows, ServableSelects
    <3>. QED  BY <3>1, <3>2, <3>3 DEF DeployedInstancesStart
  <2>3. FailuresReachTheTable
    <3>. SUFFICES ASSUME NEW chain \in DOMAIN UNI_RPC_PROVIDERS,
                         NEW n \in DOMAIN UNI_RPC_PROVIDERS[chain].providers
                  PROVE  LET provider == UNI_RPC_PROVIDERS[chain].providers[n]
                         IN  \/ provider.urlKey[1] \notin {"QUICKNODE", "ALCHEMY"}
                             \/ provider.url.value # "plain"
                             \/ provider.providerId \in ErrorRateAlarms
      BY DEF FailuresReachTheTable
    <3>1. PICK i \in DOMAIN PROD_CONFIG :
            UNI_RPC_PROVIDERS[chain]
              = UniProvider(PROD_CONFIG[i], SingleProviders(PROD_CONFIG[i]), 1)
      BY <2>1
    <3>2. UNI_RPC_PROVIDERS[chain].providers = SingleProviders(PROD_CONFIG[i])
      BY <3>1 DEF UniProvider
    <3>. QED  BY <3>2, FailureWatched
  <2>. QED  BY <2>2, <2>3 DEF DeploymentAgrees
<1>. QED  BY <1>1, <1>2, <1>3, ProvidersInvariant, PTL DEF ProvidersSpec
-----------------------------------------------------------------------------
(* The calls of a quoter.  A chain with tables of its own has at most two  *)
(* parameters in a request, those of its batches and those of its retries, *)
(* and Celo, which has a third, does not retry.                            *)

Retried == Tuned \ {"CELO"}

\* The parameters of retries are safer than those of the first attempt.
LEMMA RetriesAreSafer ==
  ASSUME NEW chain \in Retried, NEW quoter, NEW protocol, NEW optimistic
  PROVE  LET first == BatchParams(quoter, protocol, chain, optimistic)
             retry == GasErrorOverride(chain)
         IN  /\ first.chunk \in Nat /\ first.gas \in Nat /\ retry.chunk \in Nat /\ retry.gas \in Nat
             /\ retry.chunk <= first.chunk /\ retry.gas >= first.gas
             /\ SuccessRateOverride(chain) = retry
<1>. DEFINE first == BatchParams(quoter, protocol, chain, optimistic)
            retry == GasErrorOverride(chain)
<1>1. chain # "MAINNET" /\ chain # "CELO" /\ SuccessRateOverride(chain) = retry
  BY DEF Retried, Tuned, Plain, SuccessRateOverride
<1>2. first \in {OptimisticBatch(chain), NonOptimisticBatch(chain)}
  BY <1>1 DEF BatchParams, OptimisticParams, NonOptimisticParams
<1>3. CASE chain = "BASE"
  <2>1. /\ OptimisticBatch("BASE") = Of(1320, 100) /\ NonOptimisticBatch("BASE") = Of(660, 200)
        /\ GasErrorOverride("BASE") = Of(45, 3000)
    BY DEF OptimisticBatch, NonOptimisticBatch, GasErrorOverride, Plain
  <2>. QED  BY <1>1, <1>2, <1>3, <2>1 DEF Of
<1>4. CASE chain = "ARBITRUM_ONE"
  <2>1. /\ OptimisticBatch("ARBITRUM_ONE") = Of(3000, 75)
        /\ NonOptimisticBatch("ARBITRUM_ONE") = Of(1125, 200)
        /\ GasErrorOverride("ARBITRUM_ONE") = Of(8, 30000)
    BY DEF OptimisticBatch, NonOptimisticBatch, GasErrorOverride, Plain
  <2>. QED  BY <1>1, <1>2, <1>4, <2>1 DEF Of
<1>5. CASE chain = "OPTIMISM"
  <2>1. /\ OptimisticBatch("OPTIMISM") = Of(1650, 80)
        /\ NonOptimisticBatch("OPTIMISM") = Of(880, 150)
        /\ GasErrorOverride("OPTIMISM") = Of(45, 3000)
    BY DEF OptimisticBatch, NonOptimisticBatch, GasErrorOverride, Plain
  <2>. QED  BY <1>1, <1>2, <1>5, <2>1 DEF Of
<1>6. CASE chain = "BLAST"
  <2>1. /\ OptimisticBatch("BLAST") = Of(1200, 80) /\ NonOptimisticBatch("BLAST") = Of(1200, 80)
        /\ GasErrorOverride("BLAST") = Of(45, 3000)
    BY DEF OptimisticBatch, NonOptimisticBatch, GasErrorOverride, Plain
  <2>. QED  BY <1>1, <1>2, <1>6, <2>1 DEF Of
<1>7. CASE chain = "ZKSYNC"
  <2>1. /\ OptimisticBatch("ZKSYNC") = Of(20, 4000) /\ NonOptimisticBatch("ZKSYNC") = Of(20, 4000)
        /\ GasErrorOverride("ZKSYNC") = Of(10, 6000)
    BY DEF OptimisticBatch, NonOptimisticBatch, GasErrorOverride, Plain
  <2>. QED  BY <1>1, <1>2, <1>7, <2>1 DEF Of
<1>8. CASE chain \in Plain
  <2>1. /\ chain \notin {"BASE", "ARBITRUM_ONE", "OPTIMISM", "CELO", "BLAST", "AVALANCHE", "BNB"}
        /\ chain \notin {"POLYGON", "MAINNET", "ZKSYNC"}
    BY <1>8 DEF Plain
  <2>2. OptimisticBatch(chain) = Of(80, 1200) /\ NonOptimisticBatch(chain) = Of(80, 1200)
    BY <1>8, <2>1 DEF OptimisticBatch, NonOptimisticBatch
  <2>3. GasErrorOverride(chain) = Of(45, 3000)
    BY <1>8, <2>1 DEF GasErrorOverride
  <2>. QED  BY <1>1, <1>2, <2>2, <2>3 DEF Of
<1>. QED  BY <1>3, <1>4, <1>5, <1>6, <1>7, <1>8 DEF Retried, Tuned

\* What a quoter that is calling may go by.
PackingInv ==
  packing.stage = "calling" =>
    /\ packing.attempt \in Nat \ {0}
    /\ packing.chain \in Retried =>
         packing.params \in
           {BatchParams(packing.quoter, packing.protocol, packing.chain, packing.optimistic),
            GasErrorOverride(packing.chain)}

PackingType ==
  packing = [stage |-> packing.stage, quoter |-> packing.quoter, protocol |-> packing.protocol,
             chain |-> packing.chain, optimistic |-> packing.optimistic,
             attempt |-> packing.attempt, params |-> packing.params, back |-> packing.back]

LEMMA PackingInit == InitBatches => PackingType /\ PackingInv
BY DEF InitBatches, PackingType, PackingInv

\* A failed attempt ends the call or is retried with what the chain has for that failure.
LEMMA FailedAttempt ==
  ASSUME PackingType, PackingInv,
         NEW kind \in FailureKind, FailBatches(kind)
  PROVE  /\ PackingType' /\ packing.stage = "calling"
         /\ \/ packing'.stage = "done"
            \/ /\ packing'.stage = "calling" /\ packing'.attempt = packing.attempt + 1
               /\ packing.attempt <= Retries(packing.chain)
               /\ packing'.params \in {packing.params, GasErrorOverride(packing.chain),
                                       SuccessRateOverride(packing.chain)}
               /\ packing'.quoter = packing.quoter /\ packing'.protocol = packing.protocol
               /\ packing'.chain = packing.chain /\ packing'.optimistic = packing.optimistic
<1>1. packing.stage = "calling" /\ packing.attempt \in Nat
  BY DEF FailBatches, PackingInv
<1>2. CASE packing.attempt > Retries(packing.chain)
  <2>1. packing' = [packing EXCEPT !.stage = "done"]
    BY <1>2 DEF FailBatches
  <2>2. packing'.stage = "done" /\ PackingType'
    BY <2>1 DEF PackingType
  <2>. QED  BY <1>1, <2>2
<1>3. CASE ~ (packing.attempt > Retries(packing.chain))
  <2>1. packing' = [AfterFailure(kind) EXCEPT !.attempt = @ + 1]
    BY <1>3 DEF FailBatches
  <2>2. AfterFailure(kind) \in
          {[packing EXCEPT !.params = GasErrorOverride(packing.chain)],
           [packing EXCEPT !.params = SuccessRateOverride(packing.chain)],
           [packing EXCEPT !.back = RollbackOffset(packing.chain)], packing}
    BY DEF AfterFailure, FailureKind
  <2>3. packing.attempt <= Retries(packing.chain)
    <3>1. Retries(packing.chain) \in Nat
      BY BatchesAssumption DEF Retries
    <3>2. packing.attempt \in Nat
      BY <1>1
    <3>. QED  BY <1>3, <3>1, <3>2
  <2>. DEFINE after == AfterFailure(kind)
  <2>4. /\ after = [stage |-> after.stage, quoter |-> after.quoter, protocol |-> after.protocol,
                   chain |-> after.chain, optimistic |-> after.optimistic,
                   attempt |-> after.attempt, params |-> after.params, back |-> after.back]
        /\ after.stage = packing.stage /\ after.attempt = packing.attempt
        /\ after.params \in {packing.params, GasErrorOverride(packing.chain),
                             SuccessRateOverride(packing.chain)}
        /\ after.quoter = packing.quoter /\ after.protocol = packing.protocol
        /\ after.chain = packing.chain /\ after.optimistic = packing.optimistic
    BY <2>2 DEF PackingType
  <2>. HIDE DEF after
  <2>5. packing' = [after EXCEPT !.attempt = after.attempt + 1]
    BY <2>1 DEF after
  <2>6. /\ packing'.stage = after.stage /\ packing'.attempt = after.attempt + 1
        /\ packing'.params = after.params
        /\ packing'.quoter = after.quoter /\ packing'.protocol = after.protocol
        /\ packing'.chain = after.chain /\ packing'.optimistic = after.optimistic
        /\ PackingType'
    BY <2>4, <2>5 DEF PackingType
  <2>. QED  BY <1>1, <2>3, <2>4, <2>6
<1>. QED  BY <1>2, <1>3

LEMMA PackingStep ==
  ASSUME PackingType, PackingInv, [BatchesNext]_batchVars
  PROVE  PackingType' /\ PackingInv'
<1>1. ASSUME NEW quoter, NEW protocol, NEW chain, NEW optimistic,
             StartBatches(quoter, protocol, chain, optimistic)
      PROVE  PackingType' /\ PackingInv'
  BY <1>1 DEF StartBatches, PackingType, PackingInv
<1>2. ASSUME NEW kind \in FailureKind, FailBatches(kind)
      PROVE  PackingType' /\ PackingInv'
  <2>1. packing.attempt \in Nat
    BY <1>2, FailedAttempt DEF PackingInv
  <2>2. CASE packing'.stage = "done"
    BY <1>2, <2>2, FailedAttempt DEF PackingInv
  <2>3. CASE packing'.stage # "done"
    <3>1. packing'.attempt = packing.attempt + 1
      BY <1>2, <2>3, FailedAttempt
    <3>2. packing'.attempt \in Nat \ {0}
      BY <2>1, <3>1
    <3>3. packing.chain \in Retried =>
            packing'.params \in {packing.params, GasErrorOverride(packing.chain)}
      BY <1>2, <2>3, FailedAttempt, RetriesAreSafer
    <3>4. /\ packing'.quoter = packing.quoter /\ packing'.protocol = packing.protocol
          /\ packing'.chain = packing.chain /\ packing'.optimistic = packing.optimistic
          /\ PackingType'
      BY <1>2, <2>3, FailedAttempt
    <3>5. packing.stage = "calling"
      BY <1>2, FailedAttempt
    <3>. QED  BY <3>2, <3>3, <3>4, <3>5 DEF PackingInv
  <2>. QED  BY <2>2, <2>3
<1>3. CASE AnswerBatches
  BY <1>3 DEF AnswerBatches, PackingType, PackingInv
<1>4. CASE UNCHANGED batchVars
  BY <1>4 DEF batchVars, PackingType, PackingInv
<1>. QED  BY <1>1, <1>2, <1>3, <1>4 DEF BatchesNext

\* On the chains with tables of their own a retry is never packed tighter than the attempt
\* that failed (onChainQuoteProviderConfigs.ts:18-886), whatever the library's parameters are.
THEOREM RetriesSafer == BatchesSpec => RetriesGetMoreGas
<1>1. PackingType /\ PackingInv /\ [BatchesNext]_batchVars
        => [(packing.chain \in Tuned /\ packing.stage = "calling" /\ packing'.stage = "calling") =>
              /\ packing'.params.chunk <= packing.params.chunk
              /\ packing'.params.gas >= packing.params.gas]_batchVars
  <2>. SUFFICES ASSUME PackingType, PackingInv, BatchesNext, packing.chain \in Tuned,
                       packing.stage = "calling", packing'.stage = "calling"
                PROVE  /\ packing'.params.chunk <= packing.params.chunk
                       /\ packing'.params.gas >= packing.params.gas
    OBVIOUS
  <2>1. PICK kind \in FailureKind : FailBatches(kind)
    <3>1. ASSUME NEW quoter, NEW protocol, NEW chain, NEW optimistic
          PROVE  ~ StartBatches(quoter, protocol, chain, optimistic)
      BY DEF StartBatches
    <3>2. ~ AnswerBatches
      BY DEF AnswerBatches, PackingType
    <3>. QED  BY <3>1, <3>2 DEF BatchesNext
  <2>2. /\ packing.attempt <= Retries(packing.chain)
        /\ packing'.params \in {packing.params, GasErrorOverride(packing.chain),
                                SuccessRateOverride(packing.chain)}
    BY <2>1, FailedAttempt
  <2>3. packing.chain # "CELO"
    <3>1. Retries("CELO") = 0
      BY DEF Retries
    <3>2. packing.attempt \in Nat \ {0}
      BY DEF PackingInv
    <3>3. packing.attempt <= Retries(packing.chain)
      BY <2>2
    <3>4. Retries(packing.chain) # 0
      BY <3>2, <3>3
    <3>. QED  BY <3>1, <3>4
  <2>4. packing.chain \in Retried
    BY <2>3 DEF Retried
  <2>5. packing.params \in
          {BatchParams(packing.quoter, packing.protocol, packing.chain, packing.optimistic),
           GasErrorOverride(packing.chain)}
    BY <2>4 DEF PackingInv
  <2>. DEFINE first == BatchParams(packing.quoter, packing.protocol, packing.chain,
                                   packing.optimistic)
              retry == GasErrorOverride(packing.chain)
  <2>6. /\ first.chunk \in Nat /\ first.gas \in Nat /\ retry.chunk \in Nat /\ retry.gas \in Nat
        /\ retry.chunk <= first.chunk /\ retry.gas >= first.gas
        /\ SuccessRateOverride(packing.chain) = retry
    BY <2>4, RetriesAreSafer
  <2>. HIDE DEF first, retry
  <2>7. packing.params \in {first, retry} /\ packing'.params \in {packing.params, retry}
    BY <2>2, <2>5, <2>6 DEF first, retry
  <2>. QED  BY <2>6, <2>7
<1>. QED  BY PackingInit, PackingStep, <1>1, PTL DEF BatchesSpec, RetriesGetMoreGas
=============================================================================
