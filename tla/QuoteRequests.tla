---------------------------- MODULE QuoteRequests ----------------------------
(***************************************************************************)
(* An instance of the routing lambda: it builds its container once and     *)
(* then answers one request after the other.  A request is validated,      *)
(* gets what the container has for its chain, and is refused, routed or    *)
(* given up; each way out has its status, and those that reach the quote   *)
(* handler are counted.                                                    *)
(***************************************************************************)
EXTENDS FiniteSets

CONSTANTS
  QuoteRequest,  \* requests, see Requests
  WithoutRpc     \* chains without an RPC endpoint in the environment

Protocols == {"V2", "V3", "V4", "MIXED"}

SUPPORTED_CHAINS ==
  {"MAINNET", "OPTIMISM", "ARBITRUM_ONE", "POLYGON", "SEPOLIA", "CELO", "CELO_ALFAJORES", "BNB",
   "AVALANCHE", "BASE", "BLAST", "ZORA", "ZKSYNC", "WORLDCHAIN", "UNICHAIN_SEPOLIA",
   "MONAD_TESTNET", "BASE_SEPOLIA", "UNICHAIN", "SONEIUM"}

\* What tells requests apart; protocols is empty when the parameter is left out, and a
\* protocol may be given twice.
Requests ==
  [body : {"none", "malformed"}, params : {"none", "given"}, chain : STRING, chainOut : STRING,
   version : {"1.2", "2.0"}, protocols : SUBSET Protocols, twice : BOOLEAN,
   forceCrossProtocol : BOOLEAN, pinned : BOOLEAN, same : BOOLEAN,
   type : {"exactIn", "exactOut"}, amount : {"zero", "some", "too large"},
   universal : BOOLEAN, slippage : BOOLEAN, addressed : BOOLEAN, simulate : BOOLEAN,
   signature : {"none", "malformed", "good"}, permit : {"none", "half", "whole"},
   portion : BOOLEAN, debug : {"none", "malformed", "given"}]

ASSUME RequestsAssumption == QuoteRequest \subseteq Requests /\ WithoutRpc \subseteq SUPPORTED_CHAINS

VARIABLES
  container,     \* the promise of the container
  dependencies,  \* what the container has for each chain
  asked,         \* the request
  stage,         \* how far it got
  found,         \* the tokens looked up so far
  protocols,     \* what the router may use
  swap,          \* what SwapOptionsFactory assembled
  answer,        \* the status of the response and its error code
  counted        \* the metric of this request

requestVars == <<container, dependencies, asked, stage, found, protocols, swap, answer, counted>>

handling == <<asked, found, protocols, swap>>

(* ------------------------------- validation ------------------------------- *)

\* The body is parsed although there is no schema for it; without parameters there is nothing
\* to validate, and the missing ones are noticed later.
Refused(r) ==
  IF r.body = "malformed" THEN "422"
    ELSE IF r.params = "given" /\ ~({r.chain, r.chainOut} \subseteq SUPPORTED_CHAINS) THEN "400"
    ELSE "none"

(* -------------------------------- protocols ------------------------------- *)

URVersionsToProtocolVersions(version) == IF version = "1.2" THEN {"V2", "V3"} ELSE {"V2", "V3", "V4"}

\* Nothing means all of them.
ProtocolsFromRequest(r) ==
  IF r.protocols = {} THEN IF r.forceCrossProtocol THEN {} ELSE {"V3"}
    ELSE IF r.chain = "UNICHAIN" /\ r.pinned THEN {"V4"}
    ELSE r.protocols \intersect (URVersionsToProtocolVersions(r.version) \union {"MIXED"})

OnlyMixed(r) == ProtocolsFromRequest(r) = {"MIXED"} /\ ~r.twice

(* ------------------------------- swap options ----------------------------- *)

NoOptions == [type |-> "none", permit |-> FALSE, simulate |-> FALSE, fee |-> "none"]

UniversalRouterOptions(r) ==
  [type |-> "UNIVERSAL_ROUTER", permit |-> r.signature # "none" /\ r.permit = "whole",
   simulate |-> r.simulate,
   fee |-> IF ~r.portion THEN "none" ELSE IF r.type = "exactIn" THEN "share" ELSE "flat"]

\* Without a recipient and a deadline there are no options, and what is asked on top is lost.
SwapRouter02Options(r) ==
  IF ~r.addressed THEN NoOptions
    ELSE [type |-> "SWAP_ROUTER_02", permit |-> r.signature # "none" /\ r.permit # "none",
          simulate |-> r.simulate, fee |-> "none"]

SwapOptions(r) ==
  IF ~r.slippage THEN NoOptions
    ELSE IF r.universal THEN UniversalRouterOptions(r) ELSE SwapRouter02Options(r)

\* The old router's options split the signature, whether or not there are options.
SplitsSignature(r) == r.slippage /\ ~r.universal /\ r.signature # "none" /\ r.permit # "none"

\* What may throw before the amount is looked at: amounts are numbers of 256 bits, and the
\* universal router's portion is computed from one.
AssemblyThrows(r) ==
  \/ r.debug = "malformed"
  \/ SplitsSignature(r) /\ r.signature = "malformed"
  \/ r.amount = "too large"

(* -------------------------------- the steps ------------------------------- *)

NotFound == [t \in {"in", "out"} |-> "unknown"]

InitRequests ==
  /\ container = "building" /\ dependencies = [c \in {} |-> "full"]
  /\ asked \in QuoteRequest
  /\ stage = "idle" /\ found = NotFound /\ protocols = {} /\ swap = NoOptions
  /\ answer = [status |-> "none", code |-> "none"] /\ counted = "none"

\* A bug: a chain without an endpoint is left out.
BuiltWithRpc == [c \in SUPPORTED_CHAINS \ WithoutRpc |-> "full"]

\* A chain without an endpoint has an entry, with nothing in it.
Built == [c \in SUPPORTED_CHAINS |-> IF c \in WithoutRpc THEN "empty" ELSE "full"]

BuildContainer(how) ==
  /\ container = "building"
  /\ container' = how
  /\ dependencies' = IF how = "built" THEN Built ELSE dependencies
  /\ UNCHANGED <<handling, stage, answer, counted>>

Begin(r) ==
  /\ stage = "idle"
  /\ asked' = r /\ stage' = "validating"
  /\ found' = NotFound /\ protocols' = {} /\ swap' = NoOptions
  /\ answer' = [status |-> "none", code |-> "none"] /\ counted' = "none"
  /\ UNCHANGED <<container, dependencies>>

\* The response of a request that does not reach the quote handler, or leaves it.
Respond(status, code) == stage' = "idle" /\ answer' = [status |-> status, code |-> code]

Validate ==
  /\ stage = "validating"
  /\ IF Refused(asked) # "none" THEN Respond(Refused(asked), "VALIDATION_ERROR")
       ELSE stage' = "injecting" /\ UNCHANGED answer
  /\ UNCHANGED <<container, dependencies, handling, counted>>

\* The promise is awaited outside of any try: what it was rejected with ends the request.
Inject ==
  /\ stage = "injecting" /\ container # "building"
  /\ CASE container = "rejected"                -> Respond("thrown", "none")
       [] container = "built" /\ asked.params = "none" -> Respond("500", "INTERNAL_ERROR")
       [] container = "built" /\ asked.params = "given" ->
            IF asked.chain \in DOMAIN dependencies THEN stage' = "checking" /\ UNCHANGED answer
              ELSE Respond("500", "no dependencies")
  /\ UNCHANGED <<container, dependencies, handling, counted>>

\* The metric a status is counted under.
Class(status) == IF status = "404" THEN "400" ELSE status

\* handleRequest counts what handleRequestInternal answers.
Answer(status, code) == Respond(status, code) /\ counted' = Class(status)

\* handleRequest counts an error and throws it on.
Throw == Respond("500", "INTERNAL_ERROR") /\ counted' = "500"

Check ==
  /\ stage = "checking"
  /\ CASE asked.chain # asked.chainOut -> Answer("400", "TOKEN_CHAINS_DIFFERENT") /\ UNCHANGED protocols
       [] asked.chain = asked.chainOut /\ OnlyMixed(asked) -> Answer("400", "INVALID_PROTOCOL") /\ UNCHANGED protocols
       [] OTHER -> /\ stage' = "looking up" /\ protocols' = ProtocolsFromRequest(asked)
                   /\ UNCHANGED <<answer, counted>>
  /\ UNCHANGED <<container, dependencies, asked, found, swap>>

\* A token is native, in a list or on the chain, or nowhere; both are looked up at once.  A
\* chain whose entry is empty has no lists, which only the name of its native currency does
\* not need.
LookUp(t, how) ==
  /\ stage = "looking up" /\ found[t] = "unknown"
  /\ dependencies[asked.chain] = "empty" => how \in {"native", "failed"}
  /\ found' = [found EXCEPT ![t] = how]
  /\ IF how = "failed" THEN Throw ELSE UNCHANGED <<stage, answer, counted>>
  /\ UNCHANGED <<container, dependencies, asked, protocols, swap>>

\* The names of the native currency are one currency.
SameCurrency == asked.same \/ {found["in"], found["out"]} = {"native"}

Assemble ==
  /\ stage = "looking up" /\ \A t \in {"in", "out"} : found[t] # "unknown"
  /\ CASE found["in"] = "nowhere" -> Answer("400", "TOKEN_IN_INVALID") /\ UNCHANGED swap
       [] found["in"] # "nowhere" /\ found["out"] = "nowhere" -> Answer("400", "TOKEN_OUT_INVALID") /\ UNCHANGED swap
       [] SameCurrency /\ "nowhere" \notin {found["in"], found["out"]} -> Answer("400", "TOKEN_IN_OUT_SAME") /\ UNCHANGED swap
       [] OTHER -> /\ swap' = IF AssemblyThrows(asked) THEN NoOptions ELSE SwapOptions(asked)
                   /\ CASE AssemblyThrows(asked) -> Throw
                        [] asked.amount = "zero" /\ ~AssemblyThrows(asked) -> Answer("400", "AMOUNT_INVALID")
                        [] OTHER -> stage' = "routing" /\ UNCHANGED <<answer, counted>>
  /\ UNCHANGED <<container, dependencies, asked, found, protocols>>

\* A bug: a quote is counted where its response is written.
RouteUncounted(how) ==
  /\ stage = "routing"
  /\ CASE how = "route"    -> stage' = "responding" /\ UNCHANGED <<answer, counted>>
       [] how = "no route" -> Answer("404", "NO_ROUTE")
       [] how = "error"    -> Throw
  /\ UNCHANGED <<container, dependencies, handling>>

\* External: the router.  Its answer may still be one the handler cannot describe.
Route(how) ==
  /\ stage = "routing"
  /\ CASE how = "route"    -> stage' = "responding" /\ counted' = "200" /\ UNCHANGED answer
       [] how = "no route" -> Answer("404", "NO_ROUTE")
       [] how = "error"    -> Throw
  /\ UNCHANGED <<container, dependencies, handling>>

\* The response is validated when the request has been counted.
ValidateResponse(valid) ==
  /\ stage = "responding"
  /\ IF valid THEN Respond("200", "none") ELSE Respond("500", "INTERNAL_ERROR")
  /\ UNCHANGED <<container, dependencies, handling, counted>>

\* Lambda ends the instance: between two requests, in the middle of one, or at its timeout.
EndInstance ==
  /\ container' = "building" /\ dependencies' = [c \in {} |-> "full"]
  /\ IF stage = "idle" THEN UNCHANGED <<stage, answer>> ELSE Respond("thrown", "none")
  /\ UNCHANGED <<handling, counted>>

RequestsNext ==
  \/ \E how \in {"built", "rejected"} : BuildContainer(how)
  \/ \E r \in QuoteRequest : Begin(r)
  \/ Validate \/ Inject \/ Check \/ Assemble \/ EndInstance
  \/ \E t \in {"in", "out"}, how \in {"native", "list", "chain", "nowhere", "failed"} : LookUp(t, how)
  \/ \E how \in {"route", "no route", "error"} : Route(how)
  \/ \E valid \in BOOLEAN : ValidateResponse(valid)

RequestsSpec == InitRequests /\ [][RequestsNext]_requestVars

(* ------------------------------- properties ------------------------------- *)

\* The metrics of the quote handler tell what its clients got (quote.ts:58-192): a request is
\* counted under the status it is answered with, and only those go uncounted that never
\* reached the quote handler (refused by the validation, without parameters, for a chain the
\* container has nothing for) or ended with the instance or its container.  The one exception is
\* a quote, which is counted before its response is validated (handler.ts:201-213) or its
\* instance ends.
CountedAsAnswered ==
  stage = "idle" =>
    IF counted = "none"
      THEN \/ answer.status \in {"none", "thrown"}
           \/ answer.code \in {"VALIDATION_ERROR", "no dependencies"}
           \/ asked.params = "none" /\ answer.status = "500"
      ELSE \/ counted = Class(answer.status)
           \/ counted = "200" /\ answer.status \in {"500", "thrown"}

\* What quote/injector.ts:81-84 says cannot happen: a request that passed validation is for
\* a chain the container has an entry for, whichever endpoints the environment lacks.
ChainsInjected == answer.code # "no dependencies"
=============================================================================
