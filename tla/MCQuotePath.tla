----------------------------- MODULE MCQuotePath -----------------------------
(***************************************************************************)
(* The parts of the quote path that share no state with each other,        *)
(* checked in one run: whatever they do at the same time, a step of one    *)
(* leaves the others alone, so every behaviour of the whole shows each     *)
(* part a behaviour of its own.  A behaviour of this instance is one of    *)
(* one part, with the other parts where they start.                        *)
(***************************************************************************)
EXTENDS V3Pools, TokenFees, QuoterSwitch, QuoteBatches, PoolFiles, V4Pools, QuoteRequests,
        RpcProviders, TLC

CONSTANTS p1, p2, c1, c2

VARIABLE part

allVars == <<part, poolsVars, feesVars, quoterVars, batchVars, filesVars, v4Vars, requestVars,
             providersVars>>

Parts == {"pools", "fees", "quoter", "batches", "files", "v4", "requests", "providers"}

(* ---------------------------- V3Pools, TokenFees -------------------------- *)

MCSince == p1 :> 1 @@ p2 :> 2

MCPoolsOf == c1 :> {p1, p2} @@ c2 :> {p2}

MCCustomization ==
  {[pctEnabled |-> enabled, pctShadowSampling |-> sampled] :
     enabled \in {-1, 0, 500, 1000}, sampled \in {0, 5, 1000}}

(* -------------------------- QuoterSwitch, QuoteBatches --------------------- *)

MCLibraryBatch == Of(210, 705)
MCLibraryOverride == Of(100, 1500)

MCRouteBatches == {{"V2"}, {"V3"}, {"V4"}, {"V3", "V4"}, {"V4", "MIXED"}}

(* -------------------------------- PoolFiles ------------------------------- *)

MCFileKey ==
  {[chain |-> "MAINNET", protocol |-> "V3"], [chain |-> "BASE", protocol |-> "V3"],
   [chain |-> "SEPOLIA", protocol |-> "V4"], [chain |-> "ZKSYNC", protocol |-> "V2"]}

(* --------------------------------- V4Pools -------------------------------- *)

\* Four pools without hooks of the allowlist in one group, two of them worth the same, and
\* one in another group; one whose hooks interfere; and pools of the allowlist: without hooks,
\* with a place of its own, and with Zora's hooks.
MCV4Pool == {"a", "b", "c", "d", "e", "i", "z", "w", "y"}
MCGroup == [p \in MCV4Pool |-> IF p = "e" THEN 2 ELSE 1]
MCTvl == [p \in MCV4Pool |-> CASE p = "a" -> 1 [] p = "w" -> 4 [] p \in {"b", "c"} -> 2 [] p = "y" -> 0 [] OTHER -> 3]
MCHooks == [p \in MCV4Pool |->
  IF p = "z" THEN "zero" ELSE IF p \in {"w", "y"} THEN "listed" ELSE "unlisted"]

(* ------------------------------ QuoteRequests ------------------------------ *)

\* A request that is routed, and those that differ from it in what a check looks at.
MCPlain ==
  [body |-> "none", params |-> "given", chain |-> "BASE", chainOut |-> "BASE", version |-> "2.0",
   protocols |-> {"V3"}, twice |-> FALSE, forceCrossProtocol |-> FALSE, pinned |-> FALSE,
   same |-> FALSE, type |-> "exactIn", amount |-> "some", universal |-> TRUE, slippage |-> TRUE,
   addressed |-> TRUE, simulate |-> FALSE, signature |-> "none", permit |-> "none",
   portion |-> FALSE, debug |-> "none"]

MCQuoteRequest ==
  {MCPlain,
   [MCPlain EXCEPT !.body = "malformed"], [MCPlain EXCEPT !.params = "none"],
   [MCPlain EXCEPT !.chain = "GNOSIS"], [MCPlain EXCEPT !.chainOut = "MAINNET"],
   [MCPlain EXCEPT !.chain = "ZKSYNC", !.chainOut = "ZKSYNC"],
   [MCPlain EXCEPT !.chain = "UNICHAIN", !.chainOut = "UNICHAIN", !.pinned = TRUE],
   [MCPlain EXCEPT !.version = "1.2", !.protocols = {"V4"}],
   [MCPlain EXCEPT !.protocols = {"MIXED"}], [MCPlain EXCEPT !.protocols = {"MIXED"}, !.twice = TRUE],
   [MCPlain EXCEPT !.protocols = {}], [MCPlain EXCEPT !.protocols = {}, !.forceCrossProtocol = TRUE],
   [MCPlain EXCEPT !.same = TRUE], [MCPlain EXCEPT !.amount = "zero"],
   [MCPlain EXCEPT !.amount = "too large", !.portion = TRUE],
   [MCPlain EXCEPT !.portion = TRUE, !.type = "exactOut"],
   [MCPlain EXCEPT !.signature = "good", !.permit = "whole", !.simulate = TRUE],
   [MCPlain EXCEPT !.universal = FALSE, !.signature = "malformed", !.permit = "half"],
   [MCPlain EXCEPT !.universal = FALSE, !.addressed = FALSE, !.signature = "good", !.permit = "whole"],
   [MCPlain EXCEPT !.slippage = FALSE], [MCPlain EXCEPT !.debug = "malformed"]}

(* ------------------------------- RpcProviders ------------------------------ *)

\* As deployed; a chain that is sampled; one as the tests have; and edits a constructor
\* refuses: weights of another number, no list of URLs, an empty one, no names beside it.
MCRpcConfig ==
  LET with(chain, row) == [i \in DOMAIN PROD_CONFIG |->
        IF PROD_CONFIG[i].chain = chain THEN row ELSE PROD_CONFIG[i]]
  IN {PROD_CONFIG,
      with("WORLDCHAIN", [Unweighted("WORLDCHAIN") EXCEPT !.useMultiProviderProb = 30]),
      <<[Row("MAINNET", Undefined, Undefined) EXCEPT !.useMultiProviderProb = 0],
        Row("AVALANCHE", <<2, 1>>, <<Unirpc, Quicknode("AVALANCHE")>>)>>,
      with("BASE", Row("BASE", <<1>>, <<Quicknode("BASE"), Unirpc>>)),
      with("ZORA", Row("ZORA", <<1>>, Undefined)),
      with("BNB", Row("BNB", Undefined, <<>>)),
      with("CELO", [Unweighted("CELO") EXCEPT !.named = FALSE])}

\* As deployed, with nodes of quicknode that have a word or not; and without the table, the
\* variable of a URL, or those of the nodes.
MCEnvironment ==
  LET plain == [urlKey \in DeployedUrls |-> "plain"]
      deployed == [urls |-> plain, web3 |-> DeployedWeb3, healthTable |-> TRUE]
  IN {deployed,
      [deployed EXCEPT !.urls[Quicknode("MAINNET")] = "solitary",
                       !.urls[<<"QUICKNODERETH", "MAINNET">>] = "ancient"],
      [deployed EXCEPT !.healthTable = FALSE], [deployed EXCEPT !.web3 = {}],
      [deployed EXCEPT !.urls = [urlKey \in DeployedUrls \ {Unirpc} |-> "plain"]]}

ASSUME InjectedAssumption == InjectedChain = SUPPORTED_CHAINS

(* -------------------------------- the parts -------------------------------- *)

MCInit ==
  /\ part \in Parts
  /\ InitPools /\ InitQuoting /\ InitBatches
  /\ \/ part = "fees" /\ InitFees
     \/ part # "fees" /\ InitFees /\ custom = [pctEnabled |-> 0, pctShadowSampling |-> 0]
  /\ \/ part = "files" /\ InitFiles
     \/ part # "files" /\ InitFiles /\ key.chain = "BASE"
  /\ \/ part = "v4" /\ InitV4
     \/ part # "v4" /\ InitV4 /\ listed = {}
  /\ InitRequests /\ asked = MCPlain
  /\ InitProviders
  /\ part # "providers" =>
       /\ Len(prodConfig) = 2
       /\ environment.urls = [urlKey \in DeployedUrls |-> "plain"]
       /\ environment.healthTable /\ environment.web3 # {}

MCNext ==
  /\ UNCHANGED part
  /\ \/ part = "pools" /\ PoolsNext
        /\ UNCHANGED <<feesVars, quoterVars, batchVars, filesVars, v4Vars, requestVars, providersVars>>
     \/ part = "fees" /\ FeesNext
        /\ UNCHANGED <<poolsVars, quoterVars, batchVars, filesVars, v4Vars, requestVars, providersVars>>
     \/ part = "quoter" /\ QuoterNext
        /\ UNCHANGED <<poolsVars, feesVars, batchVars, filesVars, v4Vars, requestVars, providersVars>>
     \/ part = "batches" /\ BatchesNext
        /\ UNCHANGED <<poolsVars, feesVars, quoterVars, filesVars, v4Vars, requestVars, providersVars>>
     \/ part = "files" /\ FilesNext
        /\ UNCHANGED <<poolsVars, feesVars, quoterVars, batchVars, v4Vars, requestVars, providersVars>>
     \/ part = "v4" /\ V4Next
        /\ UNCHANGED <<poolsVars, feesVars, quoterVars, batchVars, filesVars, requestVars, providersVars>>
     \/ part = "requests" /\ RequestsNext
        /\ UNCHANGED <<poolsVars, feesVars, quoterVars, batchVars, filesVars, v4Vars, providersVars>>
     \/ part = "providers" /\ ProvidersNext
        /\ UNCHANGED <<poolsVars, feesVars, quoterVars, batchVars, filesVars, v4Vars, requestVars>>

MCSpec == MCInit /\ [][MCNext]_allVars

\* The types of all parts: calls, tables, files, quoters and gateways.
TypesOK == PoolsTypeOK /\ FeesTypeOK /\ QuoterTypeOK /\ FilesTypeOK /\ ProvidersTypeOK
=============================================================================
