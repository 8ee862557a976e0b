----------------------------- MODULE RpcProviders ----------------------------
(***************************************************************************)
(* GlobalRpcProviders: the gateways of an instance of the routing lambda,  *)
(* one UniJsonRpcProvider for each chain of the configuration.  They are   *)
(* built the first time they are asked for, kept in static fields, and     *)
(* asked for again by every chain of the container and by every request.   *)
(* RpcGateway models what one of them does; this module which providers    *)
(* and weights it gets, who shares it, and who watches its providers.      *)
(***************************************************************************)
EXTENDS Integers, Sequences

CONSTANTS
  RpcConfig,    \* configurations, see Configurations
  Environment,  \* environments of an instance, see IsEnvironment
  Undefined     \* what is not there

\* The chains of the container, in the order it injects them.
InjectionOrder ==
  <<"MAINNET", "OPTIMISM", "ARBITRUM_ONE", "POLYGON", "SEPOLIA", "CELO", "CELO_ALFAJORES", "BNB",
    "AVALANCHE", "BASE", "BLAST", "ZORA", "ZKSYNC", "WORLDCHAIN", "UNICHAIN_SEPOLIA",
    "MONAD_TESTNET", "BASE_SEPOLIA", "UNICHAIN", "SONEIUM">>

InjectedChain == {InjectionOrder[i] : i \in DOMAIN InjectionOrder}

(* ------------------------------ configuration ----------------------------- *)

\* A provider is configured by the variable its URL is made from, such as QUICKNODE_42220.
Unirpc == <<"UNIRPC", "0">>
Quicknode(chain) == <<"QUICKNODE", chain>>

Row(chain, weights, urls) ==
  [chain |-> chain, useMultiProviderProb |-> 100, providerInitialWeights |-> weights,
   providerUrls |-> urls, named |-> TRUE, enableDbSync |-> FALSE]

Unweighted(chain) == Row(chain, <<0, 1>>, <<Quicknode(chain), Unirpc>>)
\* A bug: a variable the pipeline does not define.
OnlyQuicknode(chain) == Row(chain, <<1>>, <<Quicknode(chain)>>)

OnlyUnirpc(chain) == Row(chain, <<1>>, <<Unirpc>>)

\* The configuration that is deployed.  Where UNIRPC serves a chain the others have weight 0.
PROD_CONFIG ==
  <<Unweighted("CELO"), Unweighted("AVALANCHE"), Unweighted("BNB"), Unweighted("OPTIMISM"),
    [Row("SEPOLIA", <<0, 1>>, <<<<"ALCHEMY", "SEPOLIA">>, Unirpc>>) EXCEPT !.enableDbSync = TRUE],
    Unweighted("POLYGON"), Unweighted("ARBITRUM_ONE"), Unweighted("BASE"),
    Row("MAINNET", <<0, 1, 0>>, <<Quicknode("MAINNET"), Unirpc, <<"QUICKNODERETH", "MAINNET">>>>),
    Unweighted("BLAST"), Unweighted("ZORA"), Unweighted("ZKSYNC"), Unweighted("WORLDCHAIN"),
    Row("UNICHAIN_SEPOLIA", <<0, 1>>,
        <<Quicknode("UNICHAIN_SEPOLIA"), <<"ALCHEMY", "UNICHAIN_SEPOLIA">>>>),
    OnlyUnirpc("MONAD_TESTNET"), OnlyUnirpc("BASE_SEPOLIA"), OnlyUnirpc("UNICHAIN"),
    OnlyUnirpc("SONEIUM")>>

\* What the schema accepts; a probability is in percent, named says whether there are
\* providerNames, and each chain has one row.
Configurations ==
  {config \in Seq([chain : STRING, useMultiProviderProb : 0..100,
                   providerInitialWeights : Seq(Int) \union {Undefined},
                   providerUrls : Seq(STRING \X STRING) \union {Undefined},
                   named : BOOLEAN, enableDbSync : BOOLEAN]) :
     \A i, j \in DOMAIN config : config[i].chain = config[j].chain => i = j}

(* ------------------------------- environment ------------------------------ *)

\* The variables with URLs of RPC_GATEWAY_PROVIDERS.
DeployedUrls ==
  {Quicknode(chain) : chain \in {"OPTIMISM", "POLYGON", "CELO", "AVALANCHE", "BNB", "BASE",
     "ARBITRUM_ONE", "MAINNET", "BLAST", "ZORA", "ZKSYNC", "WORLDCHAIN", "UNICHAIN_SEPOLIA"}}
  \union {<<"ALCHEMY", chain>> : chain \in {"OPTIMISM", "POLYGON", "BASE", "SEPOLIA",
            "ARBITRUM_ONE", "MAINNET", "ZKSYNC", "UNICHAIN_SEPOLIA"}}
  \union {<<"QUICKNODERETH", "MAINNET">>, Unirpc}

\* The chains whose WEB3_RPC variable the pipeline defines.
DeployedWeb3 == InjectedChain \ {"WORLDCHAIN", "UNICHAIN_SEPOLIA", "MONAD_TESTNET", "BASE_SEPOLIA",
                                 "UNICHAIN", "SONEIUM"}

\* The value of a URL's variable counts only by the words deriveProviderName looks for.
IsEnvironment(env) ==
  /\ env.urls \in [DOMAIN env.urls -> {"plain", "solitary", "ancient"}]
  /\ env.web3 \subseteq InjectedChain /\ env.healthTable \in BOOLEAN

ASSUME ProvidersAssumption ==
  RpcConfig \subseteq Configurations /\ \A env \in Environment : IsEnvironment(env)

\* undefined is no array.
ASSUME UndefinedAssumption ==
  \A i \in DOMAIN PROD_CONFIG :
    Undefined \notin {PROD_CONFIG[i].providerInitialWeights, PROD_CONFIG[i].providerUrls}

IsDeployed(env) ==
  DeployedUrls \subseteq DOMAIN env.urls /\ DeployedWeb3 \subseteq env.web3 /\ env.healthTable

(* ---------------------------------- URLs ---------------------------------- *)

\* The chains generateProviderUrl has a URL for, by the name of the provider.
KnownUrls ==
  [INFURA |-> {"AVALANCHE", "OPTIMISM", "CELO", "POLYGON", "BASE", "SEPOLIA", "ARBITRUM_ONE",
               "MAINNET", "BLAST"},
   QUICKNODE |-> {"AVALANCHE", "OPTIMISM", "CELO", "BNB", "POLYGON", "BASE", "BASE_SEPOLIA",
                  "ARBITRUM_ONE", "MAINNET", "BLAST", "ZORA", "ZKSYNC", "UNICHAIN_SEPOLIA",
                  "UNICHAIN", "WORLDCHAIN"},
   QUICKNODERETH |-> {"MAINNET"},
   ALCHEMY |-> {"OPTIMISM", "POLYGON", "BASE", "SEPOLIA", "ARBITRUM_ONE", "MAINNET", "ZKSYNC",
                "UNICHAIN_SEPOLIA"},
   UNIRPC |-> {"0"}]

IsKnown(urlKey) == urlKey[1] \in DOMAIN KnownUrls /\ urlKey[2] \in KnownUrls[urlKey[1]]

\* The URL of UNIRPC names the chain of its row, any other that of its variable.  Two variables
\* with one value may give one URL.
GenerateProviderUrl(urlKey, value, chain) ==
  [host |-> IF urlKey[1] = "QUICKNODERETH" THEN "QUICKNODE" ELSE urlKey[1],
   chain |-> IF urlKey = Unirpc THEN chain ELSE urlKey[2], value |-> value]

\* The host of quicknode spells its name without the letter c; UNIRPC has no name of its own.
DeriveProviderName(url) ==
  CASE url.host = "QUICKNODE" /\ url.value = "solitary" -> "QUIKNODE_GETH"
    [] url.host = "QUICKNODE" /\ url.value = "ancient" -> "QUIKNODE_RETH"
    [] url.host = "QUICKNODE" /\ url.value = "plain" -> "QUIKNODE"
    [] url.host \in {"INFURA", "ALCHEMY"} -> url.host
    [] OTHER -> "UNKNOWN"

\* The id of a provider; its metrics carry the same two.
GetProviderId(chain, providerName) == <<chain, providerName>>

-----------------------------------------------------------------------------
VARIABLES
  prodConfig,            \* the configuration
  environment,           \* the variables of the process
  SINGLE_RPC_PROVIDERS,  \* the static field: chain -> providers
  UNI_RPC_PROVIDERS,     \* the static field: chain -> gateway
  builds,                \* how often gateways were built; a gateway is known by it
  position,              \* the next chain the container injects
  endpoint,              \* what the container gave the router of each chain
  fatal,                 \* the promise of the container is rejected
  attached               \* the last request: its chain and what it was sent to

staticFields == <<SINGLE_RPC_PROVIDERS, UNI_RPC_PROVIDERS, builds>>

providersVars == <<prodConfig, environment, staticFields, position, endpoint, fatal, attached>>

\* An endpoint is the build of a gateway, a node behind WEB3_RPC, or missing.
Web3 == 0
NoEndpoint == -1

Rows == DOMAIN prodConfig
RowOf(chain) == CHOOSE i \in Rows : prodConfig[i].chain = chain

InitProviders ==
  /\ prodConfig \in RpcConfig /\ environment \in Environment
  /\ SINGLE_RPC_PROVIDERS = Undefined /\ UNI_RPC_PROVIDERS = <<>> /\ builds = 0
  /\ position = 1 /\ endpoint = [c \in InjectedChain |-> NoEndpoint] /\ fatal = FALSE
  /\ attached = Undefined

(* ------------------------------ the static maps --------------------------- *)

\* The field of the gateways is null until they are built.
IsNull == builds = 0

\* Every URL of the configuration is made anew at each call, also when nothing is built.
ValidateProdConfig ==
  \A i \in Rows : prodConfig[i].providerUrls # Undefined =>
    \A n \in DOMAIN prodConfig[i].providerUrls :
      LET urlKey == prodConfig[i].providerUrls[n]
      IN urlKey \in DOMAIN environment.urls /\ IsKnown(urlKey)

\* The outcomes of Math.random() < useMultiProviderProb, row by row.
Draws ==
  {{i \in Rows : prodConfig[i].useMultiProviderProb = 100} \union some :
     some \in SUBSET {i \in Rows : prodConfig[i].useMultiProviderProb \in 1..99}}

SingleProviders(row) ==
  [n \in DOMAIN row.providerUrls |->
     LET urlKey == row.providerUrls[n]
         url == GenerateProviderUrl(urlKey, environment.urls[urlKey], row.chain)
     IN [url |-> url, urlKey |-> urlKey,
         providerId |-> GetProviderId(row.chain, DeriveProviderName(url))]]

\* No list of URLs to go through, no names to look at beside it, or a provider that must sync
\* and has no table.
SingleThrows(row) ==
  \/ row.providerUrls = Undefined
  \/ row.providerUrls # <<>> /\ ~row.named
  \/ row.providerUrls # <<>> /\ row.enableDbSync /\ ~environment.healthTable

\* The rows done before the first that throws.
BeforeThrow(rows, Throws(_)) == {i \in rows : \A j \in rows : j <= i => ~Throws(prodConfig[j])}

UniThrows(row) ==
  \/ row.providerUrls = <<>>
  \/ /\ row.providerInitialWeights # Undefined
     /\ Len(row.providerInitialWeights) # Len(row.providerUrls)

\* Weights are kept by URL: of two providers with one URL the later one counts.
UniProvider(row, providers, build) ==
  [providers |-> providers,
   urlWeight |-> [url \in {providers[n].url : n \in DOMAIN providers} |->
     IF row.providerInitialWeights = Undefined THEN -1
       ELSE LET last == CHOOSE n \in DOMAIN providers :
                          /\ providers[n].url = url
                          /\ \A m \in DOMAIN providers : providers[m].url = url => m <= n
            IN row.providerInitialWeights[last]],
   build |-> build]

\* The map is in the static field before it is filled: a throw leaves it there, half full.
InitGlobalUniRpcProviders(singles, throws) ==
  LET rows == {i \in Rows : prodConfig[i].chain \in DOMAIN singles}
      done == BeforeThrow(rows, UniThrows)
  IN /\ throws = (done # rows)
     /\ builds' = builds + 1
     /\ UNI_RPC_PROVIDERS' = [chain \in {prodConfig[i].chain : i \in done} |->
          UniProvider(prodConfig[RowOf(chain)], singles[chain], builds')]

InitGlobalSingleRpcProviders(rows) ==
  SINGLE_RPC_PROVIDERS' =
    [chain \in {prodConfig[i].chain : i \in BeforeThrow(rows, SingleThrows)} |->
       SingleProviders(prodConfig[RowOf(chain)])]

\* A bug: nothing is kept.
BuildUniRpcProviders(throws) ==
  /\ ValidateProdConfig
  /\ \E rows \in Draws :
       /\ InitGlobalSingleRpcProviders(rows)
       /\ IF BeforeThrow(rows, SingleThrows) = rows
            THEN InitGlobalUniRpcProviders(SINGLE_RPC_PROVIDERS', throws)
            ELSE throws /\ UNCHANGED <<UNI_RPC_PROVIDERS, builds>>

\* What a call does to the static fields, and whether it throws.
GetGlobalUniRpcProviders(throws) ==
  \/ ~ValidateProdConfig /\ throws /\ UNCHANGED staticFields
  \/ ValidateProdConfig /\ ~IsNull /\ ~throws /\ UNCHANGED staticFields
  \/ /\ ValidateProdConfig /\ IsNull
     /\ SINGLE_RPC_PROVIDERS = Undefined
     /\ \E rows \in Draws :
          /\ InitGlobalSingleRpcProviders(rows)
          /\ IF BeforeThrow(rows, SingleThrows) = rows
               THEN InitGlobalUniRpcProviders(SINGLE_RPC_PROVIDERS', throws)
               ELSE throws /\ UNCHANGED <<UNI_RPC_PROVIDERS, builds>>
  \/ /\ ValidateProdConfig /\ IsNull
     /\ SINGLE_RPC_PROVIDERS # Undefined
     /\ InitGlobalUniRpcProviders(SINGLE_RPC_PROVIDERS, throws)
     /\ UNCHANGED SINGLE_RPC_PROVIDERS

(* ---------------------------- container, requests ------------------------- *)

\* What the container gives the router of a chain that has these gateways.
EndpointOf(chain, gateways) ==
  CASE chain \in DOMAIN gateways -> gateways[chain].build
    [] chain \notin DOMAIN gateways /\ chain \in environment.web3 -> Web3
    [] OTHER -> NoEndpoint

\* A bug: a chain that throws is left out, as one without an endpoint is.
InjectOrSkip ==
  LET chain == InjectionOrder[position]
  IN /\ position \in DOMAIN InjectionOrder
     /\ position' = position + 1
     /\ \/ GetGlobalUniRpcProviders(TRUE) /\ UNCHANGED endpoint
        \/ GetGlobalUniRpcProviders(FALSE) /\ endpoint' = [endpoint EXCEPT ![chain] = EndpointOf(chain, UNI_RPC_PROVIDERS')]
     /\ UNCHANGED <<prodConfig, environment, fatal, attached>>

\* Up to its first await the injection of one chain follows that of another.  A chain that
\* throws rejects the container; the others go on, with what is in the static fields.
InjectChain ==
  LET chain == InjectionOrder[position]
  IN /\ position \in DOMAIN InjectionOrder
     /\ position' = position + 1
     /\ \/ /\ GetGlobalUniRpcProviders(TRUE)
           /\ fatal' = TRUE /\ UNCHANGED endpoint
        \/ /\ GetGlobalUniRpcProviders(FALSE)
           /\ endpoint' = [endpoint EXCEPT ![chain] = EndpointOf(chain, UNI_RPC_PROVIDERS')]
           /\ UNCHANGED fatal
     /\ UNCHANGED <<prodConfig, environment, attached>>

\* A request puts the gateway of its chain on a new session, unless the chain has none.
StartSession(chain) ==
  /\ position \notin DOMAIN InjectionOrder /\ ~fatal
  /\ endpoint[chain] # NoEndpoint
  /\ GetGlobalUniRpcProviders(FALSE)
  /\ attached' = [chain |-> chain,
                  to |-> IF chain \in DOMAIN UNI_RPC_PROVIDERS'
                           THEN UNI_RPC_PROVIDERS'[chain].build ELSE Web3]
  /\ UNCHANGED <<prodConfig, environment, position, endpoint, fatal>>

ProvidersNext == InjectChain \/ \E chain \in InjectedChain : StartSession(chain)

ProvidersSpec == InitProviders /\ [][ProvidersNext]_providersVars

(* ---------------------------------- alarms -------------------------------- *)

\* A bug: the host of quicknode is forgotten.
AlarmedAsWritten(urlKey) == urlKey[1]

\* An alarm watches the metrics of the provider named before the underscore of the variable;
\* the name of the alarm gives readAlarmEvent the id of the row to write, the same two.
AlarmedName(urlKey) == IF urlKey[1] = "QUICKNODE" THEN "QUIKNODE" ELSE urlKey[1]

ErrorRateAlarms ==
  UNION {{GetProviderId(PROD_CONFIG[i].chain, AlarmedName(PROD_CONFIG[i].providerUrls[n])) :
            n \in DOMAIN PROD_CONFIG[i].providerUrls} : i \in DOMAIN PROD_CONFIG}

(* -------------------------------- properties ------------------------------ *)

ProvidersTypeOK ==
  /\ DOMAIN UNI_RPC_PROVIDERS \subseteq {prodConfig[i].chain : i \in Rows}
  /\ builds \in 0..1
  /\ position \in 1..Len(InjectionOrder) + 1
  /\ endpoint \in [InjectedChain -> {NoEndpoint, Web3, 1}]
  /\ fatal \in BOOLEAN

\* A request puts on a new session the gateway the router of its chain was given, and none
\* where the router talks to a node of its own: both read the static field
\* (injector-sor.ts:230, quote.ts:73), which must neither be filled twice nor after one of them
\* read it.  On another gateway the calls of the quote would go on with an old session.
RequestsUseTheirGateway ==
  attached # Undefined => attached.to = endpoint[attached.chain]

\* A container that is not rejected sends a chain through the gateway if the configuration
\* always does and never if it never does, although a constructor that throws leaves a map in
\* the static field that is half full and that the next chain takes for the whole one
\* (GlobalRpcProviders.ts:92).
GatewaysAsConfigured ==
  position \notin DOMAIN InjectionOrder /\ ~fatal =>
    \A i \in Rows : prodConfig[i].chain \in InjectedChain =>
      /\ prodConfig[i].useMultiProviderProb = 100 => endpoint[prodConfig[i].chain] > Web3
      /\ prodConfig[i].useMultiProviderProb = 0 => endpoint[prodConfig[i].chain] <= Web3

\* The configuration, the variables the pipeline defines and the URLs the code knows agree: an
\* instance as it is deployed starts, has an endpoint for every chain, and in every gateway a
\* provider with a weight that lets it be selected (rpcProviderProdConfig.json, app.ts:213).
DeployedInstancesStart ==
  prodConfig = PROD_CONFIG /\ IsDeployed(environment) =>
    /\ ~fatal
    /\ \A i \in 1..position - 1 : endpoint[InjectionOrder[i]] # NoEndpoint
    /\ \A chain \in DOMAIN UNI_RPC_PROVIDERS : LET uni == UNI_RPC_PROVIDERS[chain]
          IN \E url \in DOMAIN uni.urlWeight : uni.urlWeight[url] # 0

\* The failures of a provider with a name of its own are those an alarm watches, and that alarm
\* writes the row of this provider (rpc-gateway-fallback-stack.ts:64): the name in the metric is
\* derived from the URL, that of the alarm from the variable.  Not so for UNIRPC and
\* QUICKNODERETH, nor for a node of quicknode known by its word.
FailuresReachTheTable ==
  prodConfig = PROD_CONFIG =>
    \A chain \in DOMAIN UNI_RPC_PROVIDERS : LET uni == UNI_RPC_PROVIDERS[chain]
      IN \A n \in DOMAIN uni.providers :
           \/ uni.providers[n].urlKey[1] \notin {"QUICKNODE", "ALCHEMY"}
           \/ uni.providers[n].url.value # "plain"
           \/ uni.providers[n].providerId \in ErrorRateAlarms

\* The lists that are kept by hand agree with each other: the configuration, the variables of
\* the pipeline, the URLs, and the names of alarms and of metrics.
DeploymentAgrees == DeployedInstancesStart /\ FailuresReachTheTable
=============================================================================
