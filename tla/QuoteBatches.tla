---------------------------- MODULE QuoteBatches ----------------------------
(***************************************************************************)
(* How the quoters pack their calls: the container tells each of them how  *)
(* many calls go into one multicall and the gas each gets, per protocol    *)
(* and chain, and what to change when a multicall fails.  The router       *)
(* library packs and retries; the tables are this repository's.            *)
(***************************************************************************)
EXTENDS Integers

CONSTANTS
  BatchChain,       \* names of ChainId
  LibraryBatch,     \* the library's parameters for a chain without its own
  LibraryOverride,  \* and the library's parameters after a failure
  LibraryRetries    \* and its number of retries

Params == [chunk : Nat, gas : Nat]   \* multicallChunk, and gasLimitPerCall in thousands

ASSUME BatchesAssumption ==
  /\ BatchChain \subseteq STRING /\ LibraryRetries \in Nat
  /\ LibraryBatch \in Params /\ LibraryOverride \in Params

VARIABLE packing   \* one call of a quoter

batchVars == <<packing>>

\* V2 routes are quoted without a quoter.
BatchProtocol == {"V3", "V4", "MIXED"}

(* -------------------------------- the tables ------------------------------ *)

\* The chains without a view quoter.
Plain == {"WORLDCHAIN", "UNICHAIN_SEPOLIA", "MONAD_TESTNET", "BASE_SEPOLIA", "UNICHAIN", "SONEIUM"}

\* The chains with parameters of their own for failures.
Tuned == Plain \union {"BASE", "ARBITRUM_ONE", "OPTIMISM", "CELO", "BLAST", "ZKSYNC"}

Of(chunk, gas) == [chunk |-> chunk, gas |-> gas]

\* A bug: Celo retries like the other chains.
RetriesOfCelo(chain) == IF chain \in Tuned \ {"ZKSYNC"} THEN 2 ELSE LibraryRetries

Retries(chain) ==
  CASE chain = "CELO"            -> 0
    [] chain \in Tuned \ {"CELO", "ZKSYNC"} -> 2
    [] OTHER                     -> LibraryRetries

\* While the routes come from the cache; V3 and V4 alike.
OptimisticBatch(chain) ==
  CASE chain = "BASE"                -> Of(1320, 100)
    [] chain = "ARBITRUM_ONE"        -> Of(3000, 75)
    [] chain = "OPTIMISM"            -> Of(1650, 80)
    [] chain = "CELO"                -> Of(6240, 80)
    [] chain = "BLAST"               -> Of(1200, 80)
    [] chain = "AVALANCHE"           -> Of(2625, 60)
    [] chain \in {"BNB", "POLYGON"}  -> Of(1850, 80)
    [] chain = "MAINNET"             -> Of(1974, 75)
    [] chain = "ZKSYNC"              -> Of(20, 4000)
    [] chain \in Plain               -> Of(80, 1200)
    [] OTHER                         -> LibraryBatch

NonOptimisticBatch(chain) ==
  CASE chain = "BASE"                    -> Of(660, 200)
    [] chain = "ARBITRUM_ONE"            -> Of(1125, 200)
    [] chain = "OPTIMISM"                -> Of(880, 150)
    [] chain = "CELO"                    -> Of(3120, 160)
    [] chain = "BLAST"                   -> Of(1200, 80)
    [] chain = "AVALANCHE"               -> Of(420, 375)
    [] chain = "BNB"                     -> Of(2961, 50)
    [] chain \in {"POLYGON", "MAINNET"}  -> Of(987, 150)
    [] chain = "ZKSYNC"                  -> Of(20, 4000)
    [] chain \in Plain                   -> Of(80, 1200)
    [] OTHER                             -> LibraryBatch

\* Mixed routes have the same tables, but no row for mainnet.
OptimisticParams(protocol, chain) ==
  IF protocol = "MIXED" /\ chain = "MAINNET" THEN LibraryBatch ELSE OptimisticBatch(chain)

NonOptimisticParams(protocol, chain) ==
  IF protocol = "MIXED" /\ chain = "MAINNET" THEN LibraryBatch ELSE NonOptimisticBatch(chain)

GasErrorOverride(chain) ==
  CASE chain \in Plain \union {"BASE", "OPTIMISM", "BLAST"} -> Of(45, 3000)
    [] chain = "ARBITRUM_ONE"                               -> Of(8, 30000)
    [] chain = "CELO"                                       -> Of(5, 5000)
    [] chain = "ZKSYNC"                                     -> Of(10, 6000)
    [] OTHER                                                -> LibraryOverride

SuccessRateOverride(chain) ==
  IF chain = "CELO" THEN Of(4, 6250) ELSE GasErrorOverride(chain)

\* How far a batch goes back when nodes do not have its block yet: once, if at all.
RollbackOffset(chain) ==
  CASE chain \in Plain \union {"BASE", "OPTIMISM"} -> 20
    [] chain \in {"ARBITRUM_ONE", "BLAST"}         -> 10
    [] OTHER                                       -> 0

(* ------------------------------- the container ---------------------------- *)

\* The protocol whose parameters a quoter gets: the target's callback takes its second
\* argument for a boolean, and the name of a protocol is always true.
ParamsProtocol(quoter, protocol) == IF quoter = "current" THEN protocol ELSE "MIXED"

BatchParams(quoter, protocol, chain, optimistic) ==
  LET p == ParamsProtocol(quoter, protocol)
  IN  IF optimistic THEN OptimisticParams(p, chain) ELSE NonOptimisticParams(p, chain)

(* ------------------------------- the attempts ----------------------------- *)

InitBatches ==
  packing = [stage |-> "done", quoter |-> "current", protocol |-> "V3", chain |-> "MAINNET",
             optimistic |-> FALSE, attempt |-> 0, params |-> LibraryBatch, back |-> 0]

StartBatches(quoter, protocol, chain, optimistic) ==
  /\ packing.stage = "done"
  /\ packing' = [stage |-> "calling", quoter |-> quoter, protocol |-> protocol, chain |-> chain,
                 optimistic |-> optimistic, attempt |-> 1,
                 params |-> BatchParams(quoter, protocol, chain, optimistic), back |-> 0]

\* External: why a multicall fails.
FailureKind == {"gas", "success rate", "block header", "other"}

\* External: what the library changes before it retries, by kind of failure.
AfterFailure(kind) ==
  CASE kind = "gas"          -> [packing EXCEPT !.params = GasErrorOverride(packing.chain)]
    [] kind = "success rate" -> [packing EXCEPT !.params = SuccessRateOverride(packing.chain)]
    [] kind = "block header" -> [packing EXCEPT !.back = RollbackOffset(packing.chain)]
    [] kind = "other"        -> packing

FailBatches(kind) ==
  /\ packing.stage = "calling"
  /\ packing' = IF packing.attempt > Retries(packing.chain) THEN [packing EXCEPT !.stage = "done"]
                  ELSE [AfterFailure(kind) EXCEPT !.attempt = @ + 1]

AnswerBatches ==
  /\ packing.stage = "calling"
  /\ packing' = [packing EXCEPT !.stage = "done"]

BatchesNext ==
  \/ \E quoter \in {"current", "target"}, protocol \in BatchProtocol, chain \in BatchChain,
        optimistic \in BOOLEAN : StartBatches(quoter, protocol, chain, optimistic)
  \/ \E kind \in FailureKind : FailBatches(kind)
  \/ AnswerBatches

BatchesSpec == InitBatches /\ [][BatchesNext]_batchVars

(* ------------------------------- properties ------------------------------- *)

\* On the chains with tables of their own, a retry never packs more calls into a multicall
\* nor gives one of them less gas than the attempt that failed, in whatever order failures
\* come (onChainQuoteProviderConfigs.ts:18-886).
RetriesGetMoreGas ==
  [][(packing.chain \in Tuned /\ packing.stage = "calling" /\ packing'.stage = "calling") =>
       /\ packing'.params.chunk <= packing.params.chunk
       /\ packing'.params.gas >= packing.params.gas]_batchVars

\* What onChainQuoteProviderConfigs.ts:78-79 says of the tables: each protocol has its own
\* tuning, so that is what the first attempt of a quoter goes by.
TunedPerProtocol ==
  packing.attempt = 1 =>
    packing.params = IF packing.optimistic
                       THEN OptimisticParams(packing.protocol, packing.chain)
                       ELSE NonOptimisticParams(packing.protocol, packing.chain)
=============================================================================
