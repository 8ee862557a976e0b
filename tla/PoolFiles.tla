------------------------------ MODULE PoolFiles ------------------------------
(***************************************************************************)
(* The pools of one chain and protocol, on their way from the subgraph to  *)
(* a request: the cron lambda stores them in a file on S3, an instance of  *)
(* the routing lambda downloads the file when it is built and whenever its *)
(* cache of a few minutes has run out.  Runs of the cron lambda overlap    *)
(* (they may take as long as the time between two of them, and Lambda runs *)
(* a failed one again), and so may downloads.                              *)
(***************************************************************************)
EXTENDS Integers

CONSTANTS
  FileKey,       \* pairs of a chain and a protocol, as in S3_POOL_CACHE_KEY
  CronRun,       \* runs of the cron lambda at one time
  Download,      \* downloads of an instance at one time
  Ttl,           \* ticks an entry of POOL_CACHE lives
  MaxFlight,     \* ticks after which Lambda ends an instance that waits for S3
  MaxVersion     \* bound on the versions of the subgraph

FileProtocol == {"V2", "V3", "V4"}

ASSUME FilesAssumption ==
  /\ FileKey \subseteq [chain : STRING, protocol : FileProtocol]
  /\ Ttl \in Nat /\ MaxFlight \in Nat /\ MaxVersion \in Nat \ {0}

VARIABLES
  key,          \* the file in question
  version,      \* what the subgraph has
  cron,         \* the runs of the cron lambda; history: which have been overtaken
  file,         \* the file
  built,        \* where the instance gets its pools
  downloading,  \* its downloads
  pooled,       \* its entry of POOL_CACHE
  served        \* history: ticks since the file was what getPools returned last

filesVars == <<key, version, cron, file, built, downloading, pooled, served>>

(* ---------------------------- the configuration --------------------------- *)

V3Files == {"MAINNET", "ARBITRUM_ONE", "POLYGON", "OPTIMISM", "CELO", "BNB", "AVALANCHE", "BASE",
            "BLAST", "UNICHAIN", "WORLDCHAIN", "ZORA", "SONEIUM"}

V2Files == {"MAINNET", "ARBITRUM_ONE", "POLYGON", "OPTIMISM", "BNB", "AVALANCHE", "BASE", "BLAST",
            "WORLDCHAIN", "MONAD_TESTNET", "UNICHAIN", "SONEIUM"}

V4Files == {"SEPOLIA", "ARBITRUM_ONE", "BASE", "POLYGON", "WORLDCHAIN", "ZORA", "UNICHAIN",
            "BLAST", "MAINNET", "SONEIUM", "OPTIMISM", "BNB"}

\* chainProtocols.find
Cached(k) ==
  k.chain \in CASE k.protocol = "V2" -> V2Files
                [] k.protocol = "V3" -> V3Files
                [] k.protocol = "V4" -> V4Files

\* The files that get pools of a list in the code besides the subgraph's.
ManuallyIncluded(k) == k.protocol = "V4" \/ k = [chain |-> "MAINNET", protocol |-> "V2"]

\* What a run asks after the subgraph, and may fail to get.
Extra(k) ==
  CASE k.chain = "MAINNET" /\ k.protocol \in {"V2", "V3"}       -> {"second subgraph"}
    [] k.chain \in {"MAINNET", "UNICHAIN"} /\ k.protocol = "V4" -> {"euler hooks"}
    [] OTHER                                                     -> {}

(* ---------------------------------- pools --------------------------------- *)

\* Nothing, the pools of a version of the subgraph, or only what is added to them.
Pools == [kind : {"none", "pools", "added"}, version : 0..MaxVersion]

Nothing == [kind |-> "none", version |-> 0]

\* The subgraph's pools and what is added to them: the list in the code, or an extra pool.
Completed(got, extra) ==
  IF got = Nothing /\ (extra \/ ManuallyIncluded(key))
    THEN [kind |-> "added", version |-> 0]
    ELSE got

Off == [stage |-> "off", got |-> Nothing, overtaken |-> FALSE]

Idle == [stage |-> "none", got |-> Nothing, age |-> 0, since |-> 0]

NoEntry == [got |-> Nothing, age |-> 0, since |-> 0]

InitFiles ==
  /\ key \in FileKey
  /\ version = 1
  /\ cron = [r \in CronRun |-> Off]
  /\ file = Nothing
  /\ built = "no" /\ downloading = [d \in Download |-> Idle] /\ pooled = NoEntry
  /\ served = 0

(* ----------------------------- the cron lambda ---------------------------- *)

\* External: the subgraph goes on.
Index ==
  /\ version < MaxVersion
  /\ version' = version + 1
  /\ UNCHANGED <<key, cron, file, built, downloading, pooled, served>>

\* A bug: a run that is tried again stores the pools it collected the first time.
StartWithPools(r) ==
  /\ Cached(key) /\ cron[r].stage \in {"off", "storing"}
  /\ cron' = [cron EXCEPT ![r].stage = IF @ = "off" THEN "getting" ELSE @, ![r].overtaken = FALSE]
  /\ UNCHANGED <<key, version, file, built, downloading, pooled, served>>

\* The schedule, or Lambda that runs a failed run again: each run collects anew.
StartRun(r) ==
  /\ Cached(key) /\ cron[r] = Off
  /\ cron' = [cron EXCEPT ![r].stage = "getting"]
  /\ UNCHANGED <<key, version, file, built, downloading, pooled, served>>

\* A bug: no pools are stored like any others.
StoresEmpty(got) == TRUE

\* Whether a run goes on to store what it collected.
Stores(got) == got.kind # "none"

\* What becomes of a run that has everything.
Collected(run, extra) ==
  IF Stores(Completed(run.got, extra))
    THEN [run EXCEPT !.stage = "storing", !.got = Completed(run.got, extra)] ELSE Off

CollectPools(r, empty) ==
  /\ cron[r].stage = "getting"
  /\ LET got == IF empty THEN Nothing ELSE [kind |-> "pools", version |-> version]
         run == [cron[r] EXCEPT !.stage = "extra", !.got = got]
     IN  cron' = [cron EXCEPT ![r] = IF Extra(key) = {} THEN Collected(run, FALSE) ELSE run]
  /\ UNCHANGED <<key, version, file, built, downloading, pooled, served>>

\* The second subgraph has one pool to add, or none; euler hooks have theirs.
CollectExtra(r, extra) ==
  /\ cron[r].stage = "extra"
  /\ cron' = [cron EXCEPT ![r] = Collected(cron[r], extra)]
  /\ UNCHANGED <<key, version, file, built, downloading, pooled, served>>

\* Any error, of a hook without a pool too, fails the run.
RunFails(r) ==
  /\ cron[r].stage \in {"getting", "extra", "storing"}
  /\ cron' = [cron EXCEPT ![r] = Off]
  /\ UNCHANGED <<key, version, file, built, downloading, pooled, served>>

\* A run that has its pools is overtaken when another replaces the file.
Overtaken(run, stored) ==
  IF run.got.kind = "pools" /\ stored # file THEN [run EXCEPT !.overtaken = TRUE] ELSE run

\* putObject; the run may still fail when it has been applied.
PutFile(r, answered) ==
  /\ cron[r].stage = "storing"
  /\ file' = cron[r].got
  /\ cron' = [q \in CronRun |-> CASE q # r               -> Overtaken(cron[q], cron[r].got)
                                 [] q = r /\ answered   -> Off
                                 [] q = r /\ ~answered  -> cron[r]]
  /\ UNCHANGED <<key, version, built, downloading, pooled, served>>

(* ------------------------------- the instance ----------------------------- *)

\* Building the container; without a file to expect, the static pools are there at once.
Build(d) ==
  /\ built = "no"
  /\ IF Cached(key)
       THEN built' = "building" /\ downloading' = [downloading EXCEPT ![d].stage = "asked"]
       ELSE built' = "static" /\ UNCHANGED downloading
  /\ UNCHANGED <<key, version, cron, file, pooled, served>>

\* A bug: each hit gives the entry another full life.
Touches(entry) == [entry EXCEPT !.age = 0]

\* What a hit leaves of the entry.
Touched(entry) == entry

GetFromCache ==
  /\ built = "s3" /\ pooled.got # Nothing
  /\ served' = IF pooled.got = file THEN 0 ELSE pooled.since
  /\ pooled' = Touched(pooled)
  /\ UNCHANGED <<key, version, cron, file, built, downloading>>

GetFromFile(d) ==
  /\ built = "s3" /\ pooled.got = Nothing /\ downloading[d] = Idle
  /\ downloading' = [downloading EXCEPT ![d].stage = "asked"]
  /\ UNCHANGED <<key, version, cron, file, built, pooled, served>>

\* External: the moment S3 reads the file.
ReadFile(d) ==
  /\ downloading[d].stage = "asked" /\ file # Nothing
  /\ downloading' = [downloading EXCEPT ![d].stage = "read", ![d].got = file, ![d].since = 0]
  /\ UNCHANGED <<key, version, cron, file, built, pooled, served>>

\* No file, or any other error: the request fails, and the instance that is being built
\* has the static pools for as long as it lives.
DownloadFails(d) ==
  /\ downloading[d] # Idle
  /\ downloading' = [downloading EXCEPT ![d] = Idle]
  /\ built' = IF built = "building" THEN "static" ELSE built
  /\ UNCHANGED <<key, version, cron, file, pooled, served>>

Downloaded(d) ==
  /\ downloading[d].stage = "read"
  /\ pooled' = [got |-> downloading[d].got, age |-> 0, since |-> downloading[d].since]
  /\ served' = downloading[d].since
  /\ downloading' = [downloading EXCEPT ![d] = Idle]
  /\ built' = "s3"
  /\ UNCHANGED <<key, version, cron, file>>

\* Lambda ends the instance, in the middle of a request or between two.
Recycle ==
  /\ built # "no"
  /\ built' = "no" /\ downloading' = [d \in Download |-> Idle] /\ pooled' = NoEntry
  /\ served' = 0
  /\ UNCHANGED <<key, version, cron, file>>

\* How long ago the file was this, a tick later.
LastFile(x) == IF x.got \in {Nothing, file} THEN 0 ELSE x.since + 1

\* A bug: an entry lives for ever.
NeverExpires(entry) == entry.got = Nothing

Expires(entry) == entry.got = Nothing \/ entry.age = Ttl

Tick ==
  /\ \A d \in Download : downloading[d].age < MaxFlight
  /\ downloading' = [d \in Download |->
       IF downloading[d] = Idle THEN Idle
         ELSE [downloading[d] EXCEPT !.age = @ + 1, !.since = LastFile(downloading[d])]]
  /\ pooled' = IF Expires(pooled) THEN NoEntry
                 ELSE [pooled EXCEPT !.age = @ + 1, !.since = LastFile(pooled)]
  /\ UNCHANGED <<key, version, cron, file, built, served>>

FilesNext ==
  \/ Index \/ GetFromCache \/ Recycle \/ Tick
  \/ \E r \in CronRun :
       \/ StartRun(r) \/ RunFails(r)
       \/ \E empty \in BOOLEAN : CollectPools(r, empty)
       \/ \E extra \in BOOLEAN : CollectExtra(r, extra)
       \/ \E answered \in BOOLEAN : PutFile(r, answered)
  \/ \E d \in Download :
       Build(d) \/ GetFromFile(d) \/ ReadFile(d) \/ DownloadFails(d) \/ Downloaded(d)

FilesSpec == InitFiles /\ [][FilesNext]_filesVars

(* ------------------------------- properties ------------------------------- *)

CronStages ==
  [stage : {"off", "getting", "extra", "storing"}, got : Pools, overtaken : BOOLEAN]

\* Type invariant: the entry of the cache is never older than its time to live, and is
\* there only while the instance takes its pools from the file.
FilesTypeOK ==
  /\ key \in FileKey /\ version \in 1..MaxVersion /\ file \in Pools
  /\ cron \in [CronRun -> CronStages]
  /\ built \in {"no", "building", "s3", "static"}
  /\ downloading \in [Download -> [stage : {"none", "asked", "read"}, got : Pools,
                                   age : 0..MaxFlight, since : Nat]]
  /\ pooled \in [got : Pools, age : 0..Ttl, since : Nat]
  /\ pooled.got # Nothing => built = "s3"
  /\ served \in Nat

\* Whatever runs, downloads and requests overlap, and however long an instance lives, the
\* pools getPools returns are what the file was no longer ago than one life of an entry and
\* one download (aws-subgraph-provider.ts:20-108): hits and late downloads never add up.
BoundedStaleness == served <= Ttl + MaxFlight

\* Runs overlap and are tried again (routing-caching-stack.ts:115-153), and a slower one may
\* store an older snapshot over a newer one, but only over one that another run stored since it
\* collected its own: runs one after the other never take the file back in time, however they
\* fail and wherever their answers get lost.
OnlyOverlapsGoBack ==
  \A r \in CronRun :
    cron[r].stage = "storing" /\ cron[r].got.kind = "pools" /\ ~cron[r].overtaken =>
      cron[r].got.version >= file.version

\* The files that get nothing but the subgraph's pools.
Unaided == ~ManuallyIncluded(key) /\ Extra(key) = {}

\* No file is replaced by nothing, and one that gets nothing but the subgraph's pools keeps
\* them: a subgraph that answers nothing or fails, and a run that fails half way or comes late,
\* never take the pools away that a request would find (cache-pools.ts:449-459,
\* routing-caching-stack.ts:71-82).
FileKept ==
  [][/\ file # Nothing => file' # Nothing
     /\ file.kind = "pools" /\ Unaided => file'.kind = "pools"]_filesVars
=============================================================================
