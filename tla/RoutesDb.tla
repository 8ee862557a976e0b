------------------------------ MODULE RoutesDb ------------------------------
(***************************************************************************)
(* The table of cached routes of one pair, trade type and chain            *)
(* (DynamoRouteCachingProvider, PairTradeTypeChainId).  Lambda instances   *)
(* read it, write routes they computed and delete routes that no longer    *)
(* work, each from what it saw earlier.  One currency of the pair is the   *)
(* native one ("native") or its wrapped token ("wrapped"), so that a       *)
(* request reads one of two partitions.                                    *)
(***************************************************************************)
EXTENDS Naturals, FiniteSets

CONSTANTS
  Route,          \* route ids, the sort keys of the table
  ProtocolOf,     \* the protocol of a route
  PoolsOf,        \* protocolsInvolved: of a MIXED route those of its pools, {} otherwise
  Currency,       \* the currencies requests are made for
  ProtocolSets,   \* the sets of protocols requests ask for
  Client,         \* lambda instances
  None,           \* undefined
  RoutesToTake,   \* ROUTES_TO_TAKE_FROM_ROUTES_DB (8)
  BatchSize,      \* BATCH_SIZE (25)
  MaxBlock,       \* bound: the block number
  MaxSets         \* bound: calls of setCachedRoute in a behaviour

PoolProtocol == {"V2", "V3", "V4"}
Protocol == PoolProtocol \union {"MIXED"}

ASSUME RouteAssumption ==
  /\ Route \subseteq Nat /\ IsFiniteSet(Route)
  /\ ProtocolOf \in [Route -> Protocol]
  /\ PoolsOf \in [Route -> SUBSET PoolProtocol]
  /\ \A r \in Route : PoolsOf[r] = {} <=> ProtocolOf[r] # "MIXED"

ASSUME RequestAssumption ==
  /\ Currency \subseteq {"native", "wrapped"}
  /\ ProtocolSets \subseteq SUBSET Protocol

ASSUME BoundAssumption ==
  /\ RoutesToTake \in Nat \ {0} /\ BatchSize \in Nat \ {0}
  /\ MaxBlock \in Nat /\ MaxSets \in Nat

Partition == {"native", "wrapped"}
Block == 0 .. MaxBlock

\* ur2: the universal router version is 2.0.
Request == [currency : Currency, protocols : ProtocolSets, ur2 : BOOLEAN]

CachedRoutes == [routes : (SUBSET Route) \ {{}}, currency : Currency, blockNumber : Block]

Entry == [currency : Currency, blockNumber : Block]

ASSUME NoneAssumption == None \notin Entry \union CachedRoutes \union Request

VARIABLES
  table,        \* the entry of each partition and route
  blockNumber,  \* the chain
  request,      \* the request each client is working on, or None
  cached,       \* the cached routes it found
  left,         \* the routes it still has to delete, while it deletes
  spared,       \* history: of those, the ones left unprocessed or set again meanwhile
  gone,         \* history: the routes, with the partition they were found in, whose
                \* deletion was reported, unless they were set again
  sets          \* number of calls of setCachedRoute so far

client == <<request, cached, left, spared>>
vars == <<table, blockNumber, client, gone, sets>>

-----------------------------------------------------------------------------
(* Partition keys.                                                         *)

\* deriveCurrencyAddress
KeyOf(includesV4Pool, currency) == IF includesV4Pool THEN currency ELSE "wrapped"

KeyOfRequest(q) == KeyOf("V4" \in q.protocols, q.currency)

KeyOfRoutes(c) == KeyOf(\E r \in c.routes : ProtocolOf[r] = "V4", c.currency)

-----------------------------------------------------------------------------
(* A query.                                                                *)

\* A bug: the protocols of the pools of a mixed route are not looked at.
MatchesOwn(r, q) == ProtocolOf[r] \in q.protocols

\* The two filters; enableMixedRouteWithUR1_2 is always set.
Matches(r, q) ==
  /\ ProtocolOf[r] \in q.protocols
  /\ PoolsOf[r] # {} /\ "MIXED" \in q.protocols /\ ~ q.ur2 => PoolsOf[r] \subseteq q.protocols

Matching(q) == {r \in Route : table[KeyOfRequest(q)][r] # None /\ Matches(r, q)}

\* A bug: the entries are sorted from old to new.
OldestFirst(k, r, s) ==
  \/ table[k][r].blockNumber < table[k][s].blockNumber
  \/ table[k][r].blockNumber = table[k][s].blockNumber /\ r < s

\* The order of the sorted entries; a query returns them by sort key.
Before(k, r, s) ==
  \/ table[k][r].blockNumber > table[k][s].blockNumber
  \/ table[k][r].blockNumber = table[k][s].blockNumber /\ r < s

Taken(q) ==
  {r \in Matching(q) :
     Cardinality({s \in Matching(q) : Before(KeyOfRequest(q), s, r)}) < RoutesToTake}

\* The newest entry gives the cached routes their currency and their block number.
Found(q, first) ==
  LET entry == table[KeyOfRequest(q)][first]
  IN  [routes |-> Taken(q), currency |-> entry.currency, blockNumber |-> entry.blockNumber]

IsFirst(q, first) ==
  \A r \in Matching(q) \ {first} : Before(KeyOfRequest(q), first, r)

-----------------------------------------------------------------------------
Init ==
  /\ table = [k \in Partition |-> [r \in Route |-> None]]
  /\ blockNumber = 0
  /\ request = [c \in Client |-> None]
  /\ cached = [c \in Client |-> None]
  /\ left = [c \in Client |-> {}]
  /\ spared = [c \in Client |-> {}]
  /\ gone = {}
  /\ sets = 0

\* getCachedRoute finds cached routes.  With no entry, none that matches (the TypeError is
\* caught) or a failed query it finds nothing, and nothing changes.
GetCachedRoute(c, q) ==
  /\ request[c] = None
  /\ \E first \in Matching(q) : /\ IsFirst(q, first)
                                /\ cached' = [cached EXCEPT ![c] = Found(q, first)]
  /\ request' = [request EXCEPT ![c] = q]
  /\ UNCHANGED <<table, blockNumber, left, spared, gone, sets>>

\* A bug: what is left to delete outlives a deletion that failed.
LeaveHalfway(c) ==
  /\ request' = [request EXCEPT ![c] = None]
  /\ cached' = [cached EXCEPT ![c] = None]
  /\ UNCHANGED <<left, spared>>

\* The request ends.
Leave(c) ==
  /\ request' = [request EXCEPT ![c] = None]
  /\ cached' = [cached EXCEPT ![c] = None]
  /\ left' = [left EXCEPT ![c] = {}]
  /\ spared' = [spared EXCEPT ![c] = {}]

\* The cached routes are used, and stay in the table.
UseCachedRoute(c) ==
  /\ request[c] # None /\ left[c] = {}
  /\ Leave(c)
  /\ UNCHANGED <<table, blockNumber, gone, sets>>

\* setCachedRoute: one batchWrite without condition.  Items may stay unprocessed, and a
\* failed call may have written some.
SetCachedRoute(routes, written) ==
  LET k == KeyOfRoutes(routes)
  IN  /\ sets < MaxSets
      /\ sets' = sets + 1
      /\ table' = [table EXCEPT ![k] =
           [r \in Route |->
              IF r \in written
              THEN [currency |-> routes.currency, blockNumber |-> routes.blockNumber]
              ELSE table[k][r]]]
      /\ gone' = gone \ ({k} \X written)
      /\ spared' = [c \in Client |->
           IF left[c] = {} THEN {} ELSE spared[c] \union (written \intersect cached[c].routes)]
      /\ UNCHANGED <<blockNumber, request, cached, left>>

\* deleteCachedRoute of the cached routes that were found, up to its first await.
DeleteCachedRoute(c) ==
  /\ request[c] # None /\ left[c] = {}
  /\ left' = [left EXCEPT ![c] = cached[c].routes]
  /\ UNCHANGED <<table, blockNumber, request, cached, spared, gone, sets>>

Removed(k, routes) ==
  [table EXCEPT ![k] = [r \in Route |-> IF r \in routes THEN None ELSE table[k][r]]]

\* A bug: only the first batch is sent.
FirstBatchOnly(c, batch) == {}

\* The routes that are left after a batch.
LeftAfter(c, batch) == left[c] \ batch

\* One batchWrite; deleted are the items that were processed.  After the last batch the
\* deletion is reported, whatever was left unprocessed.
DeleteBatch(c, batch, deleted) ==
  /\ Cardinality(batch) <= BatchSize
  /\ Cardinality(batch) < BatchSize => batch = left[c]
  /\ table' = Removed(KeyOfRoutes(cached[c]), deleted)
  /\ LET kept == spared[c] \union (batch \ deleted)
     IN  IF LeftAfter(c, batch) # {}
         THEN /\ left' = [left EXCEPT ![c] = LeftAfter(c, batch)]
              /\ spared' = [spared EXCEPT ![c] = kept]
              /\ UNCHANGED <<request, cached, gone>>
         ELSE /\ Leave(c)
              /\ gone' = gone \union
                   ({KeyOfRequest(request[c])} \X (cached[c].routes \ kept))
  /\ UNCHANGED <<blockNumber, sets>>

\* A batchWrite throws, although some items may have been deleted: false is returned.
DeleteFails(c, deleted) ==
  /\ table' = Removed(KeyOfRoutes(cached[c]), deleted)
  /\ Leave(c)
  /\ UNCHANGED <<blockNumber, gone, sets>>

\* The table drops an entry whose ttl has passed.
Expire(k, r) ==
  /\ table[k][r] # None
  /\ table' = Removed(k, {r})
  /\ UNCHANGED <<blockNumber, client, gone, sets>>

NewBlock ==
  /\ blockNumber < MaxBlock
  /\ blockNumber' = blockNumber + 1
  /\ UNCHANGED <<table, client, gone, sets>>

Next ==
  \/ \E c \in Client :
       \/ \E q \in Request : GetCachedRoute(c, q)
       \/ UseCachedRoute(c)
       \/ DeleteCachedRoute(c)
       \/ \E batch \in (SUBSET left[c]) \ {{}} : \E deleted \in SUBSET batch :
            DeleteBatch(c, batch, deleted) \/ DeleteFails(c, deleted)
  \/ \E routes \in CachedRoutes : \E written \in SUBSET routes.routes :
       routes.blockNumber <= blockNumber /\ SetCachedRoute(routes, written)
  \/ \E k \in Partition, r \in Route : Expire(k, r)
  \/ NewBlock

Spec == Init /\ [][Next]_vars

-----------------------------------------------------------------------------
(* What is claimed of it.                                                  *)

\* Every variable has its type; cached routes are never empty, and a client deletes only
\* what it found.
TypeOK ==
  /\ table \in [Partition -> [Route -> Entry \union {None}]]
  /\ blockNumber \in Block
  /\ request \in [Client -> Request \union {None}]
  /\ cached \in [Client -> CachedRoutes \union {None}]
  /\ left \in [Client -> SUBSET Route]
  /\ spared \in [Client -> SUBSET Route]
  /\ \A c \in Client :
       /\ request[c] = None <=> cached[c] = None
       /\ request[c] = None => left[c] = {}
       /\ left[c] = {} => spared[c] = {}
       /\ request[c] # None => left[c] \union spared[c] \subseteq cached[c].routes
  /\ gone \subseteq Partition \X Route
  /\ sets \in Nat

\* Whoever wrote the entries of a partition, and for whichever protocols, a request is
\* served only routes of the protocols it asks for; and unless its router is 2.0, mixed
\* routes only through pools of those protocols.  It is never served cached routes without
\* a route: a lookup that finds none ends without a result.
ServedAsRequested ==
  \A c \in Client : request[c] # None =>
    /\ cached[c].routes # {}
    /\ \A r \in cached[c].routes :
         /\ ProtocolOf[r] \in request[c].protocols
         /\ request[c].ur2 \/ PoolsOf[r] \subseteq request[c].protocols

\* The first sentence on getCachedRoute ("Fetch the most recent entry ... for that pair",
\* dynamo-route-caching-provider.ts:93): a route that is cached for a currency is found by
\* the requests for that currency that it matches, unless as many others as are taken
\* are at least as recent.
MostRecentFound ==
  \A k \in Partition, r \in Route, q \in Request :
    /\ table[k][r] # None
    /\ table[k][r].currency = q.currency
    /\ Matches(r, q)
    => \/ r \in Taken(q)
       \/ /\ Cardinality(Taken(q)) = RoutesToTake
          /\ \A s \in Taken(q) :
               table[KeyOfRequest(q)][s].blockNumber >= table[k][r].blockNumber

\* The last part of the test "Deletes cached routes": a route whose deletion was reported,
\* and whose item was not left unprocessed, is no longer in the partition it was found in,
\* unless it was set again, whatever other clients set, find and delete meanwhile.
DeletedRoutesGone == \A g \in gone : table[g[1]][g[2]] = None
=============================================================================
