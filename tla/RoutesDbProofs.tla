--------------------------- MODULE RoutesDbProofs ---------------------------
(***************************************************************************)
(* Proofs about the table of cached routes, for any routes, requests,      *)
(* instances and batch sizes.                                              *)
(***************************************************************************)
EXTENDS RoutesDb, FiniteSetTheorems, TLAPS

-----------------------------------------------------------------------------
(* What a query finds.                                                     *)

\* The newest matching entry is among those that are taken.
LEMMA FirstTaken ==
  ASSUME TypeOK, NEW q \in Request, NEW first \in Matching(q), IsFirst(q, first)
  PROVE  first \in Taken(q)
<1>. DEFINE k == KeyOfRequest(q)
<1>1. Matching(q) \subseteq Route /\ \A r \in Matching(q) : table[k][r] # None
  BY DEF Matching
<1>2. k \in Partition
  BY RequestAssumption DEF KeyOfRequest, KeyOf, Partition, Request
<1>3. \A r \in Matching(q) : r \in Nat /\ table[k][r].blockNumber \in Nat
  <2>. TAKE r \in Matching(q)
  <2>1. table[k][r] \in Entry
    BY <1>1, <1>2 DEF TypeOK
  <2>2. table[k][r].blockNumber \in Block
    BY <2>1 DEF Entry
  <2>3. Block \subseteq Nat
    BY BoundAssumption DEF Block
  <2>4. r \in Nat
    BY <1>1, RouteAssumption
  <2>. QED  BY <2>2, <2>3, <2>4
<1>4. \A s \in Matching(q) : ~ Before(k, s, first)
  BY <1>3 DEF IsFirst, Before
<1>5. {s \in Matching(q) : Before(k, s, first)} = {}
  BY <1>4
<1>6. Cardinality({s \in Matching(q) : Before(k, s, first)}) = 0
  BY <1>5, FS_EmptySet
<1>. QED  BY <1>6, BoundAssumption DEF Taken

\* What is found are cached routes, of routes that match, with the currency of an entry.
LEMMA FoundType ==
  ASSUME TypeOK, NEW q \in Request, NEW first \in Matching(q), IsFirst(q, first)
  PROVE  /\ Found(q, first) \in CachedRoutes
         /\ Found(q, first).routes \subseteq Matching(q)
<1>1. KeyOfRequest(q) \in Partition
  BY RequestAssumption DEF KeyOfRequest, KeyOf, Partition, Request
<1>2. table[KeyOfRequest(q)][first] \in Entry
  BY <1>1 DEF TypeOK, Matching
<1>3. Taken(q) \subseteq Matching(q) /\ Matching(q) \subseteq Route
  BY DEF Taken, Matching
<1>4. Taken(q) # {}
  BY FirstTaken
<1>. QED  BY <1>2, <1>3, <1>4 DEF Found, CachedRoutes, Entry

-----------------------------------------------------------------------------
(* Type correctness.                                                       *)

LEMMA KeyType ==
  ASSUME NEW c \in CachedRoutes
  PROVE  KeyOfRoutes(c) \in Partition
  BY RequestAssumption DEF KeyOfRoutes, KeyOf, Partition, CachedRoutes

LEMMA RequestKeyType ==
  ASSUME NEW q \in Request
  PROVE  KeyOfRequest(q) \in Partition
  BY RequestAssumption DEF KeyOfRequest, KeyOf, Partition, Request

LEMMA RemovedType ==
  ASSUME TypeOK, NEW k \in Partition, NEW routes
  PROVE  Removed(k, routes) \in [Partition -> [Route -> Entry \union {None}]]
  BY DEF TypeOK, Removed

\* A client that has a request has cached routes.
LEMMA HeldType ==
  ASSUME TypeOK, NEW c \in Client, request[c] # None
  PROVE  /\ request[c] \in Request
         /\ cached[c] \in CachedRoutes
         /\ left[c] \union spared[c] \subseteq cached[c].routes
  BY DEF TypeOK

LEMMA LeaveType ==
  ASSUME TypeOK, NEW c \in Client, Leave(c)
  PROVE  /\ request' \in [Client -> Request \union {None}]
         /\ cached' \in [Client -> CachedRoutes \union {None}]
         /\ left' \in [Client -> SUBSET Route]
         /\ spared' \in [Client -> SUBSET Route]
         /\ \A d \in Client :
              /\ request'[d] = None <=> cached'[d] = None
              /\ request'[d] = None => left'[d] = {}
              /\ left'[d] = {} => spared'[d] = {}
              /\ request'[d] # None => left'[d] \union spared'[d] \subseteq cached'[d].routes
  BY DEF TypeOK, Leave

LEMMA GetType ==
  ASSUME TypeOK, NEW c \in Client, NEW q \in Request, GetCachedRoute(c, q)
  PROVE  TypeOK'
<1>1. PICK first \in Matching(q) : /\ IsFirst(q, first)
                                  /\ cached' = [cached EXCEPT ![c] = Found(q, first)]
  BY DEF GetCachedRoute
<1>2. Found(q, first) \in CachedRoutes
  BY <1>1, FoundType
<1>3. Found(q, first) # None /\ q # None
  BY <1>2, NoneAssumption
<1>4. left[c] = {}
  BY DEF GetCachedRoute, TypeOK
<1>. QED  BY <1>1, <1>2, <1>3, <1>4 DEF GetCachedRoute, TypeOK

LEMMA SetType ==
  ASSUME TypeOK, NEW routes \in CachedRoutes, NEW written \in SUBSET routes.routes,
         SetCachedRoute(routes, written)
  PROVE  TypeOK'
<1>. DEFINE k == KeyOfRoutes(routes)
            entry == [currency |-> routes.currency, blockNumber |-> routes.blockNumber]
<1>1. k \in Partition
  BY KeyType
<1>2. entry \in Entry
  BY DEF Entry, CachedRoutes
<1>3. table' \in [Partition -> [Route -> Entry \union {None}]]
  <2>1. table' = [table EXCEPT ![k] =
          [r \in Route |-> IF r \in written THEN entry ELSE table[k][r]]]
    BY DEF SetCachedRoute
  <2>2. [r \in Route |-> IF r \in written THEN entry ELSE table[k][r]]
          \in [Route -> Entry \union {None}]
    BY <1>1, <1>2 DEF TypeOK
  <2>. HIDE DEF entry, k
  <2>. QED  BY <1>1, <2>1, <2>2 DEF TypeOK
<1>4. /\ spared' \in [Client -> SUBSET Route]
      /\ \A c \in Client :
           /\ left[c] = {} => spared'[c] = {}
           /\ request[c] # None => spared'[c] \subseteq cached[c].routes
  <2>1. spared' = [c \in Client |->
          IF left[c] = {} THEN {} ELSE spared[c] \union (written \intersect cached[c].routes)]
    BY DEF SetCachedRoute
  <2>2. written \subseteq Route
    BY DEF CachedRoutes
  <2>. QED  BY <2>1, <2>2 DEF TypeOK
<1>5. gone' \subseteq Partition \X Route /\ sets' \in Nat
  BY DEF SetCachedRoute, TypeOK
<1>. QED  BY <1>3, <1>4, <1>5 DEF SetCachedRoute, TypeOK

LEMMA DeleteType ==
  ASSUME TypeOK, NEW c \in Client, DeleteCachedRoute(c)
  PROVE  TypeOK'
<1>1. request[c] # None /\ cached[c] \in CachedRoutes
  BY HeldType DEF DeleteCachedRoute
<1>2. cached[c].routes \in SUBSET Route /\ cached[c].routes # {}
  BY <1>1 DEF CachedRoutes
<1>3. spared[c] = {}
  BY DEF DeleteCachedRoute, TypeOK
<1>. QED  BY <1>1, <1>2, <1>3 DEF DeleteCachedRoute, TypeOK

LEMMA BatchType ==
  ASSUME TypeOK, NEW c \in Client, NEW batch \in SUBSET left[c], batch # {},
         NEW deleted \in SUBSET batch, DeleteBatch(c, batch, deleted)
  PROVE  TypeOK'
<1>1. request[c] # None
  BY DEF TypeOK
<1>2. /\ request[c] \in Request
      /\ cached[c] \in CachedRoutes
      /\ left[c] \union spared[c] \subseteq cached[c].routes
  BY <1>1, HeldType
<1>3. table' \in [Partition -> [Route -> Entry \union {None}]]
  BY <1>2, KeyType, RemovedType DEF DeleteBatch
<1>4. CASE LeftAfter(c, batch) # {}
  <2>1. /\ left' = [left EXCEPT ![c] = left[c] \ batch]
        /\ left[c] \ batch # {}
        /\ spared' = [spared EXCEPT ![c] = spared[c] \union (batch \ deleted)]
        /\ UNCHANGED <<request, cached, gone>>
    BY <1>4 DEF DeleteBatch, LeftAfter
  <2>2. left[c] \subseteq Route /\ spared[c] \subseteq Route
    BY DEF TypeOK
  <2>. QED  BY <1>1, <1>2, <1>3, <2>1, <2>2 DEF DeleteBatch, TypeOK
<1>5. CASE LeftAfter(c, batch) = {}
  <2>1. /\ Leave(c)
        /\ gone' = gone \union ({KeyOfRequest(request[c])} \X
                    (cached[c].routes \ (spared[c] \union (batch \ deleted))))
    BY <1>5 DEF DeleteBatch
  <2>2. gone' \subseteq Partition \X Route
    <3>1. KeyOfRequest(request[c]) \in Partition /\ cached[c].routes \subseteq Route
      BY <1>2, RequestKeyType DEF CachedRoutes
    <3>. QED  BY <2>1, <3>1 DEF TypeOK
  <2>. QED  BY <1>3, <2>1, <2>2, LeaveType DEF DeleteBatch, TypeOK
<1>. QED  BY <1>4, <1>5

LEMMA FailType ==
  ASSUME TypeOK, NEW c \in Client, left[c] # {}, NEW deleted, DeleteFails(c, deleted)
  PROVE  TypeOK'
<1>1. cached[c] \in CachedRoutes
  BY HeldType DEF TypeOK
<1>2. table' \in [Partition -> [Route -> Entry \union {None}]]
  BY <1>1, KeyType, RemovedType DEF DeleteFails
<1>. QED  BY <1>2, LeaveType DEF DeleteFails, TypeOK

\* Every step preserves the types.
LEMMA NextType ==
  ASSUME TypeOK, [Next]_vars
  PROVE  TypeOK'
<1>1. ASSUME NEW c \in Client, NEW q \in Request, GetCachedRoute(c, q)  PROVE TypeOK'
  BY <1>1, GetType
<1>2. ASSUME NEW c \in Client, UseCachedRoute(c)  PROVE TypeOK'
  BY <1>2, LeaveType DEF UseCachedRoute, TypeOK
<1>3. ASSUME NEW c \in Client, DeleteCachedRoute(c)  PROVE TypeOK'
  BY <1>3, DeleteType
<1>4. ASSUME NEW c \in Client, NEW batch \in (SUBSET left[c]) \ {{}},
             NEW deleted \in SUBSET batch,
             DeleteBatch(c, batch, deleted) \/ DeleteFails(c, deleted)
      PROVE  TypeOK'
  <2>1. batch \in SUBSET left[c] /\ batch # {} /\ left[c] # {}
    OBVIOUS
  <2>2. CASE DeleteBatch(c, batch, deleted)
    BY <2>1, <2>2, BatchType
  <2>3. CASE DeleteFails(c, deleted)
    BY <2>1, <2>3, FailType
  <2>. QED  BY <1>4, <2>2, <2>3
<1>5. ASSUME NEW routes \in CachedRoutes, NEW written \in SUBSET routes.routes,
             SetCachedRoute(routes, written)
      PROVE  TypeOK'
  BY <1>5, SetType
<1>6. ASSUME NEW k \in Partition, NEW r \in Route, Expire(k, r)  PROVE TypeOK'
  <2>1. table' \in [Partition -> [Route -> Entry \union {None}]]
    BY <1>6, RemovedType DEF Expire
  <2>. QED  BY <1>6, <2>1 DEF Expire, TypeOK, client
<1>7. CASE NewBlock
  BY <1>7, BoundAssumption DEF NewBlock, TypeOK, Block, client
<1>8. CASE UNCHANGED vars
  BY <1>8 DEF vars, client, TypeOK
<1>. QED  BY <1>1, <1>2, <1>3, <1>4, <1>5, <1>6, <1>7, <1>8 DEF Next

\* Every variable has its type in every state.
THEOREM TypeCorrect == Spec => []TypeOK
<1>1. Init => TypeOK
  BY BoundAssumption DEF Init, TypeOK, Block
<1>2. TypeOK /\ [Next]_vars => TypeOK'
  BY NextType
<1>. QED  BY <1>1, <1>2, PTL DEF Spec

-----------------------------------------------------------------------------
(* What requests are served.                                               *)

\* A step of the client that ends its request, or of another one, serves it nothing new.
LEMMA LeaveServed ==
  ASSUME TypeOK, ServedAsRequested, NEW c \in Client, Leave(c)
  PROVE  ServedAsRequested'
  BY DEF Leave, TypeOK, ServedAsRequested

LEMMA GetServed ==
  ASSUME TypeOK, ServedAsRequested, NEW c \in Client, NEW q \in Request, GetCachedRoute(c, q)
  PROVE  ServedAsRequested'
<1>1. PICK first \in Matching(q) : /\ IsFirst(q, first)
                                  /\ cached' = [cached EXCEPT ![c] = Found(q, first)]
  BY DEF GetCachedRoute
<1>2. Found(q, first).routes \subseteq Matching(q)
  BY <1>1, FoundType
<1>3. ASSUME NEW r \in Matching(q)
      PROVE  /\ ProtocolOf[r] \in q.protocols
             /\ q.ur2 \/ PoolsOf[r] \subseteq q.protocols
  <2>1. r \in Route /\ Matches(r, q)
    BY DEF Matching
  <2>2. PoolsOf[r] # {} => ProtocolOf[r] = "MIXED"
    BY <2>1, RouteAssumption
  <2>. QED  BY <2>1, <2>2 DEF Matches
<1>4. request' = [request EXCEPT ![c] = q]
  BY DEF GetCachedRoute
<1>5. ASSUME NEW d \in Client, d # c, request'[d] # None
      PROVE  /\ cached'[d].routes # {}
             /\ \A r \in cached'[d].routes :
                  /\ ProtocolOf[r] \in request'[d].protocols
                  /\ request'[d].ur2 \/ PoolsOf[r] \subseteq request'[d].protocols
  BY <1>1, <1>4, <1>5 DEF TypeOK, ServedAsRequested
<1>6. /\ cached'[c].routes \subseteq Matching(q) /\ cached'[c].routes # {}
      /\ request'[c] = q
  BY <1>1, <1>2, <1>4, FoundType DEF TypeOK, CachedRoutes
<1>. QED  BY <1>3, <1>5, <1>6 DEF ServedAsRequested

\* Whoever wrote the table, a request is served only what it asks for.
THEOREM ServesOnlyRequested == Spec => []ServedAsRequested
<1>1. Init => ServedAsRequested
  BY DEF Init, ServedAsRequested
<1>2. ASSUME TypeOK, ServedAsRequested, [Next]_vars
      PROVE  ServedAsRequested'
  <2>1. ASSUME NEW c \in Client, NEW q \in Request, GetCachedRoute(c, q)
        PROVE  ServedAsRequested'
    BY <1>2, <2>1, GetServed
  <2>2. ASSUME NEW c \in Client, Leave(c)  PROVE ServedAsRequested'
    BY <1>2, <2>2, LeaveServed
  <2>3. CASE UNCHANGED <<request, cached>>
    BY <1>2, <2>3 DEF ServedAsRequested
  <2>4. ASSUME NEW c \in Client, NEW batch, NEW deleted,
               DeleteBatch(c, batch, deleted) \/ DeleteFails(c, deleted)
        PROVE  Leave(c) \/ UNCHANGED <<request, cached>>
    BY <2>4 DEF DeleteBatch, DeleteFails
  <2>. QED  BY <1>2, <2>1, <2>2, <2>3, <2>4
       DEF Next, UseCachedRoute, DeleteCachedRoute, SetCachedRoute, Expire, NewBlock, client, vars
<1>. QED  BY <1>1, <1>2, TypeCorrect, PTL DEF Spec

-----------------------------------------------------------------------------
(* Deletions.                                                              *)

\* Of the routes that a deletion is about, those it is through with, and that were neither
\* spared nor set again, are no longer in the partition the request read.
DeletedSoFar ==
  \A c \in Client : left[c] # {} =>
    \A r \in cached[c].routes \ (left[c] \union spared[c]) :
      table[KeyOfRequest(request[c])][r] = None

OnlyWrapped == "native" \notin Currency

\* For a pair without the native currency, the deletion looks where the request looked.
LEMMA SameKey ==
  ASSUME OnlyWrapped, NEW q \in Request, NEW c \in CachedRoutes
  PROVE  KeyOfRequest(q) = "wrapped" /\ KeyOfRoutes(c) = "wrapped"
  BY RequestAssumption
  DEF OnlyWrapped, KeyOfRequest, KeyOfRoutes, KeyOf, Request, CachedRoutes

LEMMA RemovedNone ==
  ASSUME TypeOK, NEW k \in Partition, NEW routes, table' = Removed(k, routes)
  PROVE  /\ \A j \in Partition, r \in Route : table[j][r] = None => table'[j][r] = None
         /\ \A r \in Route : r \in routes => table'[k][r] = None
  BY DEF TypeOK, Removed

DInv == TypeOK /\ DeletedSoFar /\ DeletedRoutesGone

LEMMA SetDeletions ==
  ASSUME OnlyWrapped, DInv, NEW routes \in CachedRoutes, NEW written \in SUBSET routes.routes,
         SetCachedRoute(routes, written)
  PROVE  (DeletedSoFar /\ DeletedRoutesGone)'
<1>. DEFINE k == KeyOfRoutes(routes)
<1>1. k \in Partition
  BY KeyType
<1>2. \A j \in Partition, r \in Route :
        table[j][r] = None /\ ~ (j = k /\ r \in written) => table'[j][r] = None
  BY <1>1 DEF SetCachedRoute, DInv, TypeOK
<1>3. DeletedRoutesGone'
  <2>. SUFFICES ASSUME NEW g \in gone'  PROVE table'[g[1]][g[2]] = None
    BY DEF DeletedRoutesGone
  <2>1. g \in gone /\ g \notin {k} \X written
    BY DEF SetCachedRoute
  <2>2. g[1] \in Partition /\ g[2] \in Route /\ g = <<g[1], g[2]>>
    BY <2>1 DEF DInv, TypeOK
  <2>3. ~ (g[1] = k /\ g[2] \in written)
    BY <2>1, <2>2
  <2>4. table[g[1]][g[2]] = None
    BY <2>1 DEF DInv, DeletedRoutesGone
  <2>. QED  BY <1>2, <2>2, <2>3, <2>4
<1>4. DeletedSoFar'
  <2>. SUFFICES ASSUME NEW c \in Client, left'[c] # {},
                       NEW r \in cached'[c].routes \ (left'[c] \union spared'[c])
                PROVE  table'[KeyOfRequest(request'[c])][r] = None
    BY DEF DeletedSoFar
  <2>1. left[c] # {} /\ left' = left /\ cached' = cached /\ request' = request
    BY DEF SetCachedRoute
  <2>2. request[c] # None
    BY <2>1 DEF DInv, TypeOK
  <2>3. request[c] \in Request /\ cached[c] \in CachedRoutes
    BY <2>2, HeldType DEF DInv
  <2>4. spared'[c] = spared[c] \union (written \intersect cached[c].routes)
    BY <2>1 DEF SetCachedRoute
  <2>5. r \notin written /\ r \in Route /\ r \in cached[c].routes \ (left[c] \union spared[c])
    BY <2>1, <2>3, <2>4 DEF CachedRoutes
  <2>6. KeyOfRequest(request[c]) \in Partition
    BY <2>3, RequestKeyType
  <2>. QED  BY <1>2, <2>1, <2>5, <2>6 DEF DInv, DeletedSoFar
<1>. QED  BY <1>3, <1>4

\* Entries only disappear and a client leaves: what was deleted stays deleted.
LEMMA LeaveDeletions ==
  ASSUME DInv, NEW c \in Client, Leave(c),
         \A j \in Partition, r \in Route : table[j][r] = None => table'[j][r] = None
  PROVE  DeletedSoFar'
<1>. SUFFICES ASSUME NEW d \in Client, left'[d] # {},
                     NEW r \in cached'[d].routes \ (left'[d] \union spared'[d])
              PROVE  table'[KeyOfRequest(request'[d])][r] = None
  BY DEF DeletedSoFar
<1>1. d # c /\ left'[d] = left[d] /\ spared'[d] = spared[d] /\ cached'[d] = cached[d]
      /\ request'[d] = request[d]
  BY DEF Leave, DInv, TypeOK
<1>2. request[d] # None
  BY <1>1 DEF DInv, TypeOK
<1>3. request[d] \in Request /\ cached[d].routes \subseteq Route
  BY <1>2, HeldType DEF DInv, CachedRoutes
<1>. QED  BY <1>1, <1>3, RequestKeyType DEF DInv, DeletedSoFar

\* Entries only disappear.
LEMMA GoneStays ==
  ASSUME DInv, \A j \in Partition, r \in Route : table[j][r] = None => table'[j][r] = None
  PROVE  \A g \in gone : table'[g[1]][g[2]] = None
<1>. TAKE g \in gone
<1>1. g[1] \in Partition /\ g[2] \in Route /\ table[g[1]][g[2]] = None
  BY DEF DInv, TypeOK, DeletedRoutesGone
<1>. QED  BY <1>1

LEMMA BatchDeletions ==
  ASSUME OnlyWrapped, DInv, NEW c \in Client, NEW batch \in SUBSET left[c], batch # {},
         NEW deleted \in SUBSET batch, DeleteBatch(c, batch, deleted)
  PROVE  (DeletedSoFar /\ DeletedRoutesGone)'
<1>. DEFINE k == KeyOfRequest(request[c])
            kept == spared[c] \union (batch \ deleted)
<1>1. request[c] # None /\ left[c] # {}
  BY DEF DInv, TypeOK
<1>2. /\ request[c] \in Request /\ cached[c] \in CachedRoutes
      /\ left[c] \subseteq cached[c].routes /\ cached[c].routes \subseteq Route
  BY <1>1, HeldType DEF DInv, CachedRoutes
<1>3. k = KeyOfRoutes(cached[c]) /\ k \in Partition
  BY <1>2, SameKey, RequestKeyType
<1>4. table' = Removed(k, deleted)
  BY <1>3 DEF DeleteBatch
<1>5. /\ \A j \in Partition, r \in Route : table[j][r] = None => table'[j][r] = None
      /\ \A r \in Route : r \in deleted => table'[k][r] = None
  BY <1>3, <1>4, RemovedNone DEF DInv
<1>6. ASSUME NEW r \in cached[c].routes \ ((left[c] \ batch) \union kept)
      PROVE  table'[k][r] = None
  <2>1. r \in Route
    BY <1>2
  <2>2. CASE r \in batch
    BY <1>5, <2>1, <2>2
  <2>3. CASE r \notin batch
    <3>1. r \in cached[c].routes \ (left[c] \union spared[c])
      BY <2>3
    <3>. QED  BY <1>1, <1>3, <1>5, <2>1, <3>1 DEF DInv, DeletedSoFar
  <2>. QED  BY <2>2, <2>3
<1>7. CASE LeftAfter(c, batch) # {}
  <2>1. /\ left' = [left EXCEPT ![c] = left[c] \ batch]
        /\ spared' = [spared EXCEPT ![c] = kept]
        /\ UNCHANGED <<request, cached, gone>>
    BY <1>7 DEF DeleteBatch, LeftAfter
  <2>2. left'[c] = left[c] \ batch /\ spared'[c] = kept
    BY <2>1 DEF DInv, TypeOK
  <2>3. ASSUME NEW d \in Client, left'[d] # {},
               NEW r \in cached'[d].routes \ (left'[d] \union spared'[d])
        PROVE  table'[KeyOfRequest(request'[d])][r] = None
    <3>1. CASE d = c
      BY <1>6, <2>1, <2>2, <2>3, <3>1
    <3>2. CASE d # c
      <4>1. left'[d] = left[d] /\ spared'[d] = spared[d]
        BY <2>1, <3>2 DEF DInv, TypeOK
      <4>2. request[d] # None
        BY <2>3, <4>1 DEF DInv, TypeOK
      <4>3. request[d] \in Request /\ cached[d].routes \subseteq Route
        BY <4>2, HeldType DEF DInv, CachedRoutes
      <4>. QED  BY <1>5, <2>1, <2>3, <4>1, <4>3, RequestKeyType DEF DInv, DeletedSoFar
    <3>. QED  BY <3>1, <3>2
  <2>. QED  BY <1>5, <2>1, <2>3, GoneStays DEF DeletedSoFar, DeletedRoutesGone
<1>8. CASE LeftAfter(c, batch) = {}
  <2>1. Leave(c) /\ gone' = gone \union ({k} \X (cached[c].routes \ kept))
    BY <1>8 DEF DeleteBatch
  <2>2. left[c] \ batch = {}
    BY <1>8 DEF LeftAfter
  <2>3. ASSUME NEW g \in gone'  PROVE table'[g[1]][g[2]] = None
    <3>1. CASE g \in gone
      BY <1>5, <3>1, GoneStays
    <3>2. CASE g \in {k} \X (cached[c].routes \ kept)
      <4>1. g[1] = k /\ g[2] \in cached[c].routes \ kept
        BY <3>2
      <4>. QED  BY <1>6, <2>2, <4>1
    <3>. QED  BY <2>1, <2>3, <3>1, <3>2
  <2>. QED  BY <1>5, <2>1, <2>3, LeaveDeletions DEF DeletedRoutesGone
<1>. QED  BY <1>7, <1>8

LEMMA NextDeletions ==
  ASSUME OnlyWrapped, DInv, [Next]_vars
  PROVE  (DeletedSoFar /\ DeletedRoutesGone)'
<1>. DEFINE Goal == (DeletedSoFar /\ DeletedRoutesGone)'
<1>1. ASSUME NEW c \in Client, Leave(c), gone' = gone,
             \A j \in Partition, r \in Route : table[j][r] = None => table'[j][r] = None
      PROVE  Goal
  BY <1>1, LeaveDeletions, GoneStays DEF DeletedRoutesGone
<1>2. ASSUME UNCHANGED <<left, spared, gone, request, cached>>,
             \A j \in Partition, r \in Route : table[j][r] = None => table'[j][r] = None
      PROVE  Goal
  <2>1. ASSUME NEW c \in Client, left[c] # {}
        PROVE  KeyOfRequest(request[c]) \in Partition /\ cached[c].routes \subseteq Route
    <3>1. request[c] # None
      BY <2>1 DEF DInv, TypeOK
    <3>. QED  BY <3>1, HeldType, RequestKeyType DEF DInv, CachedRoutes
  <2>. QED  BY <1>2, <2>1, GoneStays DEF DInv, DeletedSoFar, DeletedRoutesGone
<1>3. ASSUME NEW c \in Client, NEW q \in Request, GetCachedRoute(c, q)  PROVE Goal
  <2>1. /\ UNCHANGED <<table, left, spared, gone>>
        /\ left[c] = {}
        /\ \A d \in Client : d # c => cached'[d] = cached[d] /\ request'[d] = request[d]
    BY <1>3 DEF GetCachedRoute, DInv, TypeOK
  <2>. QED  BY <2>1 DEF DInv, DeletedSoFar, DeletedRoutesGone
<1>4. ASSUME NEW c \in Client, UseCachedRoute(c)  PROVE Goal
  BY <1>1, <1>4 DEF UseCachedRoute
<1>5. ASSUME NEW c \in Client, DeleteCachedRoute(c)  PROVE Goal
  <2>1. /\ UNCHANGED <<table, request, cached, spared, gone>>
        /\ left' = [left EXCEPT ![c] = cached[c].routes]
    BY <1>5 DEF DeleteCachedRoute
  <2>. QED  BY <2>1 DEF DInv, TypeOK, DeletedSoFar, DeletedRoutesGone
<1>6. ASSUME NEW c \in Client, NEW batch \in (SUBSET left[c]) \ {{}},
             NEW deleted \in SUBSET batch,
             DeleteBatch(c, batch, deleted) \/ DeleteFails(c, deleted)
      PROVE  Goal
  <2>1. CASE DeleteBatch(c, batch, deleted)
    BY <2>1, BatchDeletions
  <2>2. CASE DeleteFails(c, deleted)
    <3>1. cached[c] \in CachedRoutes
      BY <1>6, HeldType DEF DInv, TypeOK
    <3>2. /\ table' = Removed(KeyOfRoutes(cached[c]), deleted)
          /\ Leave(c) /\ gone' = gone
      BY <2>2 DEF DeleteFails
    <3>. QED  BY <1>1, <3>1, <3>2, KeyType, RemovedNone DEF DInv
  <2>. QED  BY <1>6, <2>1, <2>2
<1>7. ASSUME NEW routes \in CachedRoutes, NEW written \in SUBSET routes.routes,
             SetCachedRoute(routes, written)
      PROVE  Goal
  BY <1>7, SetDeletions
<1>8. ASSUME NEW k \in Partition, NEW r \in Route, Expire(k, r)  PROVE Goal
  <2>1. \A j \in Partition, s \in Route : table[j][s] = None => table'[j][s] = None
    BY <1>8, RemovedNone DEF Expire, DInv
  <2>. QED  BY <1>2, <1>8, <2>1 DEF Expire, client
<1>9. CASE NewBlock \/ UNCHANGED vars
  BY <1>2, <1>9 DEF NewBlock, vars, client
<1>10. CASE \E c \in Client :
          \/ \E q \in Request : GetCachedRoute(c, q)
          \/ UseCachedRoute(c)
          \/ DeleteCachedRoute(c)
          \/ \E batch \in (SUBSET left[c]) \ {{}} : \E deleted \in SUBSET batch :
               DeleteBatch(c, batch, deleted) \/ DeleteFails(c, deleted)
  BY <1>3, <1>4, <1>5, <1>6, <1>10
<1>. QED  BY <1>7, <1>8, <1>9, <1>10 DEF Next

\* For a pair without the native currency, a reported deletion is not undone by what
\* other instances find and delete, and reaches the entries the request had found.
THEOREM DeletionsReachWhatWasFound ==
  ASSUME OnlyWrapped
  PROVE  Spec => []DeletedRoutesGone
<1>1. Init => DInv
  <2>1. Init => TypeOK
    BY BoundAssumption DEF Init, TypeOK, Block
  <2>. QED  BY <2>1 DEF Init, DInv, DeletedSoFar, DeletedRoutesGone
<1>2. DInv /\ [Next]_vars => DInv'
  BY OnlyWrapped, NextDeletions, NextType DEF DInv
<1>3. DInv => DeletedRoutesGone
  BY DEF DInv
<1>. QED  BY <1>1, <1>2, <1>3, PTL DEF Spec

-----------------------------------------------------------------------------
(* What a query takes.  Among the entries that match, Before is a strict   *)
(* total order, so the number of entries before one is its rank: the ranks *)
(* are 0, 1, 2, ... without a gap, and those below RoutesToTake are taken. *)

Ahead(q, r) == {s \in Matching(q) : Before(KeyOfRequest(q), s, r)}

Rank(q, r) == Cardinality(Ahead(q, r))

\* The entries that match are ordered.
LEMMA TotalOrder ==
  ASSUME TypeOK, NEW q \in Request
  PROVE  /\ \A r \in Matching(q) : ~ Before(KeyOfRequest(q), r, r)
         /\ \A r, s \in Matching(q) :
              r # s => Before(KeyOfRequest(q), r, s) \/ Before(KeyOfRequest(q), s, r)
         /\ \A r, s, t \in Matching(q) :
              Before(KeyOfRequest(q), r, s) /\ Before(KeyOfRequest(q), s, t)
                => Before(KeyOfRequest(q), r, t)
         /\ \A r, s \in Matching(q) :
              Before(KeyOfRequest(q), r, s)
                => table[KeyOfRequest(q)][r].blockNumber >= table[KeyOfRequest(q)][s].blockNumber
<1>. DEFINE k == KeyOfRequest(q)
<1>1. \A r \in Matching(q) : r \in Nat /\ table[k][r].blockNumber \in Nat
  <2>. SUFFICES ASSUME NEW r \in Matching(q)  PROVE r \in Nat /\ table[k][r].blockNumber \in Nat
    OBVIOUS
  <2>1. table[k][r] \in Entry /\ r \in Route
    BY RequestKeyType DEF Matching, TypeOK
  <2>. QED  BY <2>1, RouteAssumption, BoundAssumption DEF Entry, Block
<1>. HIDE DEF k
<1>. QED  BY <1>1 DEF Before, k

\* The entries before one that matches are finitely many, and fewer than all.
LEMMA RankType ==
  ASSUME TypeOK, NEW q \in Request, NEW r \in Matching(q)
  PROVE  /\ IsFiniteSet(Matching(q)) /\ Cardinality(Matching(q)) \in Nat
         /\ IsFiniteSet(Ahead(q, r)) /\ Rank(q, r) \in Nat
         /\ Rank(q, r) < Cardinality(Matching(q))
<1>1. Matching(q) \in SUBSET Route
  BY DEF Matching
<1>2. IsFiniteSet(Matching(q)) /\ Cardinality(Matching(q)) \in Nat
  BY <1>1, RouteAssumption, FS_Subset, FS_CardinalityType
<1>3. Ahead(q, r) \in SUBSET Matching(q) /\ r \notin Ahead(q, r)
  BY TotalOrder DEF Ahead
<1>4. IsFiniteSet(Ahead(q, r)) /\ Rank(q, r) \in Nat
  BY <1>2, <1>3, FS_Subset, FS_CardinalityType DEF Rank
<1>5. Rank(q, r) <= Cardinality(Matching(q)) /\ Rank(q, r) # Cardinality(Matching(q))
  BY <1>2, <1>3, FS_Subset DEF Rank
<1>. QED  BY <1>2, <1>4, <1>5

\* What comes before has the lower rank.
LEMMA RankOrders ==
  ASSUME TypeOK, NEW q \in Request, NEW r \in Matching(q), NEW s \in Matching(q),
         Before(KeyOfRequest(q), r, s)
  PROVE  Rank(q, r) < Rank(q, s)
<1>1. Ahead(q, r) \in SUBSET Ahead(q, s) /\ r \in Ahead(q, s) /\ r \notin Ahead(q, r)
  BY TotalOrder DEF Ahead
<1>2. Rank(q, r) <= Rank(q, s) /\ Rank(q, r) # Rank(q, s)
  BY <1>1, RankType, FS_Subset DEF Rank
<1>. QED  BY <1>2, RankType

\* Every number below that of the matching entries is the rank of one.
LEMMA RanksFilled ==
  ASSUME TypeOK, NEW q \in Request, NEW n \in Nat, n < Cardinality(Matching(q))
  PROVE  \E r \in Matching(q) : Rank(q, r) = n
<1>. DEFINE size == Cardinality(Matching(q))
            rank == [r \in Matching(q) |-> Rank(q, r)]
<1>1. PICK any \in Matching(q) : TRUE
  <2>1. Matching(q) # {}
    BY FS_EmptySet
  <2>. QED  BY <2>1
<1>2. size \in Nat /\ IsFiniteSet(Matching(q))
  BY <1>1, RankType
<1>3. IsFiniteSet(0 .. size - 1) /\ Cardinality(0 .. size - 1) = size
  <2>. HIDE DEF size
  <2>. QED  BY <1>2, FS_Interval
<1>4. rank \in [Matching(q) -> 0 .. size - 1]
  BY <1>2, RankType
<1>5. \A r, s \in Matching(q) : rank[r] = rank[s] => r = s
  <2>. SUFFICES ASSUME NEW r \in Matching(q), NEW s \in Matching(q), r # s
                PROVE  Rank(q, r) # Rank(q, s)
    OBVIOUS
  <2>1. Before(KeyOfRequest(q), r, s) \/ Before(KeyOfRequest(q), s, r)
    BY TotalOrder
  <2>2. Rank(q, r) < Rank(q, s) \/ Rank(q, s) < Rank(q, r)
    BY <2>1, RankOrders
  <2>. QED  BY <2>2, RankType
<1>6. rank \in Injection(Matching(q), 0 .. size - 1)
  <2>. HIDE DEF rank, size
  <2>. QED  BY <1>4, <1>5 DEF Injection, IsInjective
<1>7. rank \in Surjection(Matching(q), 0 .. size - 1)
  <2>. HIDE DEF rank
  <2>. QED  BY <1>3, <1>6, FS_Injection
<1>8. n \in 0 .. size - 1
  BY <1>2
<1>. QED  BY <1>7, <1>8 DEF Surjection

Places == 0 .. RoutesToTake - 1

\* Every entry that is taken has a place of its own.
LEMMA TakenRanks ==
  ASSUME TypeOK, NEW q \in Request
  PROVE  /\ Taken(q) = {r \in Matching(q) : Rank(q, r) < RoutesToTake}
         /\ [r \in Taken(q) |-> Rank(q, r)] \in Injection(Taken(q), Places)
         /\ IsFiniteSet(Places) /\ Cardinality(Places) = RoutesToTake
<1>. DEFINE rank == [r \in Taken(q) |-> Rank(q, r)]
<1>1. Taken(q) = {r \in Matching(q) : Rank(q, r) < RoutesToTake}
  BY DEF Taken, Rank, Ahead
<1>2. RoutesToTake \in Nat /\ RoutesToTake > 0
  BY BoundAssumption
<1>3. rank \in [Taken(q) -> Places]
  BY <1>1, <1>2, RankType DEF Places
<1>4. \A s, t \in Taken(q) : rank[s] = rank[t] => s = t
  <2>. SUFFICES ASSUME NEW s \in Taken(q), NEW t \in Taken(q), s # t
                PROVE  Rank(q, s) # Rank(q, t)
    OBVIOUS
  <2>1. s \in Matching(q) /\ t \in Matching(q)
    BY <1>1
  <2>2. Before(KeyOfRequest(q), s, t) \/ Before(KeyOfRequest(q), t, s)
    BY <2>1, TotalOrder
  <2>3. Rank(q, s) < Rank(q, t) \/ Rank(q, t) < Rank(q, s)
    BY <2>1, <2>2, RankOrders
  <2>. QED  BY <2>1, <2>3, RankType
<1>5. IsFiniteSet(Places) /\ Cardinality(Places) = RoutesToTake
  BY <1>2, FS_Interval DEF Places
<1>6. rank \in Injection(Taken(q), Places)
  <2>. HIDE DEF rank
  <2>. QED  BY <1>3, <1>4 DEF Injection, IsInjective
<1>. QED  BY <1>1, <1>5, <1>6

\* A query takes no more entries than it may.
LEMMA TakenAtMost ==
  ASSUME TypeOK, NEW q \in Request
  PROVE  Cardinality(Taken(q)) <= RoutesToTake
<1>. DEFINE rank == [r \in Taken(q) |-> Rank(q, r)]
<1>1. rank \in Injection(Taken(q), Places)
  BY TakenRanks
<1>2. IsFiniteSet(Places) /\ Cardinality(Places) = RoutesToTake
  BY TakenRanks
<1>. HIDE DEF rank
<1>3. Cardinality(Taken(q)) <= Cardinality(Places)
  BY <1>1, <1>2, FS_Injection
<1>. QED  BY <1>2, <1>3

\* If an entry that matches is not taken, as many are taken as may be.
LEMMA TakenFull ==
  ASSUME TypeOK, NEW q \in Request, NEW r \in Matching(q), r \notin Taken(q)
  PROVE  Cardinality(Taken(q)) = RoutesToTake
<1>. DEFINE rank == [s \in Taken(q) |-> Rank(q, s)]
<1>1. RoutesToTake \in Nat /\ RoutesToTake > 0
  BY BoundAssumption
<1>2. ~ (Rank(q, r) < RoutesToTake) /\ Rank(q, r) < Cardinality(Matching(q))
  BY TakenRanks, RankType
<1>3. RoutesToTake < Cardinality(Matching(q))
  BY <1>1, <1>2, RankType
<1>4. \A n \in Places : \E s \in Taken(q) : rank[s] = n
  <2>. SUFFICES ASSUME NEW n \in Places  PROVE \E s \in Taken(q) : Rank(q, s) = n
    OBVIOUS
  <2>1. n \in Nat /\ n < RoutesToTake
    BY <1>1 DEF Places
  <2>2. n < Cardinality(Matching(q))
    BY <1>1, <1>3, <2>1, RankType
  <2>3. PICK s \in Matching(q) : Rank(q, s) = n
    BY <2>1, <2>2, RanksFilled
  <2>. QED  BY <2>1, <2>3, TakenRanks
<1>5. rank \in Injection(Taken(q), Places)
  BY TakenRanks
<1>. HIDE DEF rank
<1>6. rank \in Surjection(Taken(q), Places)
  BY <1>4, <1>5 DEF Injection, Surjection
<1>. QED  BY <1>5, <1>6, TakenRanks, FS_Injection

\* Whatever a query leaves out, it takes as many entries as it may, each as recent.
LEMMA NewestTaken ==
  ASSUME TypeOK, NEW q \in Request, NEW r \in Matching(q), r \notin Taken(q)
  PROVE  /\ Cardinality(Taken(q)) = RoutesToTake
         /\ \A s \in Taken(q) : table[KeyOfRequest(q)][s].blockNumber
                               >= table[KeyOfRequest(q)][r].blockNumber
<1>. SUFFICES ASSUME NEW s \in Taken(q)
              PROVE  table[KeyOfRequest(q)][s].blockNumber
                       >= table[KeyOfRequest(q)][r].blockNumber
  BY TakenFull
<1>1. s \in Matching(q) /\ Rank(q, s) < RoutesToTake /\ ~ (Rank(q, r) < RoutesToTake)
  BY DEF Taken, Rank, Ahead
<1>2. ~ (Rank(q, r) < Rank(q, s))
  BY <1>1, RankType, BoundAssumption
<1>3. s # r /\ ~ Before(KeyOfRequest(q), r, s)
  BY <1>1, <1>2, RankOrders
<1>. QED  BY <1>1, <1>3, TotalOrder

\* What a query leaves out of what its partition has for it is no newer than anything it
\* takes, and it takes as much as it may.
LeavesOutOldest ==
  \A q \in Request :
    /\ Cardinality(Taken(q)) <= RoutesToTake
    /\ \A r \in Matching(q) \ Taken(q) :
         /\ Cardinality(Taken(q)) = RoutesToTake
         /\ \A s \in Taken(q) : table[KeyOfRequest(q)][s].blockNumber
                               >= table[KeyOfRequest(q)][r].blockNumber

\* For any pair, the native currency or not, the limit of a query cuts off the oldest
\* entries of the partition it reads (dynamo-route-caching-provider.ts:172-173).
THEOREM NewestServed == Spec => []LeavesOutOldest
<1>1. TypeOK => LeavesOutOldest
  BY NewestTaken, TakenAtMost DEF LeavesOutOldest
<1>. QED  BY <1>1, TypeCorrect, PTL

\* The partition of the native currency stays empty when no request is made for it.
OnlyWrappedStored == \A r \in Route : table["native"][r] = None

LEMMA NextStored ==
  ASSUME OnlyWrapped, TypeOK, OnlyWrappedStored, [Next]_vars
  PROVE  OnlyWrappedStored'
<1>1. ASSUME NEW k \in Partition, NEW routes, table' = Removed(k, routes)
      PROVE  OnlyWrappedStored'
  BY <1>1, RemovedNone DEF OnlyWrappedStored, Partition
<1>2. ASSUME NEW c \in Client, NEW batch \in (SUBSET left[c]) \ {{}},
             NEW deleted \in SUBSET batch,
             DeleteBatch(c, batch, deleted) \/ DeleteFails(c, deleted)
      PROVE  OnlyWrappedStored'
  <2>1. left[c] # {}
    OBVIOUS
  <2>2. cached[c] \in CachedRoutes
    BY <2>1, HeldType DEF TypeOK
  <2>3. table' = Removed(KeyOfRoutes(cached[c]), deleted)
    BY <1>2 DEF DeleteBatch, DeleteFails
  <2>. QED  BY <1>1, <2>2, <2>3, KeyType
<1>3. ASSUME NEW routes \in CachedRoutes, NEW written \in SUBSET routes.routes,
             SetCachedRoute(routes, written)
      PROVE  OnlyWrappedStored'
  <2>1. KeyOfRoutes(routes) = "wrapped"
    BY RequestAssumption DEF OnlyWrapped, KeyOfRoutes, KeyOf, CachedRoutes
  <2>2. table'["native"] = table["native"]
    BY <1>3, <2>1 DEF SetCachedRoute, TypeOK, Partition
  <2>. QED  BY <2>2 DEF OnlyWrappedStored
<1>4. ASSUME NEW k \in Partition, NEW r \in Route, Expire(k, r)  PROVE OnlyWrappedStored'
  BY <1>1, <1>4 DEF Expire
<1>5. ASSUME UNCHANGED table  PROVE OnlyWrappedStored'
  BY <1>5 DEF OnlyWrappedStored
<1>6. CASE NewBlock \/ UNCHANGED vars
  BY <1>5, <1>6 DEF NewBlock, vars
<1>7. CASE \E c \in Client :
          \/ \E q \in Request : GetCachedRoute(c, q)
          \/ UseCachedRoute(c)
          \/ DeleteCachedRoute(c)
          \/ \E batch \in (SUBSET left[c]) \ {{}} : \E deleted \in SUBSET batch :
               DeleteBatch(c, batch, deleted) \/ DeleteFails(c, deleted)
  BY <1>2, <1>5, <1>7 DEF GetCachedRoute, UseCachedRoute, DeleteCachedRoute
<1>. QED  BY <1>3, <1>4, <1>6, <1>7 DEF Next

\* For a pair without the native currency, a query finds the most recent entry, and whatever
\* it leaves out, it takes as many as it may that are as recent
\* (dynamo-route-caching-provider.ts:93).
THEOREM FindsMostRecent ==
  ASSUME OnlyWrapped
  PROVE  Spec => []MostRecentFound
<1>1. Init => OnlyWrappedStored
  BY DEF Init, OnlyWrappedStored, Partition
<1>2. OnlyWrappedStored /\ TypeOK /\ [Next]_vars => OnlyWrappedStored'
  BY OnlyWrapped, NextStored
<1>3. OnlyWrappedStored /\ TypeOK => MostRecentFound
  <2>. SUFFICES ASSUME OnlyWrappedStored, TypeOK, NEW k \in Partition, NEW r \in Route,
                       NEW q \in Request, table[k][r] # None, Matches(r, q), r \notin Taken(q)
                PROVE  /\ Cardinality(Taken(q)) = RoutesToTake
                       /\ \A s \in Taken(q) :
                            table[KeyOfRequest(q)][s].blockNumber >= table[k][r].blockNumber
    BY DEF MostRecentFound
  <2>1. k = "wrapped" /\ KeyOfRequest(q) = "wrapped"
    BY OnlyWrapped, RequestAssumption
    DEF OnlyWrappedStored, Partition, OnlyWrapped, KeyOfRequest, KeyOf, Request
  <2>2. r \in Matching(q)
    BY <2>1 DEF Matching
  <2>. QED  BY <2>1, <2>2, NewestTaken
<1>. QED  BY <1>1, <1>2, <1>3, TypeCorrect, PTL DEF Spec
=============================================================================
