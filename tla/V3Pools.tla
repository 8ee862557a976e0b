------------------------------- MODULE V3Pools -------------------------------
(***************************************************************************)
(* TrafficSwitchV3PoolProvider and its target, a cache of pools in a       *)
(* DynamoDB table keyed by pool and block.  A call looks its pools up one  *)
(* by one, reads those that are missing from the chain and stores them one *)
(* by one; a sampled call asks the current provider first, and compares    *)
(* both with the chain after it has returned.                              *)
(*                                                                         *)
(* A pool at block b is the number b: any two blocks may tell two states   *)
(* of it.  0 is no pool, or no block.                                      *)
(***************************************************************************)
EXTENDS Integers

CONSTANTS
  PoolCall,     \* calls of getPools at one time
  Pool,         \* pool addresses
  PoolsOf,      \* the pools of the pairs a call asks for
  Since,        \* the block a pool was created at
  MaxHead,      \* bound on the blocks of the chain
  PoolSampling, \* samplingPercentage and switchPercentage
  PoolSwitching

ASSUME PoolsAssumption ==
  /\ PoolsOf \in [PoolCall -> (SUBSET Pool) \ {{}}]
  /\ MaxHead \in Nat \ {0} /\ Since \in [Pool -> Nat \ {0}]
  /\ PoolSampling \in 0..100 /\ PoolSwitching \in 0..100

VARIABLES
  head,      \* the latest block
  table,     \* the table: the value stored for a pool and a block
  getting    \* the calls, each with the comparison it leaves behind

poolsVars == <<head, table, getting>>

Block == 0..MaxHead
Provider == {"current", "target"}

\* The pool at a block, and at the head when the block is not known.
At(p, block) ==
  LET b == IF block = 0 THEN head ELSE block IN IF b >= Since[p] THEN b ELSE 0

\* Whether percentage > Math.floor(Math.random() * 100).
Hits(percentage) == {hit \in BOOLEAN : IF hit THEN percentage > 0 ELSE percentage < 100}

(* ---------------------------- the table of pools -------------------------- *)

NoPools == [p \in Pool |-> 0]

InitPools ==
  /\ head = 1
  /\ table = [p \in Pool |-> [b \in Block |-> 0]]
  /\ getting = [c \in PoolCall |->
       [stage |-> "done", block |-> 0, sampled |-> FALSE, due |-> "current",
        todo |-> {}, got |-> NoPools, verdict |-> "none", how |-> "error"]]

\* A bug: an item is found by its pool alone.
GetLatest(p, block) ==
  LET bs == {b \in Block : table[p][b] # 0}
  IN  IF bs = {} THEN 0 ELSE table[p][CHOOSE b \in bs : \A d \in bs : d <= b]

\* DynamoCachingV3Pool.get: a block of 0 reads as no block.
Get(p, block) == IF block = 0 THEN 0 ELSE table[p][block]

\* A bug: without a block the pool is stored under the block it was read at.
SetAnyBlock(p, block, value) == [table EXCEPT ![p][block] = value]

\* DynamoCachingV3Pool.set
Set(p, block, value) == IF block = 0 THEN table ELSE [table EXCEPT ![p][block] = value]

\* External: the chain grows.
Mine ==
  /\ head < MaxHead
  /\ head' = head + 1
  /\ UNCHANGED <<table, getting>>

(* -------------------------------- the calls ------------------------------- *)

\* A bug: the chain is only asked when the table had none of the pools.
MissedAll(c, call) ==
  LET missed == {p \in PoolsOf[c] : call.got[p] = 0} IN IF missed = PoolsOf[c] THEN missed ELSE {}

Missed(c, call) == {p \in PoolsOf[c] : call.got[p] = 0}

\* A call is over: what it answered is kept, if that came from the target.
Done(call, how) ==
  [call EXCEPT !.stage = "done", !.how = how, !.sampled = FALSE, !.todo = {},
     !.got = IF how = "answer" /\ call.due = "target" THEN @ ELSE NoPools]

\* A bug: a call that is not sampled stays where it was.
FinishSampled(call) ==
  IF call.sampled THEN [call EXCEPT !.stage = "comparing", !.how = "answer", !.todo = {}]
    ELSE [call EXCEPT !.how = "answer", !.todo = {}]

\* The target has answered: the call returns, and leaves a comparison behind if it is sampled.
Finish(call) ==
  IF call.sampled THEN [call EXCEPT !.stage = "comparing", !.how = "answer", !.todo = {}]
    ELSE Done(call, "answer")

GetPools(c, block, sampled, due) ==
  /\ getting[c].stage = "done"
  /\ block <= head /\ sampled \in Hits(PoolSampling)
  /\ (due = "target") \in Hits(PoolSwitching)
  /\ getting' = [getting EXCEPT ![c] =
       [stage |-> IF sampled \/ due = "current" THEN "current" ELSE "lookup",
        block |-> block, sampled |-> sampled, due |-> due,
        todo |-> PoolsOf[c], got |-> NoPools, verdict |-> "none", how |-> "pending"]]
  /\ UNCHANGED <<head, table>>

\* External: the current provider's pools; a sampled call goes on to ask the target.
CurrentAnswers(c) ==
  /\ getting[c].stage = "current"
  /\ getting' = [getting EXCEPT ![c] =
       IF getting[c].sampled THEN [@ EXCEPT !.stage = "lookup"] ELSE Done(@, "answer")]
  /\ UNCHANGED <<head, table>>

\* The error of either provider ends the call, sampled or not.
ProviderFails(c) ==
  /\ getting[c].stage \in {"current", "fetch"}
  /\ getting' = [getting EXCEPT ![c] = Done(@, "error")]
  /\ UNCHANGED <<head, table>>

\* One lookup; a read that fails and an item past its ttl of a minute are misses.  After the
\* last one the misses are fetched, if any.
Lookup(c, p, found) ==
  /\ getting[c].stage = "lookup" /\ p \in getting[c].todo
  /\ found \in {0, Get(p, getting[c].block)}
  /\ LET call == [getting[c] EXCEPT !.todo = @ \ {p}, !.got[p] = found]
     IN  getting' = [getting EXCEPT ![c] =
           IF call.todo # {} THEN call
             ELSE IF Missed(c, call) # {} THEN [call EXCEPT !.stage = "fetch", !.todo = Missed(c, call)]
             ELSE Finish(call)]
  /\ UNCHANGED <<head, table>>

\* The chain's answer has no entry for pools that do not exist at the block.
Fetch(c) ==
  /\ getting[c].stage = "fetch"
  /\ LET block == getting[c].block
         call == [getting[c] EXCEPT !.stage = "store",
                    !.got = [p \in Pool |-> IF p \in getting[c].todo THEN At(p, block) ELSE @[p]],
                    !.todo = {p \in @ : At(p, block) # 0}]
     IN  getting' = [getting EXCEPT ![c] = IF call.todo = {} THEN Finish(call) ELSE call]
  /\ UNCHANGED <<head, table>>

\* A put that fails may have been applied; nobody looks at what set returns.
Store(c, p, applied) ==
  /\ getting[c].stage = "store" /\ p \in getting[c].todo
  /\ table' = IF applied THEN Set(p, getting[c].block, getting[c].got[p]) ELSE table
  /\ LET call == [getting[c] EXCEPT !.todo = @ \ {p}]
     IN  getting' = [getting EXCEPT ![c] = IF call.todo = {} THEN Finish(call) ELSE call]
  /\ UNCHANGED head

(* ----------------------------- the comparisons ---------------------------- *)

\* sampleTraffic goes through the pools of the chain, and asks the target's answer for each.
Verdict(c) ==
  IF \A p \in PoolsOf[c] : At(p, getting[c].block) \in {0, getting[c].got[p]}
    THEN "match" ELSE "mismatch"

Compare(c) ==
  /\ getting[c].stage = "comparing"
  /\ getting' = [getting EXCEPT ![c] = [Done(@, "answer") EXCEPT !.verdict = Verdict(c)]]
  /\ UNCHANGED <<head, table>>

\* The chain fails: a rejection nobody handles.
CompareFails(c) ==
  /\ getting[c].stage = "comparing"
  /\ getting' = [getting EXCEPT ![c] = Done(@, "answer")]
  /\ UNCHANGED <<head, table>>

PoolsNext ==
  \/ Mine
  \/ \E c \in PoolCall :
       \/ \E block \in Block, sampled \in BOOLEAN, due \in Provider : GetPools(c, block, sampled, due)
       \/ CurrentAnswers(c) \/ ProviderFails(c) \/ Fetch(c) \/ Compare(c) \/ CompareFails(c)
       \/ \E p \in Pool, found \in Block : Lookup(c, p, found)
       \/ \E p \in Pool, applied \in BOOLEAN : Store(c, p, applied)

PoolsSpec == InitPools /\ [][PoolsNext]_poolsVars

(* ------------------------------- properties ------------------------------- *)

GettingCall ==
  [stage : {"current", "lookup", "fetch", "store", "comparing", "done"}, block : Block, sampled : BOOLEAN,
   due : Provider, todo : SUBSET Pool, got : [Pool -> Block],
   verdict : {"none", "match", "mismatch"}, how : {"pending", "answer", "error"}]

\* Type invariant: the table and the calls; a call that goes from pool to
\* pool has one left.
PoolsTypeOK ==
  /\ head \in Block /\ table \in [Pool -> [Block -> Block]]
  /\ getting \in [PoolCall -> GettingCall]
  /\ \A c \in PoolCall : getting[c].stage \in {"lookup", "store"} => getting[c].todo # {}

\* Whatever calls read and store at the same time, fail half way or repeat, the table has
\* for a pool and a block what the pool was at that block, and nothing without a block
\* (cache-dynamo-pool.ts:13-77).
TableHoldsTruth ==
  \A p \in Pool, b \in Block : table[p][b] \in {0, b} /\ (table[p][b] # 0 => b >= Since[p])

\* When the block is known, the comparison nobody awaits never finds the target's pools
\* different from the chain's (traffic-switch-v3-pool-provider.ts:78-146), however long
\* after the call it is made.
TargetMatchesTruth ==
  \A c \in PoolCall : getting[c].block # 0 => getting[c].verdict # "mismatch"

\* A call that the target answered at a known block has each pool as it was at that block,
\* with none left out that existed (dynamo-caching-pool-provider.ts:28-79).
AnswersComplete ==
  \A c \in PoolCall : LET call == getting[c] IN
    (call.how = "answer" /\ call.due = "target" /\ call.block # 0) =>
      \A p \in PoolsOf[c] : call.got[p] = IF call.block >= Since[p] THEN call.block ELSE 0
=============================================================================
