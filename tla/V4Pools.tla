------------------------------- MODULE V4Pools -------------------------------
(***************************************************************************)
(* v4HooksPoolsFiltering: which V4 pools of a chain get into the file.  Of *)
(* each group (two tokens and a fee) a queue keeps the pools with the most *)
(* value, without those whose hooks interfere with swaps; the pools with   *)
(* hooks of the allowlist come back at the end, whatever they are worth.   *)
(*                                                                         *)
(* An entry of the input is a pool of its own here; in the code a pool may *)
(* be listed twice, by the subgraph and by the cron lambda.                *)
(***************************************************************************)
EXTENDS Integers, FiniteSets

CONSTANTS
  V4Pool,       \* pools of the chain
  Group,        \* the grouping key of a pool
  Tvl,          \* its value, for some pools the one the code gives it
  Hooks,        \* "zero", "listed" or "unlisted"
  Interferes,   \* pools whose hooks have swap permissions, or whose fee is dynamic
  Additional,   \* pools that may stay in addition, each by its id
  Dust,         \* pools of Zora's hooks that are worth nothing
  TOP_GROUPED_V4_POOLS

ASSUME V4Assumption ==
  /\ IsFiniteSet(V4Pool)
  /\ Hooks \in [V4Pool -> {"zero", "listed", "unlisted"}] /\ Tvl \in [V4Pool -> Nat]
  /\ Interferes \subseteq V4Pool /\ Additional \subseteq V4Pool
  /\ Dust \subseteq {p \in V4Pool : Hooks[p] = "listed"}
  /\ TOP_GROUPED_V4_POOLS \in Nat \ {0}

VARIABLES
  listed,    \* the input
  left,      \* what the loop has not reached
  queue      \* the pools in the queues of all groups

v4Vars == <<listed, left, queue>>

IsHooksPoolRoutable(p) == Hooks[p] = "zero" \/ p \notin Interferes

\* HOOKS_ADDRESSES_ALLOWLIST has the zero address for each chain.
Allowlisted(p) == Hooks[p] # "unlisted"

QueueOf(pools, p) == {q \in pools : Group[q] = Group[p]}

InitV4 ==
  /\ listed \in SUBSET V4Pool
  /\ left = listed
  /\ queue = {}

\* A bug: a max heap loses the pool with the most value.
WorthMost(pools) == {p \in pools : \A q \in pools : Tvl[p] >= Tvl[q]}

\* The comparator leaves open which of several pools of the least value comes first.
Front(pools) == {p \in pools : \A q \in pools : Tvl[p] <= Tvl[q]}

\* How many pools the queue may have after p.
Room(p) == TOP_GROUPED_V4_POOLS + (IF p \in Additional THEN 1 ELSE 0)

Push(p) ==
  LET pushed == IF p \in Dust THEN queue ELSE queue \union {p}
      pools == QueueOf(pushed, p)
  IN  IF Cardinality(pools) > Room(p)
        THEN \E out \in Front(pools) : queue' = pushed \ {out}
        ELSE queue' = pushed

Visit(p) ==
  /\ p \in left
  /\ left' = left \ {p}
  /\ IF IsHooksPoolRoutable(p) THEN Push(p) ELSE UNCHANGED queue
  /\ UNCHANGED listed

\* The next run of the cron lambda has another input.
NextRun ==
  /\ left = {}
  /\ listed' \in SUBSET V4Pool
  /\ left' = listed' /\ queue' = {}

V4Next == NextRun \/ \E p \in V4Pool : Visit(p)

V4Spec == InitV4 /\ [][V4Next]_v4Vars

\* A bug: every pool comes back.
RestoredAll == listed \ queue

Restored == {p \in listed \ queue : Allowlisted(p)}

\* What the function returns once the loop is through.
Filtered == queue \union Restored

(* ------------------------------- properties ------------------------------- *)

\* A pool that is left out has hooks that are not on the allowlist, and these interfere with
\* swaps, or so many pools of its group are worth at least as much and stay
\* (v4HooksPoolsFiltering.ts:98-215): no order of the input costs a better pool its place.
OnlyOutranked ==
  left = {} => \A p \in listed \ Filtered :
    /\ Hooks[p] = "unlisted"
    /\ \/ p \in Interferes
       \/ Cardinality({q \in QueueOf(queue, p) : Tvl[q] >= Tvl[p]}) >= TOP_GROUPED_V4_POOLS

\* The last safeguard (hooksAddressesAllowlist.ts:86-87), as the code has it: hooks that
\* interfere with swaps are on the allowlist, or their pool does not get into the file.
Safeguard ==
  left = {} => \A p \in Filtered : Hooks[p] = "unlisted" => p \notin Interferes
=============================================================================
