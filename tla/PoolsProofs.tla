----------------------------- MODULE PoolsProofs -----------------------------
(***************************************************************************)
(* Proofs about the caches of pools: the table of V3 pools and the calls   *)
(* that share it, for any number of calls and pools, any length of the     *)
(* chain and any shares; the files of pools, for any chains and protocols, *)
(* any number of runs and downloads and any times to live; and the filter  *)
(* of V4 pools, for any pools, groups, values and hooks and any number of  *)
(* places per group.                                                       *)
(***************************************************************************)
EXTENDS V3Pools, PoolFiles, V4Pools, FiniteSetTheorems, TLAPS

-----------------------------------------------------------------------------
(* The table of V3 pools.  What a call has is nothing or the truth until   *)
(* it has asked the chain, and the truth from then on, provided that its   *)
(* block is known; the table's part is what makes a lookup safe.           *)

\* The pool at a block that is known.
Truth(p, block) == IF block >= Since[p] THEN block ELSE 0

\* What each stage of a call c may rely on.
CallInv(c, call) ==
  /\ call.block <= head
  /\ call.stage \in {"lookup", "fetch", "store"} => call.todo \subseteq PoolsOf[c]
  /\ call.stage \in {"current", "lookup"} => call.todo # {}
  /\ call.stage = "current" =>
       /\ call.todo = PoolsOf[c] /\ call.got = NoPools
       /\ call.sampled \/ call.due = "current"
  /\ call.how = "answer" => call.stage \in {"comparing", "done"}
  /\ call.block # 0 =>
       /\ call.verdict # "mismatch"
       /\ call.stage = "lookup" =>
            \A p \in PoolsOf[c] : call.got[p] \in {0, Truth(p, call.block)}
       /\ call.stage = "fetch" => \A p \in PoolsOf[c] :
            /\ call.got[p] \in {0, Truth(p, call.block)}
            /\ p \notin call.todo => call.got[p] # 0
       /\ \/ call.stage \in {"store", "comparing"}
          \/ call.how = "answer" /\ call.due = "target"
          => \A p \in PoolsOf[c] : call.got[p] = Truth(p, call.block)

CallsInv == \A c \in PoolCall : CallInv(c, getting[c])

PoolsInv == PoolsTypeOK /\ TableHoldsTruth /\ CallsInv

-----------------------------------------------------------------------------
(* The operators.                                                          *)

\* What the assumptions say of the constants, as the proofs use it.
LEMMA PoolsConstants ==
  /\ \A c \in PoolCall : PoolsOf[c] \subseteq Pool /\ PoolsOf[c] # {}
  /\ \A p \in Pool : Since[p] \in Nat /\ Since[p] > 0
  /\ MaxHead \in Nat /\ MaxHead > 0
<1>1. \A p \in Pool : Since[p] \in Nat \ {0}
  BY PoolsAssumption
<1>2. \A c \in PoolCall : PoolsOf[c] \in (SUBSET Pool) \ {{}}
  BY PoolsAssumption
<1>. QED  BY <1>1, <1>2, PoolsAssumption

\* The chain answers with the truth for a block that is known, and with a block of the
\* chain in any case.
LEMMA AtKnownBlock ==
  ASSUME NEW p \in Pool, NEW b \in Block, head \in Block
  PROVE  At(p, b) \in Block /\ (b # 0 => At(p, b) = Truth(p, b))
BY PoolsConstants DEF At, Truth, Block

\* A lookup at a known block finds nothing or the truth.
LEMMA GetFindsTruth ==
  ASSUME PoolsTypeOK, TableHoldsTruth, NEW p \in Pool, NEW b \in Block
  PROVE  Get(p, b) \in Block /\ (b # 0 => Get(p, b) \in {0, Truth(p, b)})
<1>1. table[p][b] \in Block /\ table[p][b] \in {0, b} /\ (table[p][b] # 0 => b >= Since[p])
  BY DEF PoolsTypeOK, TableHoldsTruth
<1>. QED  BY <1>1, PoolsConstants DEF Get, Truth, Block

\* Storing the truth keeps the table true.
LEMMA SetKeepsTruth ==
  ASSUME PoolsTypeOK, TableHoldsTruth, NEW p \in Pool, NEW b \in Block, NEW v \in Block,
         b # 0 => v = Truth(p, b), table' = Set(p, b, v)
  PROVE  table' \in [Pool -> [Block -> Block]] /\ TableHoldsTruth'
<1>1. CASE b = 0
  BY <1>1 DEF Set, PoolsTypeOK, TableHoldsTruth
<1>2. CASE b # 0
  <2>1. table' = [table EXCEPT ![p][b] = v]
    BY <1>2 DEF Set
  <2>2. table' \in [Pool -> [Block -> Block]]
    BY <2>1 DEF PoolsTypeOK
  <2>3. ASSUME NEW q \in Pool, NEW d \in Block
        PROVE  table'[q][d] \in {0, d} /\ (table'[q][d] # 0 => d >= Since[q])
    <3>1. CASE q = p /\ d = b
      <4>1. table'[q][d] = Truth(p, b)
        BY <2>1, <1>2, <3>1 DEF PoolsTypeOK
      <4>. QED  BY <4>1, <3>1, PoolsConstants DEF Truth, Block
    <3>2. CASE ~(q = p /\ d = b)
      <4>1. table'[q][d] = table[q][d]
        BY <2>1, <3>2 DEF PoolsTypeOK
      <4>. QED  BY <4>1 DEF TableHoldsTruth
    <3>. QED  BY <3>1, <3>2
  <2>. QED  BY <2>2, <2>3 DEF TableHoldsTruth
<1>. QED  BY <1>1, <1>2

\* The end of a call that has the truth.
LEMMA FinishTruthful ==
  ASSUME NEW c \in PoolCall, NEW call \in GettingCall, call.block <= head,
         call.verdict # "mismatch" \/ call.block = 0,
         call.block # 0 => \A p \in PoolsOf[c] : call.got[p] = Truth(p, call.block)
  PROVE  /\ Finish(call) \in GettingCall
         /\ Finish(call).stage \in {"comparing", "done"}
         /\ CallInv(c, Finish(call))
<1>1. CASE call.sampled
  <2>1. Finish(call) = [call EXCEPT !.stage = "comparing", !.how = "answer", !.todo = {}]
    BY <1>1 DEF Finish
  <2>. QED  BY <2>1 DEF GettingCall, CallInv
<1>2. CASE ~call.sampled
  <2>1. Finish(call) = Done(call, "answer")
    BY <1>2 DEF Finish
  <2>2. NoPools \in [Pool -> Block]
    BY PoolsConstants DEF NoPools, Block
  <2>. DEFINE kept == IF call.due = "target" THEN call.got ELSE NoPools
  <2>3. kept \in [Pool -> Block]
    BY <2>2 DEF GettingCall
  <2>4. Done(call, "answer") = [call EXCEPT !.stage = "done", !.how = "answer", !.sampled = FALSE,
                                  !.todo = {}, !.got = kept]
    BY DEF Done
  <2>. HIDE DEF kept
  <2>5. /\ Done(call, "answer") \in GettingCall /\ Done(call, "answer").stage = "done"
        /\ Done(call, "answer").got = kept /\ Done(call, "answer").due = call.due
        /\ Done(call, "answer").block = call.block /\ Done(call, "answer").verdict = call.verdict
    BY <2>3, <2>4 DEF GettingCall
  <2>6. call.due = "target" => kept = call.got
    BY DEF kept
  <2>. QED  BY <2>1, <2>5, <2>6 DEF CallInv
<1>. QED  BY <1>1, <1>2

-----------------------------------------------------------------------------
(* The steps.                                                              *)

\* A step that changes one call only, and the table at most by the truth, keeps the
\* invariant when what it makes of the call fits.
LEMMA OneCall ==
  ASSUME PoolsInv, NEW c \in PoolCall, NEW call \in GettingCall,
         getting' = [getting EXCEPT ![c] = call], head' = head,
         table' \in [Pool -> [Block -> Block]], TableHoldsTruth',
         call.stage \in {"lookup", "store"} => call.todo # {}, CallInv(c, call)
  PROVE  PoolsInv'
<1>1. getting' \in [PoolCall -> GettingCall] /\ getting'[c] = call
      /\ \A d \in PoolCall : d # c => getting'[d] = getting[d]
  BY DEF PoolsInv, PoolsTypeOK
<1>2. \A d \in PoolCall : CallInv(d, getting'[d])
  BY <1>1 DEF PoolsInv, CallsInv
<1>3. CallsInv'
  BY <1>2 DEF CallsInv, CallInv, Truth
<1>4. PoolsTypeOK'
  BY <1>1 DEF PoolsInv, PoolsTypeOK
<1>. QED  BY <1>3, <1>4 DEF PoolsInv

LEMMA MineStep ==
  ASSUME PoolsInv, Mine
  PROVE  PoolsInv'
<1>1. head \in Nat /\ head' = head + 1 /\ head' \in Block
  BY PoolsConstants DEF PoolsInv, PoolsTypeOK, Mine, Block
<1>2. \A c \in PoolCall : getting[c] \in GettingCall
  BY DEF PoolsInv, PoolsTypeOK
<1>3. PoolsTypeOK' /\ TableHoldsTruth'
  BY <1>1 DEF PoolsInv, PoolsTypeOK, TableHoldsTruth, Mine
<1>4. \A c \in PoolCall : getting[c].block <= head'
  BY <1>1, <1>2, PoolsConstants DEF PoolsInv, CallsInv, CallInv, GettingCall, Block
<1>5. CallsInv'
  BY <1>4 DEF PoolsInv, CallsInv, CallInv, Mine, Truth
<1>. QED  BY <1>3, <1>5 DEF PoolsInv

LEMMA GetPoolsStep ==
  ASSUME PoolsInv, NEW c \in PoolCall, NEW block \in Block, NEW sampled \in BOOLEAN,
         NEW due \in Provider, GetPools(c, block, sampled, due)
  PROVE  PoolsInv'
<1>. DEFINE call == [stage |-> IF sampled \/ due = "current" THEN "current" ELSE "lookup",
        block |-> block, sampled |-> sampled, due |-> due,
        todo |-> PoolsOf[c], got |-> NoPools, verdict |-> "none", how |-> "pending"]
<1>1. NoPools \in [Pool -> Block] /\ \A p \in Pool : NoPools[p] = 0
  BY PoolsConstants DEF NoPools, Block
<1>2. call \in GettingCall
  BY <1>1, PoolsConstants DEF GettingCall
<1>3. CallInv(c, call)
  BY <1>1, PoolsConstants DEF CallInv, GetPools
<1>4. /\ getting' = [getting EXCEPT ![c] = call] /\ head' = head /\ table' = table
      /\ call.todo # {}
  BY PoolsConstants DEF GetPools
<1>. HIDE DEF call
<1>. QED  BY <1>2, <1>3, <1>4, OneCall DEF PoolsInv, PoolsTypeOK, TableHoldsTruth

\* What a call leaves when it ends without an answer of the target.
LEMMA DoneCall ==
  ASSUME PoolsInv, NEW c \in PoolCall, NEW how \in {"answer", "error"},
         how = "error" \/ getting[c].due = "current"
  PROVE  Done(getting[c], how) \in GettingCall /\ CallInv(c, Done(getting[c], how))
         /\ Done(getting[c], how).stage = "done"
<1>1. getting[c] \in GettingCall /\ CallInv(c, getting[c])
  BY DEF PoolsInv, PoolsTypeOK, CallsInv
<1>2. NoPools \in [Pool -> Block]
  BY PoolsConstants DEF NoPools, Block
<1>. QED  BY <1>1, <1>2 DEF Done, GettingCall, CallInv, Provider

LEMMA ProviderFailsStep ==
  ASSUME PoolsInv, NEW c \in PoolCall, ProviderFails(c)
  PROVE  PoolsInv'
<1>1. getting' = [getting EXCEPT ![c] = Done(getting[c], "error")] /\ head' = head /\ table' = table
  BY DEF ProviderFails
<1>. QED  BY <1>1, DoneCall, OneCall DEF PoolsInv, PoolsTypeOK, TableHoldsTruth

LEMMA CurrentAnswersStep ==
  ASSUME PoolsInv, NEW c \in PoolCall, CurrentAnswers(c)
  PROVE  PoolsInv'
<1>1. head' = head /\ table' = table /\ getting[c].stage = "current"
  BY DEF CurrentAnswers
<1>2. getting[c] \in GettingCall /\ CallInv(c, getting[c])
  BY DEF PoolsInv, PoolsTypeOK, CallsInv
<1>3. CASE getting[c].sampled
  <2>. DEFINE call == [getting[c] EXCEPT !.stage = "lookup"]
  <2>1. getting' = [getting EXCEPT ![c] = call]
    BY <1>3 DEF CurrentAnswers
  <2>2. call \in GettingCall /\ call.todo # {}
    BY <1>1, <1>2 DEF GettingCall, CallInv
  <2>3. CallInv(c, call)
    BY <1>1, <1>2, PoolsConstants DEF CallInv, GettingCall, NoPools
  <2>. HIDE DEF call
  <2>. QED  BY <1>1, <2>1, <2>2, <2>3, OneCall DEF PoolsInv, PoolsTypeOK, TableHoldsTruth
<1>4. CASE ~getting[c].sampled
  <2>1. getting' = [getting EXCEPT ![c] = Done(getting[c], "answer")]
    BY <1>4 DEF CurrentAnswers
  <2>2. CASE getting[c].due = "current"
    BY <1>1, <2>1, <2>2, DoneCall, OneCall DEF PoolsInv, PoolsTypeOK, TableHoldsTruth
  <2>. QED  BY <2>2, <1>1, <1>2, <1>4 DEF CallInv, GettingCall, Provider
<1>. QED  BY <1>3, <1>4

LEMMA LookupStep ==
  ASSUME PoolsInv, NEW c \in PoolCall, NEW p \in Pool, NEW found \in Block, Lookup(c, p, found)
  PROVE  PoolsInv'
<1>. DEFINE old == getting[c]
            got == [old.got EXCEPT ![p] = found]
            call == [old EXCEPT !.todo = @ \ {p}, !.got = got]
<1>1. /\ old \in GettingCall /\ CallInv(c, old) /\ old.stage = "lookup" /\ p \in old.todo
      /\ head' = head /\ table' = table
  BY DEF Lookup, PoolsInv, PoolsTypeOK, CallsInv
<1>2. old.block # 0 => found \in {0, Truth(p, old.block)}
  BY <1>1, GetFindsTruth DEF Lookup, PoolsInv, GettingCall
<1>3. call \in GettingCall /\ got \in [Pool -> Block]
  BY <1>1 DEF GettingCall
<1>4. \A q \in Pool : got[q] = IF q = p THEN found ELSE old.got[q]
  BY <1>1 DEF GettingCall
<1>5. /\ call.got = got /\ call.todo = old.todo \ {p} /\ call.stage = "lookup"
      /\ call.block = old.block /\ call.verdict = old.verdict /\ call.how = old.how
      /\ call.due = old.due /\ call.sampled = old.sampled
  BY <1>1 DEF GettingCall
<1>6. old.block # 0 => \A q \in PoolsOf[c] : got[q] \in {0, Truth(q, old.block)}
  BY <1>1, <1>2, <1>4, PoolsConstants DEF CallInv
<1>7. getting' = [getting EXCEPT ![c] =
        IF call.todo # {} THEN call
          ELSE IF Missed(c, call) # {} THEN [call EXCEPT !.stage = "fetch", !.todo = Missed(c, call)]
          ELSE Finish(call)]
  BY DEF Lookup
<1>. HIDE DEF call, got, old
<1>8. CASE call.todo # {}
  <2>1. CallInv(c, call)
    BY <1>1, <1>5, <1>6, <1>8 DEF CallInv
  <2>2. getting' = [getting EXCEPT ![c] = call]
    BY <1>7, <1>8
  <2>. QED  BY <1>1, <1>3, <1>8, <2>1, <2>2, OneCall DEF PoolsInv, PoolsTypeOK, TableHoldsTruth
<1>9. CASE call.todo = {} /\ Missed(c, call) # {}
  <2>. DEFINE next == [call EXCEPT !.stage = "fetch", !.todo = Missed(c, call)]
  <2>1. getting' = [getting EXCEPT ![c] = next]
    BY <1>7, <1>9
  <2>2. Missed(c, call) \subseteq PoolsOf[c]
        /\ \A q \in PoolsOf[c] : q \notin Missed(c, call) => got[q] # 0
    BY <1>5 DEF Missed
  <2>3. next \in GettingCall
    BY <1>3, <2>2, PoolsConstants DEF GettingCall
  <2>4. /\ next.stage = "fetch" /\ next.todo = Missed(c, call) /\ next.got = got
        /\ next.block = old.block /\ next.verdict = old.verdict /\ next.how = old.how
    BY <1>3, <1>5 DEF GettingCall
  <2>. HIDE DEF next
  <2>5. CallInv(c, next)
    BY <1>1, <1>6, <2>2, <2>4 DEF CallInv
  <2>. QED  BY <1>1, <2>1, <2>3, <2>4, <2>5, OneCall DEF PoolsInv, PoolsTypeOK, TableHoldsTruth
<1>10. CASE call.todo = {} /\ Missed(c, call) = {}
  <2>1. getting' = [getting EXCEPT ![c] = Finish(call)]
    BY <1>7, <1>10
  <2>2. \A q \in PoolsOf[c] : got[q] # 0
    BY <1>5, <1>10 DEF Missed
  <2>3. /\ call.block <= head /\ (call.verdict # "mismatch" \/ call.block = 0)
        /\ call.block # 0 => \A q \in PoolsOf[c] : call.got[q] = Truth(q, call.block)
    BY <1>1, <1>5, <1>6, <2>2 DEF CallInv
  <2>4. /\ Finish(call) \in GettingCall /\ CallInv(c, Finish(call))
        /\ Finish(call).stage \in {"comparing", "done"}
    BY <1>3, <2>3, FinishTruthful
  <2>. QED  BY <1>1, <2>1, <2>4, OneCall DEF PoolsInv, PoolsTypeOK, TableHoldsTruth
<1>. QED  BY <1>8, <1>9, <1>10

LEMMA FetchStep ==
  ASSUME PoolsInv, NEW c \in PoolCall, Fetch(c)
  PROVE  PoolsInv'
<1>. DEFINE old == getting[c]
            got == [p \in Pool |-> IF p \in old.todo THEN At(p, old.block) ELSE old.got[p]]
            todo == {p \in old.todo : At(p, old.block) # 0}
            call == [old EXCEPT !.stage = "store", !.got = got, !.todo = todo]
<1>1. /\ old \in GettingCall /\ CallInv(c, old) /\ old.stage = "fetch"
      /\ head' = head /\ table' = table
  BY DEF Fetch, PoolsInv, PoolsTypeOK, CallsInv
<1>2. getting' = [getting EXCEPT ![c] = IF call.todo = {} THEN Finish(call) ELSE call]
  BY DEF Fetch
<1>3. \A p \in Pool :
        /\ At(p, old.block) \in Block
        /\ old.block # 0 => At(p, old.block) = Truth(p, old.block)
  BY <1>1, AtKnownBlock DEF GettingCall, PoolsInv, PoolsTypeOK
<1>4. /\ got \in [Pool -> Block] /\ todo \subseteq old.todo
      /\ \A p \in Pool : got[p] = IF p \in old.todo THEN At(p, old.block) ELSE old.got[p]
  <2>1. \A p \in Pool : old.got[p] \in Block
    BY <1>1 DEF GettingCall
  <2>. QED  BY <1>3, <2>1
<1>5. old.block # 0 => \A p \in PoolsOf[c] : got[p] = Truth(p, old.block)
  BY <1>1, <1>3, <1>4, PoolsConstants DEF CallInv
<1>. HIDE DEF got, todo
<1>6. call \in GettingCall
  BY <1>1, <1>4 DEF GettingCall
<1>7. /\ call.got = got /\ call.todo = todo /\ call.stage = "store"
      /\ call.block = old.block /\ call.verdict = old.verdict /\ call.how = old.how
  BY <1>1 DEF GettingCall
<1>. HIDE DEF call, old
<1>8. CASE call.todo = {}
  <2>1. /\ call.block <= head /\ (call.verdict # "mismatch" \/ call.block = 0)
        /\ call.block # 0 => \A p \in PoolsOf[c] : call.got[p] = Truth(p, call.block)
    BY <1>1, <1>5, <1>7 DEF CallInv
  <2>2. /\ Finish(call) \in GettingCall /\ CallInv(c, Finish(call))
        /\ Finish(call).stage \in {"comparing", "done"}
    BY <1>6, <2>1, FinishTruthful
  <2>. QED  BY <1>1, <1>2, <1>8, <2>2, OneCall DEF PoolsInv, PoolsTypeOK, TableHoldsTruth
<1>9. CASE call.todo # {}
  <2>1. CallInv(c, call)
    BY <1>1, <1>4, <1>5, <1>7 DEF CallInv
  <2>. QED  BY <1>1, <1>2, <1>6, <1>9, <2>1, OneCall DEF PoolsInv, PoolsTypeOK, TableHoldsTruth
<1>. QED  BY <1>8, <1>9

LEMMA StoreStep ==
  ASSUME PoolsInv, NEW c \in PoolCall, NEW p \in Pool, NEW applied \in BOOLEAN, Store(c, p, applied)
  PROVE  PoolsInv'
<1>. DEFINE old == getting[c]
            call == [old EXCEPT !.todo = @ \ {p}]
<1>1. /\ old \in GettingCall /\ CallInv(c, old) /\ old.stage = "store" /\ head' = head
      /\ p \in old.todo /\ p \in PoolsOf[c]
  BY DEF Store, PoolsInv, PoolsTypeOK, CallsInv, CallInv
<1>2. getting' = [getting EXCEPT ![c] = IF call.todo = {} THEN Finish(call) ELSE call]
  BY DEF Store
<1>3. /\ table' \in [Pool -> [Block -> Block]] /\ TableHoldsTruth'
  <2>1. CASE applied
    <3>1. table' = Set(p, old.block, old.got[p])
      BY <2>1 DEF Store
    <3>2. old.block \in Block /\ old.got[p] \in Block
          /\ (old.block # 0 => old.got[p] = Truth(p, old.block))
      BY <1>1 DEF GettingCall, CallInv
    <3>. HIDE DEF old
    <3>. QED  BY <3>1, <3>2, SetKeepsTruth DEF PoolsInv
  <2>2. CASE ~applied
    BY <2>2 DEF Store, PoolsInv, PoolsTypeOK, TableHoldsTruth
  <2>. QED  BY <2>1, <2>2
<1>4. call \in GettingCall
  BY <1>1 DEF GettingCall
<1>5. /\ call.got = old.got /\ call.todo = old.todo \ {p} /\ call.stage = "store"
      /\ call.block = old.block /\ call.verdict = old.verdict /\ call.how = old.how
  BY <1>1 DEF GettingCall
<1>. HIDE DEF call, old
<1>6. CASE call.todo = {}
  <2>1. /\ call.block <= head /\ (call.verdict # "mismatch" \/ call.block = 0)
        /\ call.block # 0 => \A q \in PoolsOf[c] : call.got[q] = Truth(q, call.block)
    BY <1>1, <1>5 DEF CallInv
  <2>2. /\ Finish(call) \in GettingCall /\ CallInv(c, Finish(call))
        /\ Finish(call).stage \in {"comparing", "done"}
    BY <1>4, <2>1, FinishTruthful
  <2>. QED  BY <1>1, <1>2, <1>3, <1>6, <2>2, OneCall
<1>7. CASE call.todo # {}
  <2>1. CallInv(c, call)
    BY <1>1, <1>5 DEF CallInv
  <2>. QED  BY <1>1, <1>2, <1>3, <1>4, <1>7, <2>1, OneCall
<1>. QED  BY <1>6, <1>7

\* The end of a comparison, with its verdict or without.
LEMMA ComparisonEnds ==
  ASSUME PoolsInv, NEW c \in PoolCall, getting[c].stage = "comparing",
         NEW verdict \in {"none", "match", "mismatch"},
         getting[c].block # 0 => verdict # "mismatch",
         getting' = [getting EXCEPT ![c] = [Done(getting[c], "answer") EXCEPT !.verdict = verdict]],
         UNCHANGED <<head, table>>
  PROVE  PoolsInv'
<1>. DEFINE old == getting[c]
            kept == IF old.due = "target" THEN old.got ELSE NoPools
            call == [Done(old, "answer") EXCEPT !.verdict = verdict]
<1>1. old \in GettingCall /\ CallInv(c, old)
  BY DEF PoolsInv, PoolsTypeOK, CallsInv
<1>2. NoPools \in [Pool -> Block]
  BY PoolsConstants DEF NoPools, Block
<1>3. kept \in [Pool -> Block] /\ (old.due = "target" => kept = old.got)
  BY <1>1, <1>2 DEF GettingCall
<1>4. call = [old EXCEPT !.stage = "done", !.how = "answer", !.sampled = FALSE,
                !.todo = {}, !.got = kept, !.verdict = verdict]
  BY <1>1 DEF Done, GettingCall
<1>. HIDE DEF kept
<1>5. /\ call \in GettingCall /\ call.stage = "done" /\ call.got = kept /\ call.how = "answer"
      /\ call.block = old.block /\ call.verdict = verdict /\ call.due = old.due
  BY <1>1, <1>3, <1>4 DEF GettingCall
<1>. HIDE DEF old
<1>6. getting' = [getting EXCEPT ![c] = call]
  BY DEF old
<1>7. old.stage = "comparing" /\ (old.block # 0 => verdict # "mismatch")
  BY DEF old
<1>. HIDE DEF call
<1>8. CallInv(c, call)
  BY <1>1, <1>3, <1>5, <1>7 DEF CallInv
<1>. QED  BY <1>5, <1>6, <1>8, OneCall DEF PoolsInv, PoolsTypeOK, TableHoldsTruth

LEMMA CompareStep ==
  ASSUME PoolsInv, NEW c \in PoolCall, Compare(c)
  PROVE  PoolsInv'
<1>1. getting[c] \in GettingCall /\ CallInv(c, getting[c]) /\ getting[c].stage = "comparing"
  BY DEF Compare, PoolsInv, PoolsTypeOK, CallsInv
<1>2. getting[c].block # 0 => Verdict(c) # "mismatch"
  BY <1>1, AtKnownBlock, PoolsConstants DEF Verdict, CallInv, GettingCall, PoolsInv, PoolsTypeOK
<1>. QED  BY <1>1, <1>2, ComparisonEnds DEF Compare, Verdict

LEMMA CompareFailsStep ==
  ASSUME PoolsInv, NEW c \in PoolCall, CompareFails(c)
  PROVE  PoolsInv'
<1>1. getting[c] \in GettingCall /\ CallInv(c, getting[c]) /\ getting[c].stage = "comparing"
  BY DEF CompareFails, PoolsInv, PoolsTypeOK, CallsInv
<1>2. Done(getting[c], "answer") =
        [Done(getting[c], "answer") EXCEPT !.verdict = getting[c].verdict]
  BY <1>1 DEF Done, GettingCall
<1>3. /\ getting[c].verdict \in {"none", "match", "mismatch"}
      /\ getting[c].block # 0 => getting[c].verdict # "mismatch"
  BY <1>1 DEF GettingCall, CallInv
<1>. QED  BY <1>1, <1>2, <1>3, ComparisonEnds DEF CompareFails

-----------------------------------------------------------------------------
(* The theorems.                                                           *)

LEMMA PoolsInit == InitPools => PoolsInv
<1>. SUFFICES ASSUME InitPools PROVE PoolsInv
  OBVIOUS
<1>1. head = 1 /\ head \in Block /\ 0 \in Block
  BY PoolsConstants DEF InitPools, Block
<1>2. NoPools \in [Pool -> Block]
  BY <1>1 DEF NoPools
<1>3. PoolsTypeOK
  BY <1>1, <1>2 DEF InitPools, PoolsTypeOK, GettingCall, Provider
<1>4. TableHoldsTruth
  BY DEF InitPools, TableHoldsTruth
<1>5. CallsInv
  <2>. SUFFICES ASSUME NEW c \in PoolCall PROVE CallInv(c, getting[c])
    BY DEF CallsInv
  <2>1. getting[c].stage = "done" /\ getting[c].how = "error" /\ getting[c].block = 0
    BY DEF InitPools
  <2>. QED  BY <1>1, <2>1 DEF CallInv
<1>. QED  BY <1>3, <1>4, <1>5 DEF PoolsInv

LEMMA PoolsStep == PoolsInv /\ [PoolsNext]_poolsVars => PoolsInv'
<1>. SUFFICES ASSUME PoolsInv, [PoolsNext]_poolsVars PROVE PoolsInv'
  OBVIOUS
<1>1. CASE UNCHANGED poolsVars
  BY <1>1 DEF poolsVars, PoolsInv, PoolsTypeOK, TableHoldsTruth, CallsInv, CallInv, Truth
<1>2. CASE PoolsNext
  <2>1. CASE Mine
    BY <2>1, MineStep
  <2>2. ASSUME NEW c \in PoolCall, NEW block \in Block, NEW sampled \in BOOLEAN,
               NEW due \in Provider, GetPools(c, block, sampled, due)
        PROVE  PoolsInv'
    BY <2>2, GetPoolsStep
  <2>3. ASSUME NEW c \in PoolCall,
               CurrentAnswers(c) \/ ProviderFails(c) \/ Fetch(c) \/ Compare(c) \/ CompareFails(c)
        PROVE  PoolsInv'
    BY <2>3, CurrentAnswersStep, ProviderFailsStep, FetchStep, CompareStep, CompareFailsStep
  <2>4. ASSUME NEW c \in PoolCall, NEW p \in Pool, NEW found \in Block, Lookup(c, p, found)
        PROVE  PoolsInv'
    BY <2>4, LookupStep
  <2>5. ASSUME NEW c \in PoolCall, NEW p \in Pool, NEW applied \in BOOLEAN, Store(c, p, applied)
        PROVE  PoolsInv'
    BY <2>5, StoreStep
  <2>. QED  BY <1>2, <2>1, <2>2, <2>3, <2>4, <2>5 DEF PoolsNext
<1>. QED  BY <1>1, <1>2

\* The inductive invariant holds in every behaviour of the table and its calls.
THEOREM PoolsInvariant == PoolsSpec => []PoolsInv
<1>. QED  BY PoolsInit, PoolsStep, PTL DEF PoolsSpec

\* Type correctness: the table and the calls keep their types, and a call that goes from
\* pool to pool has one left (dynamo-caching-pool-provider.ts:38-69).
THEOREM PoolsTypeCorrect == PoolsSpec => []PoolsTypeOK
<1>1. PoolsInv => PoolsTypeOK
  BY DEF PoolsInv
<1>. QED  BY <1>1, PoolsInvariant, PTL

\* What the table has for a pool and a block is the pool at that block, and it has nothing
\* without a block (cache-dynamo-pool.ts:13-77).
THEOREM TableTrue == PoolsSpec => []TableHoldsTruth
<1>1. PoolsInv => TableHoldsTruth
  BY DEF PoolsInv
<1>. QED  BY <1>1, PoolsInvariant, PTL

\* A comparison at a known block never finds the target's pools different from the chain's
\* (traffic-switch-v3-pool-provider.ts:78-146).
THEOREM ComparisonsMatch == PoolsSpec => []TargetMatchesTruth
<1>1. PoolsInv => TargetMatchesTruth
  BY DEF PoolsInv, CallsInv, CallInv, TargetMatchesTruth
<1>. QED  BY <1>1, PoolsInvariant, PTL

\* An answer of the target at a known block has every pool as it was at that block, and
\* leaves none out that existed (dynamo-caching-pool-provider.ts:28-79).
THEOREM AnswersTrue == PoolsSpec => []AnswersComplete
<1>1. PoolsInv => AnswersComplete
  BY DEF PoolsInv, CallsInv, CallInv, AnswersComplete, Truth
<1>. QED  BY <1>1, PoolsInvariant, PTL

-----------------------------------------------------------------------------
(* The files of pools.  Ages bound how long ago the file was what a        *)
(* download or the entry of the cache has; a file that nothing is added to *)
(* is only ever replaced by pools of the subgraph, and what a run has is   *)
(* older than the file only if it was overtaken.                           *)

DownloadInv(x) ==
  /\ x.stage = "none" => x = Idle
  /\ x.stage = "asked" => x.got = Nothing /\ x.since = 0
  /\ x.since <= x.age

CronInv(run) ==
  /\ run.stage = "extra" => Extra(key) # {}
  /\ run.stage = "storing" => run.got # Nothing /\ (Unaided => run.got.kind = "pools")
  /\ run.got.version <= version
  /\ run.got.kind = "pools" /\ ~run.overtaken => run.got.version >= file.version

StalenessInv ==
  /\ built = "no" => \A d \in Download : downloading[d] = Idle
  /\ \A d \in Download : DownloadInv(downloading[d])
  /\ pooled.since <= pooled.age + MaxFlight
  /\ BoundedStaleness

FilesInv ==
  /\ FilesTypeOK /\ StalenessInv
  /\ file.version <= version
  /\ \A r \in CronRun : CronInv(cron[r])

-----------------------------------------------------------------------------
(* The constants and the records.                                          *)

Downloading == [stage : {"none", "asked", "read"}, got : Pools, age : 0..MaxFlight, since : Nat]

LEMMA Numbers ==
  /\ Ttl \in Nat /\ MaxFlight \in Nat /\ MaxVersion \in Nat /\ MaxVersion > 0
  /\ 0 \in 0..Ttl /\ 0 \in 0..MaxFlight /\ 0 \in 0..MaxVersion
BY FilesAssumption

\* The records the steps start from.
LEMMA Constants ==
  /\ Nothing \in Pools
  /\ Off \in CronStages
  /\ Idle \in Downloading /\ DownloadInv(Idle)
  /\ NoEntry \in [got : Pools, age : 0..Ttl, since : Nat]
<1>1. Nothing \in Pools
  BY Numbers DEF Nothing, Pools
<1>. QED  BY Numbers, <1>1 DEF Off, CronStages, Idle, Downloading, DownloadInv, NoEntry

\* A run that is off has nothing that could be older than the file.
LEMMA OffIsFine ==
  ASSUME version \in Nat
  PROVE  Off \in CronStages /\ CronInv(Off)
BY Constants DEF Off, CronInv, Nothing

\* Pools with what is added to them are pools.
LEMMA CompletedPools ==
  ASSUME NEW got \in Pools, NEW extra \in BOOLEAN
  PROVE  Completed(got, extra) \in Pools
<1>1. [kind |-> "added", version |-> 0] \in Pools
  BY Numbers DEF Pools
<1>. QED  BY <1>1 DEF Completed, ManuallyIncluded

\* What a run collects is pools, and goes on to be stored only if it is something; without
\* anything to add it is what the subgraph gave.
LEMMA CollectedRun ==
  ASSUME NEW run \in CronStages, NEW extra \in BOOLEAN,
         Unaided => ~extra /\ run.got.kind \in {"none", "pools"},
         version \in Nat, run.got.version <= version,
         run.got.kind = "pools" /\ ~run.overtaken => run.got.version >= file.version
  PROVE  Collected(run, extra) \in CronStages /\ CronInv(Collected(run, extra))
<1>. DEFINE got == Completed(run.got, extra)
            next == [run EXCEPT !.stage = "storing", !.got = got]
<1>1. got \in Pools
  BY CompletedPools DEF CronStages
<1>2. Unaided /\ got.kind # "none" => got.kind = "pools"
  BY DEF Completed, Unaided, Pools, ManuallyIncluded, CronStages
<1>3. \/ got = run.got
      \/ got.kind # "pools" /\ got.version = 0
  BY DEF Completed
<1>. HIDE DEF got
<1>4. CASE got.kind # "none"
  <2>1. /\ next \in CronStages /\ next.stage = "storing" /\ next.got = got
        /\ next.overtaken = run.overtaken
    BY <1>1 DEF CronStages
  <2>2. Collected(run, extra) = next
    BY <1>4 DEF Collected, Stores, got
  <2>. HIDE DEF next
  <2>3. got # Nothing
    BY <1>4 DEF Nothing
  <2>. QED  BY <1>2, <1>3, <1>4, <2>1, <2>2, <2>3 DEF CronInv
<1>5. CASE got.kind = "none"
  <2>1. Collected(run, extra) = Off
    BY <1>5 DEF Collected, Stores, got
  <2>. QED  BY <2>1, OffIsFine
<1>. QED  BY <1>4, <1>5

\* How long ago the file was this grows by no more than the tick.
LEMMA LastFileGrows ==
  ASSUME NEW x, x.since \in Nat
  PROVE  LastFile(x) \in Nat /\ LastFile(x) <= x.since + 1
BY DEF LastFile

-----------------------------------------------------------------------------
(* The steps.  Those of the cron lambda leave the instance alone, and the  *)
(* other way round.                                                        *)

\* A step that changes one run of the cron lambda only.
LEMMA OneRun ==
  ASSUME FilesInv, NEW r \in CronRun, NEW run \in CronStages, cron' = [cron EXCEPT ![r] = run],
         CronInv(run), UNCHANGED <<key, version, file, built, downloading, pooled, served>>
  PROVE  FilesInv'
<1>1. cron' \in [CronRun -> CronStages] /\ cron'[r] = run
      /\ \A q \in CronRun : q # r => cron'[q] = cron[q]
  BY DEF FilesInv, FilesTypeOK
<1>2. \A q \in CronRun : CronInv(cron'[q])
  BY <1>1 DEF FilesInv
<1>3. (\A q \in CronRun : CronInv(cron[q]))'
  BY <1>2 DEF CronInv, Unaided, ManuallyIncluded, Extra
<1>4. FilesTypeOK' /\ StalenessInv'
  BY <1>1 DEF FilesInv, FilesTypeOK, StalenessInv, BoundedStaleness
<1>. QED  BY <1>3, <1>4 DEF FilesInv

\* A file that is stored overtakes the other runs that have their pools.
LEMMA PutFileStep ==
  ASSUME FilesInv, NEW r \in CronRun, NEW answered \in BOOLEAN, PutFile(r, answered)
  PROVE  FilesInv'
<1>1. /\ cron \in [CronRun -> CronStages] /\ \A q \in CronRun : CronInv(cron[q])
      /\ version \in Nat /\ file \in Pools
  BY Numbers DEF FilesInv, FilesTypeOK
<1>2. /\ cron[r].stage = "storing" /\ file' = cron[r].got
      /\ UNCHANGED <<key, version, built, downloading, pooled, served>>
  BY DEF PutFile
<1>3. file' \in Pools /\ file'.version <= version'
  BY <1>1, <1>2 DEF CronStages, CronInv
<1>4. ASSUME NEW q \in CronRun
      PROVE  (cron[q] \in CronStages /\ CronInv(cron[q]))'
  <2>1. CASE q # r
    <3>. DEFINE old == cron[q]
                run == [old EXCEPT !.overtaken = TRUE]
    <3>1. cron'[q] = IF old.got.kind = "pools" /\ file' # file THEN run ELSE old
      BY <1>2, <2>1 DEF PutFile, Overtaken
    <3>2. old \in CronStages /\ CronInv(old)
      BY <1>1
    <3>3. /\ run \in CronStages /\ run.stage = old.stage /\ run.got = old.got /\ run.overtaken
      BY <3>2 DEF CronStages
    <3>. HIDE DEF old, run
    <3>4. CASE old.got.kind = "pools" /\ file' # file
      BY <1>2, <3>1, <3>2, <3>3, <3>4 DEF CronInv, Unaided
    <3>5. CASE old.got.kind # "pools"
      BY <1>2, <3>1, <3>2, <3>5 DEF CronInv, Unaided
    <3>6. CASE file' = file
      BY <1>2, <3>1, <3>2, <3>6 DEF CronInv, Unaided
    <3>. QED  BY <3>4, <3>5, <3>6
  <2>2. CASE q = r /\ answered
    <3>1. cron'[q] = Off
      BY <2>2 DEF PutFile
    <3>. QED  BY <1>1, <1>2, <3>1, Constants DEF Off, CronInv, Nothing
  <2>3. CASE q = r /\ ~answered
    <3>1. cron'[q] = cron[r]
      BY <2>3 DEF PutFile
    <3>2. cron[r].got.version >= cron[r].got.version
      BY <1>1 DEF CronStages, Pools
    <3>. QED  BY <1>1, <1>2, <3>1, <3>2 DEF CronInv, Unaided
  <2>. QED  BY <2>1, <2>2, <2>3
<1>5. cron' \in [CronRun -> CronStages] /\ (\A q \in CronRun : CronInv(cron[q]))'
  <2>1. cron' = [q \in CronRun |-> cron'[q]]
    BY DEF PutFile
  <2>2. (\A q \in CronRun : cron[q] \in CronStages /\ CronInv(cron[q]))'
    BY <1>4
  <2>. QED  BY <2>1, <2>2
<1>6. FilesTypeOK' /\ StalenessInv'
  BY <1>2, <1>3, <1>5 DEF FilesInv, FilesTypeOK, StalenessInv, BoundedStaleness, DownloadInv
<1>. QED  BY <1>3, <1>5, <1>6 DEF FilesInv

\* The steps of the cron lambda and of the subgraph.
LEMMA CronStep ==
  ASSUME FilesInv, NEW r \in CronRun,
         \/ StartRun(r) \/ RunFails(r)
         \/ \E empty \in BOOLEAN : CollectPools(r, empty)
         \/ \E extra \in BOOLEAN : CollectExtra(r, extra)
         \/ \E answered \in BOOLEAN : PutFile(r, answered)
  PROVE  FilesInv'
<1>1. /\ cron[r] \in CronStages /\ CronInv(cron[r]) /\ file \in Pools
      /\ version \in Nat /\ version \in 0..MaxVersion /\ file.version <= version
  BY Numbers DEF FilesInv, FilesTypeOK
<1>2. CASE StartRun(r)
  <2>1. [cron[r] EXCEPT !.stage = "getting"] \in CronStages
        /\ CronInv([cron[r] EXCEPT !.stage = "getting"])
    BY <1>1 DEF CronStages, CronInv
  <2>2. cron' = [cron EXCEPT ![r] = [cron[r] EXCEPT !.stage = "getting"]]
    BY <1>2 DEF StartRun
  <2>. QED  BY <1>1, <1>2, <2>1, <2>2, OneRun DEF StartRun
<1>3. CASE RunFails(r)
  <2>. QED  BY <1>1, <1>3, OneRun, OffIsFine DEF RunFails
<1>4. ASSUME NEW empty \in BOOLEAN, CollectPools(r, empty)
      PROVE  FilesInv'
  <2>. DEFINE got == IF empty THEN Nothing ELSE [kind |-> "pools", version |-> version]
              run == [cron[r] EXCEPT !.stage = "extra", !.got = got]
              next == IF Extra(key) = {} THEN Collected(run, FALSE) ELSE run
  <2>1. /\ got \in Pools /\ got.kind \in {"none", "pools"}
        /\ got.version <= version /\ (got.kind = "pools" => got.version >= file.version)
    BY <1>1, Numbers, Constants DEF Nothing, Pools
  <2>2. /\ cron' = [cron EXCEPT ![r] = next]
        /\ UNCHANGED <<key, version, file, built, downloading, pooled, served>>
    BY <1>4 DEF CollectPools
  <2>. HIDE DEF got
  <2>3. run \in CronStages /\ run.stage = "extra" /\ run.got = got
    BY <1>1, <2>1 DEF CronStages
  <2>. HIDE DEF run
  <2>4. next \in CronStages /\ CronInv(next)
    <3>1. CASE Extra(key) = {}
      <4>1. Collected(run, FALSE) \in CronStages /\ CronInv(Collected(run, FALSE))
        BY <1>1, <2>1, <2>3, CollectedRun
      <4>. QED  BY <3>1, <4>1
    <3>2. CASE Extra(key) # {}
      BY <2>1, <2>3, <3>2 DEF CronInv
    <3>. QED  BY <3>1, <3>2
  <2>. HIDE DEF next
  <2>. QED  BY <1>1, <2>2, <2>4, OneRun
<1>5. ASSUME NEW extra \in BOOLEAN, CollectExtra(r, extra)
      PROVE  FilesInv'
  <2>1. ~Unaided
    BY <1>1, <1>5 DEF CollectExtra, CronInv, Unaided
  <2>2. Collected(cron[r], extra) \in CronStages /\ CronInv(Collected(cron[r], extra))
    <3>1. /\ cron[r].got.version <= version
          /\ cron[r].got.kind = "pools" /\ ~cron[r].overtaken => cron[r].got.version >= file.version
      BY <1>1 DEF CronInv
    <3>. QED  BY <1>1, <2>1, <3>1, CollectedRun
  <2>. QED  BY <1>1, <1>5, <2>2, OneRun DEF CollectExtra
<1>. QED  BY <1>2, <1>3, <1>4, <1>5, PutFileStep

\* A step that changes one download only, and the entry of the cache and what was served at
\* most to what is bounded.
LEMMA OneDownload ==
  ASSUME FilesInv, NEW d \in Download, NEW x \in Downloading, DownloadInv(x),
         downloading' = [downloading EXCEPT ![d] = x],
         built' \in {"building", "s3", "static"},
         pooled' \in [got : Pools, age : 0..Ttl, since : Nat], pooled'.got # Nothing => built' = "s3",
         pooled'.since <= pooled'.age + MaxFlight,
         served' \in Nat, served' <= Ttl + MaxFlight,
         UNCHANGED <<key, version, cron, file>>
  PROVE  FilesInv'
<1>1. /\ downloading' \in [Download -> Downloading] /\ downloading'[d] = x
      /\ \A e \in Download : e # d => downloading'[e] = downloading[e]
  BY DEF FilesInv, FilesTypeOK, Downloading
<1>2. (\A e \in Download : DownloadInv(downloading[e]))'
  BY <1>1 DEF FilesInv, StalenessInv, DownloadInv
<1>3. FilesTypeOK'
  BY <1>1 DEF FilesInv, FilesTypeOK, Downloading
<1>4. StalenessInv'
  BY <1>2 DEF StalenessInv, BoundedStaleness
<1>5. (\A r \in CronRun : CronInv(cron[r]))'
  BY DEF FilesInv, CronInv, Unaided
<1>. QED  BY <1>3, <1>4, <1>5 DEF FilesInv

LEMMA DownloadStep ==
  ASSUME FilesInv, NEW d \in Download,
         Build(d) \/ GetFromFile(d) \/ ReadFile(d) \/ DownloadFails(d) \/ Downloaded(d)
  PROVE  FilesInv'
<1>. DEFINE x == downloading[d]
            asked == [x EXCEPT !.stage = "asked"]
            read == [x EXCEPT !.stage = "read", !.got = file, !.since = 0]
<1>1. /\ x \in Downloading /\ DownloadInv(x) /\ file \in Pools
      /\ built \in {"no", "building", "s3", "static"} /\ served \in Nat /\ served <= Ttl + MaxFlight
      /\ pooled \in [got : Pools, age : 0..Ttl, since : Nat] /\ (pooled.got # Nothing => built = "s3")
      /\ pooled.since <= pooled.age + MaxFlight
      /\ downloading \in [Download -> Downloading]
  BY DEF FilesInv, FilesTypeOK, StalenessInv, BoundedStaleness, Downloading
<1>2. x = Idle => asked \in Downloading /\ DownloadInv(asked)
  BY Numbers, Constants DEF Downloading, DownloadInv, Idle
<1>3. CASE Build(d)
  <2>1. CASE Cached(key)
    <3>1. x = Idle
      BY <1>3 DEF Build, FilesInv, StalenessInv
    <3>2. downloading' = [downloading EXCEPT ![d] = asked] /\ built' = "building"
      BY <1>3, <2>1 DEF Build
    <3>3. pooled.got = Nothing
      BY <1>1, <1>3 DEF Build
    <3>. HIDE DEF asked, x
    <3>. QED  BY <1>1, <1>2, <1>3, <3>1, <3>2, <3>3, OneDownload DEF Build
  <2>2. CASE ~Cached(key)
    <3>1. downloading' = [downloading EXCEPT ![d] = x] /\ built' = "static" /\ pooled.got = Nothing
      BY <1>1, <1>3, <2>2 DEF Build
    <3>. HIDE DEF x
    <3>. QED  BY <1>1, <1>3, <3>1, OneDownload DEF Build
  <2>. QED  BY <2>1, <2>2
<1>4. CASE GetFromFile(d)
  <2>1. downloading' = [downloading EXCEPT ![d] = asked]
    BY <1>4 DEF GetFromFile
  <2>. HIDE DEF asked
  <2>. QED  BY <1>1, <1>2, <1>4, <2>1, OneDownload DEF GetFromFile
<1>5. CASE ReadFile(d)
  <2>1. read \in Downloading
    BY <1>1 DEF Downloading
  <2>2. read.stage = "read" /\ read.since = 0 /\ read.age >= 0
    BY <1>1, Numbers DEF Downloading
  <2>3. DownloadInv(read)
    BY <2>2 DEF DownloadInv
  <2>4. downloading' = [downloading EXCEPT ![d] = read]
    BY <1>5 DEF ReadFile
  <2>. HIDE DEF read, x
  <2>5. UNCHANGED <<key, version, cron, file, built, pooled, served>> /\ built # "no"
    BY <1>5 DEF ReadFile, FilesInv, StalenessInv, Idle, x
  <2>. QED  BY <1>1, <2>1, <2>3, <2>4, <2>5, OneDownload
<1>6. CASE DownloadFails(d)
  <2>1. built # "no"
    BY <1>6 DEF DownloadFails, FilesInv, StalenessInv
  <2>. QED  BY <1>1, <1>6, <2>1, OneDownload, Numbers, Constants DEF DownloadFails
<1>7. CASE Downloaded(d)
  <2>1. pooled' \in [got : Pools, age : 0..Ttl, since : Nat]
        /\ pooled'.since <= pooled'.age + MaxFlight /\ served' \in Nat /\ served' <= Ttl + MaxFlight
    BY <1>1, <1>7, Numbers, Constants DEF Downloaded, Downloading, DownloadInv
  <2>. QED  BY <1>1, <1>7, <2>1, OneDownload, Numbers, Constants DEF Downloaded
<1>. QED  BY <1>3, <1>4, <1>5, <1>6, <1>7

LEMMA GetFromCacheStep ==
  ASSUME FilesInv, GetFromCache
  PROVE  FilesInv'
<1>1. pooled.since \in Nat /\ pooled.since <= Ttl + MaxFlight
  BY Numbers, Constants DEF FilesInv, FilesTypeOK, StalenessInv
<1>2. served' \in Nat /\ served' <= Ttl + MaxFlight
  BY <1>1, Numbers, Constants DEF GetFromCache
<1>3. FilesTypeOK' /\ StalenessInv'
  BY <1>2 DEF GetFromCache, Touched, FilesInv, FilesTypeOK, StalenessInv, BoundedStaleness
<1>4. (\A r \in CronRun : CronInv(cron[r]))'
  BY DEF GetFromCache, FilesInv, CronInv, Unaided
<1>. QED  BY <1>3, <1>4 DEF FilesInv, GetFromCache

LEMMA RecycleStep ==
  ASSUME FilesInv, Recycle
  PROVE  FilesInv'
<1>1. FilesTypeOK'
  BY Numbers, Constants DEF Recycle, FilesInv, FilesTypeOK, Downloading, NoEntry
<1>2. StalenessInv'
  BY Numbers, Constants DEF Recycle, FilesInv, FilesTypeOK, StalenessInv, BoundedStaleness, NoEntry
<1>3. (\A r \in CronRun : CronInv(cron[r]))'
  BY DEF Recycle, FilesInv, CronInv, Unaided
<1>. QED  BY <1>1, <1>2, <1>3 DEF FilesInv, Recycle

LEMMA TickStep ==
  ASSUME FilesInv, Tick
  PROVE  FilesInv'
<1>1. ASSUME NEW d \in Download, downloading[d] # Idle
      PROVE  /\ [downloading[d] EXCEPT !.age = @ + 1, !.since = LastFile(downloading[d])] \in Downloading
             /\ DownloadInv([downloading[d] EXCEPT !.age = @ + 1, !.since = LastFile(downloading[d])])
  <2>. DEFINE x == downloading[d]
              y == [x EXCEPT !.age = @ + 1, !.since = LastFile(x)]
  <2>1. x \in Downloading /\ DownloadInv(x) /\ x # Idle /\ x.age < MaxFlight
    BY <1>1 DEF Tick, FilesInv, FilesTypeOK, StalenessInv, Downloading
  <2>. HIDE DEF x
  <2>2. x.since \in Nat /\ x.age \in Nat /\ x.age + 1 \in 0..MaxFlight
    BY <2>1, Numbers, Constants DEF Downloading
  <2>3. LastFile(x) \in Nat /\ LastFile(x) <= x.age + 1 /\ (x.got = Nothing => LastFile(x) = 0)
    BY <2>1, <2>2, LastFileGrows DEF DownloadInv, LastFile
  <2>4. /\ y.stage = x.stage /\ y.got = x.got /\ y.age = x.age + 1 /\ y.since = LastFile(x)
        /\ y \in Downloading
    BY <2>1, <2>2, <2>3 DEF Downloading
  <2>. HIDE DEF y
  <2>5. DownloadInv(y)
    BY <2>1, <2>3, <2>4 DEF DownloadInv
  <2>. QED  BY <2>4, <2>5 DEF x, y
<1>2. /\ downloading' \in [Download -> Downloading]
      /\ \A d \in Download : DownloadInv(downloading'[d])
      /\ \A d \in Download : downloading[d] = Idle => downloading'[d] = Idle
  BY <1>1, Numbers, Constants DEF Tick
<1>3. pooled' = IF Expires(pooled) THEN NoEntry
                    ELSE [pooled EXCEPT !.age = @ + 1, !.since = LastFile(pooled)]
  BY DEF Tick
<1>4. /\ pooled' \in [got : Pools, age : 0..Ttl, since : Nat]
      /\ pooled'.since <= pooled'.age + MaxFlight
      /\ pooled'.got \in {Nothing, pooled.got}
  <2>1. CASE Expires(pooled)
    <3>1. pooled' = NoEntry
      BY <1>3, <2>1
    <3>2. NoEntry.since = 0 /\ NoEntry.age = 0 /\ NoEntry.got = Nothing
      BY DEF NoEntry
    <3>3. NoEntry \in [got : Pools, age : 0..Ttl, since : Nat]
      BY Constants
    <3>. HIDE DEF NoEntry
    <3>. QED  BY <3>1, <3>2, <3>3, Numbers
  <2>2. CASE ~Expires(pooled)
    <3>1. /\ pooled \in [got : Pools, age : 0..Ttl, since : Nat] /\ pooled.age + 1 \in 0..Ttl
          /\ pooled.since <= pooled.age + MaxFlight
      BY <2>2, Numbers, Constants DEF FilesInv, FilesTypeOK, StalenessInv, Expires
    <3>2. LastFile(pooled) \in Nat /\ LastFile(pooled) <= pooled.age + 1 + MaxFlight
      BY <3>1, LastFileGrows, Numbers, Constants
    <3>3. pooled' = [pooled EXCEPT !.age = @ + 1, !.since = LastFile(pooled)]
      BY <1>3, <2>2
    <3>. QED  BY <3>1, <3>2, <3>3, Numbers, Constants
  <2>. QED  BY <2>1, <2>2
<1>5. FilesTypeOK'
  BY <1>2, <1>4 DEF Tick, FilesInv, FilesTypeOK, Downloading
<1>6. (\A d \in Download : DownloadInv(downloading[d]))'
  BY <1>2 DEF DownloadInv
<1>7. StalenessInv'
  BY <1>2, <1>4, <1>6 DEF Tick, FilesInv, StalenessInv, BoundedStaleness
<1>8. (\A r \in CronRun : CronInv(cron[r]))'
  BY DEF Tick, FilesInv, CronInv, Unaided
<1>. QED  BY <1>5, <1>7, <1>8 DEF FilesInv, Tick

-----------------------------------------------------------------------------
(* The theorems.                                                           *)

LEMMA FilesInit == InitFiles => FilesInv
<1>. SUFFICES ASSUME InitFiles PROVE FilesInv
  OBVIOUS
<1>1. FilesTypeOK
  BY Numbers, Constants DEF InitFiles, FilesTypeOK, Downloading, NoEntry
<1>2. StalenessInv
  BY Numbers, Constants DEF InitFiles, StalenessInv, BoundedStaleness, NoEntry
<1>3. \A r \in CronRun : CronInv(cron[r])
  BY OffIsFine DEF InitFiles
<1>4. file.version <= version
  BY DEF InitFiles, Nothing
<1>. QED  BY <1>1, <1>2, <1>3, <1>4 DEF FilesInv

LEMMA FilesStep == FilesInv /\ [FilesNext]_filesVars => FilesInv'
<1>. SUFFICES ASSUME FilesInv, [FilesNext]_filesVars PROVE FilesInv'
  OBVIOUS
<1>1. CASE UNCHANGED filesVars
  <2>1. FilesTypeOK' /\ StalenessInv'
    BY <1>1 DEF filesVars, FilesInv, FilesTypeOK, StalenessInv, BoundedStaleness, DownloadInv
  <2>2. (\A r \in CronRun : CronInv(cron[r]))'
    BY <1>1 DEF filesVars, FilesInv, CronInv, Unaided
  <2>. QED  BY <1>1, <2>1, <2>2 DEF filesVars, FilesInv
<1>2. CASE FilesNext
  <2>1. CASE Index
    <3>1. FilesTypeOK'
      BY <2>1, Numbers, Constants DEF Index, FilesInv, FilesTypeOK
    <3>2. StalenessInv'
      BY <2>1 DEF Index, FilesInv, StalenessInv, BoundedStaleness, DownloadInv
    <3>3. /\ version \in Nat /\ file.version \in Nat /\ version' = version + 1
          /\ \A r \in CronRun : cron[r].got.version \in Nat
          /\ UNCHANGED <<key, file, cron>>
      BY <2>1, Numbers DEF Index, FilesInv, FilesTypeOK, CronStages, Pools
    <3>4. file'.version <= version' /\ (\A r \in CronRun : CronInv(cron[r]))'
      BY <3>3 DEF FilesInv, CronInv, Unaided
    <3>. QED  BY <3>1, <3>2, <3>4 DEF FilesInv
  <2>2. CASE GetFromCache \/ Recycle \/ Tick
    BY <2>2, GetFromCacheStep, RecycleStep, TickStep
  <2>. QED  BY <1>2, <2>1, <2>2, CronStep, DownloadStep DEF FilesNext
<1>. QED  BY <1>1, <1>2

\* The inductive invariant holds in every behaviour.
THEOREM FilesInvariant == FilesSpec => []FilesInv
<1>. QED  BY FilesInit, FilesStep, PTL DEF FilesSpec

\* Type correctness: no entry of the cache outlives its time, and there is one only while
\* the instance takes its pools from the file (aws-subgraph-provider.ts:20-38).
THEOREM FilesTypeCorrect == FilesSpec => []FilesTypeOK
<1>1. FilesInv => FilesTypeOK
  BY DEF FilesInv
<1>. QED  BY <1>1, FilesInvariant, PTL

\* What getPools returns was the file no longer ago than one life of an entry and one
\* download (aws-subgraph-provider.ts:20-108).
THEOREM StalenessBounded == FilesSpec => []BoundedStaleness
<1>1. FilesInv => BoundedStaleness
  BY DEF FilesInv, StalenessInv
<1>. QED  BY <1>1, FilesInvariant, PTL

\* A run stores pools older than those in the file only if it was overtaken
\* (routing-caching-stack.ts:115-153), for any number of runs that overlap.
THEOREM GoesBackOvertaken == FilesSpec => []OnlyOverlapsGoBack
<1>1. FilesInv => OnlyOverlapsGoBack
  BY DEF FilesInv, CronInv, OnlyOverlapsGoBack
<1>. QED  BY <1>1, FilesInvariant, PTL

\* No file is replaced by nothing, and one that nothing is added to is never left without the
\* subgraph's pools, once it has had some (cache-pools.ts:449-459).
THEOREM FilesKept == FilesSpec => FileKept
<1>1. FilesInv /\ [FilesNext]_filesVars =>
        [/\ file # Nothing => file' # Nothing
         /\ file.kind = "pools" /\ Unaided => file'.kind = "pools"]_filesVars
  <2>. SUFFICES ASSUME FilesInv, FilesNext
                PROVE  /\ file # Nothing => file' # Nothing
                       /\ file.kind = "pools" /\ Unaided => file'.kind = "pools"
    OBVIOUS
  <2>1. ASSUME NEW r \in CronRun, NEW answered \in BOOLEAN, PutFile(r, answered)
        PROVE  file' # Nothing /\ (Unaided => file'.kind = "pools")
    BY <2>1 DEF PutFile, FilesInv, CronInv
  <2>2. file' = file \/ \E r \in CronRun, answered \in BOOLEAN : PutFile(r, answered)
    BY DEF FilesNext, Index, GetFromCache, Recycle, Tick, StartRun, RunFails, CollectPools,
           CollectExtra, Build, GetFromFile, ReadFile, DownloadFails, Downloaded
  <2>. QED  BY <2>1, <2>2
<1>. QED  BY <1>1, FilesInvariant, PTL DEF FilesSpec, FileKept

-----------------------------------------------------------------------------
(* The filter of V4 pools.                                                 *)

\* The pools of a queue that are worth at least as much as p, and of the same group.
Better(pools, p) == {q \in QueueOf(pools, p) : Tvl[q] >= Tvl[p]}

Outranked(pools, p) == Cardinality(Better(pools, p)) >= TOP_GROUPED_V4_POOLS

\* What the queues are for: a pool that was visited and is not in one has been outranked, unless
\* it was never to be in one.
V4Inv ==
  /\ listed \subseteq V4Pool /\ left \subseteq listed
  /\ queue \subseteq {p \in listed \ left : IsHooksPoolRoutable(p)}
  /\ \A p \in listed \ (left \union queue) :
       IsHooksPoolRoutable(p) /\ p \notin Dust => Outranked(queue, p)

-----------------------------------------------------------------------------
(* Cardinalities.                                                          *)

\* Sets of pools are finite; more pools are not fewer.
LEMMA FewerPools ==
  ASSUME NEW S \in SUBSET V4Pool, NEW T \in SUBSET S
  PROVE  /\ IsFiniteSet(S) /\ IsFiniteSet(T)
         /\ Cardinality(S) \in Nat /\ Cardinality(T) \in Nat
         /\ Cardinality(T) <= Cardinality(S)
BY FS_Subset, FS_CardinalityType, V4Assumption

\* A pool that is outranked stays so when others come.
LEMMA OutrankedByMore ==
  ASSUME NEW S \in SUBSET V4Pool, NEW T \in SUBSET S, NEW p \in V4Pool, Outranked(T, p)
  PROVE  Outranked(S, p)
<1>1. Better(S, p) \in SUBSET V4Pool /\ Better(T, p) \in SUBSET Better(S, p)
  BY DEF Better, QueueOf
<1>. QED  BY <1>1, FewerPools, V4Assumption DEF Outranked

\* When the front of a full queue leaves, it and all that it outranked are outranked.
LEMMA OutrankedWithoutFront ==
  ASSUME NEW pushed \in SUBSET V4Pool, NEW p \in V4Pool,
         Cardinality(QueueOf(pushed, p)) > TOP_GROUPED_V4_POOLS,
         NEW out \in Front(QueueOf(pushed, p))
  PROVE  /\ Outranked(pushed \ {out}, out)
         /\ \A x \in V4Pool : Outranked(pushed, x) => Outranked(pushed \ {out}, x)
<1>. DEFINE rest == QueueOf(pushed, p) \ {out}
<1>1. /\ QueueOf(pushed, p) \in SUBSET V4Pool /\ out \in QueueOf(pushed, p) /\ out \in V4Pool
      /\ Group[out] = Group[p] /\ \A q \in rest : Tvl[out] <= Tvl[q]
  BY DEF QueueOf, Front
<1>2. Cardinality(rest) >= TOP_GROUPED_V4_POOLS
  <2>1. IsFiniteSet(QueueOf(pushed, p)) /\ Cardinality(QueueOf(pushed, p)) \in Nat
    BY <1>1, FewerPools
  <2>2. Cardinality(rest) = Cardinality(QueueOf(pushed, p)) - 1
    BY <1>1, <2>1, FS_RemoveElement
  <2>. QED  BY <2>1, <2>2, V4Assumption
<1>3. ASSUME NEW x \in V4Pool, Group[x] = Group[p], Tvl[x] <= Tvl[out]
      PROVE  Outranked(pushed \ {out}, x)
  <2>1. \A q \in rest : Tvl[q] >= Tvl[x]
    <3>. SUFFICES ASSUME NEW q \in rest PROVE Tvl[q] >= Tvl[x]
      OBVIOUS
    <3>1. Tvl[q] \in Nat /\ Tvl[x] \in Nat /\ Tvl[out] \in Nat
      BY <1>1, V4Assumption
    <3>. QED  BY <1>1, <1>3, <3>1
  <2>2. rest \in SUBSET Better(pushed \ {out}, x) /\ Better(pushed \ {out}, x) \in SUBSET V4Pool
    BY <1>3, <2>1 DEF Better, QueueOf
  <2>3. /\ Cardinality(rest) <= Cardinality(Better(pushed \ {out}, x))
        /\ Cardinality(rest) \in Nat /\ Cardinality(Better(pushed \ {out}, x)) \in Nat
    BY <2>2, FewerPools
  <2>. QED  BY <1>2, <2>3, V4Assumption DEF Outranked
<1>4. Outranked(pushed \ {out}, out)
  <2>1. Tvl[out] <= Tvl[out]
    BY <1>1, V4Assumption
  <2>. QED  BY <1>1, <1>3, <2>1
<1>5. ASSUME NEW x \in V4Pool, Outranked(pushed, x)
      PROVE  Outranked(pushed \ {out}, x)
  <2>1. CASE out \in Better(pushed, x)
    <3>1. Group[x] = Group[p] /\ Tvl[x] <= Tvl[out]
      BY <1>1, <2>1, V4Assumption DEF Better, QueueOf
    <3>. QED  BY <1>3, <3>1
  <2>2. CASE out \notin Better(pushed, x)
    <3>1. Better(pushed \ {out}, x) = Better(pushed, x)
      BY <2>2 DEF Better, QueueOf
    <3>. QED  BY <1>5, <3>1 DEF Outranked
  <2>. QED  BY <2>1, <2>2
<1>. QED  BY <1>4, <1>5

-----------------------------------------------------------------------------
(* The steps.                                                              *)

LEMMA V4Init == InitV4 => V4Inv
BY DEF InitV4, V4Inv

LEMMA PushStep ==
  ASSUME V4Inv, NEW p \in left, IsHooksPoolRoutable(p), Push(p),
         left' = left \ {p}, listed' = listed
  PROVE  V4Inv'
<1>. DEFINE pushed == IF p \in Dust THEN queue ELSE queue \union {p}
<1>1. /\ p \in listed /\ p \in V4Pool /\ pushed \in SUBSET V4Pool /\ queue \in SUBSET pushed
      /\ pushed \subseteq {q \in listed \ left' : IsHooksPoolRoutable(q)}
      /\ p \in pushed \/ p \in Dust
  BY DEF V4Inv
<1>2. \A x \in listed \ (left' \union pushed) :
        IsHooksPoolRoutable(x) /\ x \notin Dust => Outranked(pushed, x)
  BY <1>1, OutrankedByMore DEF V4Inv
<1>3. Room(p) \in Nat /\ Room(p) >= TOP_GROUPED_V4_POOLS
  BY V4Assumption DEF Room
<1>. HIDE DEF pushed
<1>4. CASE Cardinality(QueueOf(pushed, p)) > Room(p)
  <2>1. PICK out \in Front(QueueOf(pushed, p)) : queue' = pushed \ {out}
    BY <1>4 DEF Push, pushed
  <2>2. Cardinality(QueueOf(pushed, p)) \in Nat
    BY <1>1, FewerPools DEF QueueOf
  <2>3. Cardinality(QueueOf(pushed, p)) > TOP_GROUPED_V4_POOLS
    BY <1>3, <1>4, <2>2, V4Assumption
  <2>4. /\ Outranked(queue', out)
        /\ \A x \in V4Pool : Outranked(pushed, x) => Outranked(queue', x)
    BY <1>1, <2>1, <2>3, OutrankedWithoutFront
  <2>5. \A x \in listed' \ (left' \union queue') :
          IsHooksPoolRoutable(x) /\ x \notin Dust => Outranked(queue', x)
    <3>. SUFFICES ASSUME NEW x \in listed, x \notin left', x \notin queue',
                         IsHooksPoolRoutable(x), x \notin Dust
                  PROVE  Outranked(queue', x)
      OBVIOUS
    <3>1. CASE x = out
      BY <2>4, <3>1
    <3>2. CASE x # out
      BY <1>2, <2>1, <2>4, <3>2 DEF V4Inv
    <3>. QED  BY <3>1, <3>2
  <2>. QED  BY <1>1, <2>1, <2>5 DEF V4Inv, Outranked, Better, QueueOf, IsHooksPoolRoutable
<1>5. CASE ~(Cardinality(QueueOf(pushed, p)) > Room(p))
  <2>1. queue' = pushed
    BY <1>5 DEF Push, pushed
  <2>. QED  BY <1>1, <1>2, <2>1 DEF V4Inv, Outranked, Better, QueueOf, IsHooksPoolRoutable
<1>. QED  BY <1>4, <1>5

LEMMA VisitStep ==
  ASSUME V4Inv, NEW p \in V4Pool, Visit(p)
  PROVE  V4Inv'
<1>1. p \in left /\ left' = left \ {p} /\ listed' = listed
  BY DEF Visit
<1>2. CASE IsHooksPoolRoutable(p)
  BY <1>1, <1>2, PushStep DEF Visit
<1>3. CASE ~IsHooksPoolRoutable(p)
  <2>1. queue' = queue
    BY <1>3 DEF Visit
  <2>. QED  BY <1>1, <1>3, <2>1 DEF V4Inv, Outranked, Better, QueueOf, IsHooksPoolRoutable
<1>. QED  BY <1>2, <1>3

LEMMA V4Step == V4Inv /\ [V4Next]_v4Vars => V4Inv'
<1>. SUFFICES ASSUME V4Inv, [V4Next]_v4Vars PROVE V4Inv'
  OBVIOUS
<1>1. CASE NextRun
  BY <1>1 DEF NextRun, V4Inv
<1>2. CASE \E p \in V4Pool : Visit(p)
  BY <1>2, VisitStep
<1>3. CASE UNCHANGED v4Vars
  BY <1>3 DEF v4Vars, V4Inv, Outranked, Better, QueueOf, IsHooksPoolRoutable
<1>. QED  BY <1>1, <1>2, <1>3 DEF V4Next

-----------------------------------------------------------------------------
(* The theorems.                                                           *)

\* The inductive invariant holds in every behaviour.
THEOREM V4Invariant == V4Spec => []V4Inv
<1>. QED  BY V4Init, V4Step, PTL DEF V4Spec

\* Whatever the order of the input, a pool that is left out has interfering hooks that are not
\* on the allowlist, or was outranked by as many pools as a group has places
\* (v4HooksPoolsFiltering.ts:98-215).
THEOREM LeftOutOutranked == V4Spec => []OnlyOutranked
<1>1. V4Inv => OnlyOutranked
  <2>. SUFFICES ASSUME V4Inv, left = {}, NEW p \in listed \ Filtered
                PROVE  /\ Hooks[p] = "unlisted"
                       /\ p \notin Interferes => Outranked(queue, p)
    BY DEF OnlyOutranked, Outranked, Better
  <2>1. p \in V4Pool /\ p \notin queue /\ Hooks[p] = "unlisted"
    BY V4Assumption DEF V4Inv, Filtered, Restored, Allowlisted
  <2>2. p \notin Dust
    BY <2>1, V4Assumption
  <2>. QED  BY <2>1, <2>2 DEF V4Inv, IsHooksPoolRoutable
<1>. QED  BY <1>1, V4Invariant, PTL

\* Interfering hooks that are not on the allowlist never get a pool into the file, by a queue
\* or by being restored (hooksAddressesAllowlist.ts:86-87).
THEOREM SafeguardHolds == V4Spec => []Safeguard
<1>1. V4Inv => Safeguard
  BY DEF V4Inv, Safeguard, Filtered, Restored, Allowlisted, IsHooksPoolRoutable
<1>. QED  BY <1>1, V4Invariant, PTL
=============================================================================
