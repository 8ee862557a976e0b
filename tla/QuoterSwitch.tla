---------------------------- MODULE QuoterSwitch ----------------------------
(***************************************************************************)
(* TrafficSwitchOnChainQuoteProvider: the quotes of a batch of routes come *)
(* from the current or from the target quoter.  A sampled call asks both   *)
(* and compares; if one of the two fails it swallows the error and asks    *)
(* the one that is due once more.  Exact-in quotes ask both at the same    *)
(* time, exact-out quotes one after the other.                             *)
(***************************************************************************)
EXTENDS Integers

CONSTANTS
  QuoteCall,   \* calls at one time
  QuoteChain,  \* names of ChainId
  RouteBatches, \* sets of protocols that the routes of one call have
  Draw,        \* bound: the values of getRandomPercentage, out of 0..99
  QuotedBlock  \* bound: blocks a quoter answers at, 0 being before the target was deployed

VARIABLE quoting   \* the calls

quoterVars == <<quoting>>

Quoter == {"current", "target"}
RouteProtocol == {"V2", "V3", "V4", "MIXED"}

ASSUME QuoterAssumption ==
  /\ QuoteChain \subseteq STRING /\ RouteBatches \subseteq (SUBSET RouteProtocol) \ {{}}
  /\ Draw \subseteq 0..99 /\ QuotedBlock \subseteq Nat

(* --------------------------- the configuration ---------------------------- *)

\* The chains whose V3 quotes come from the target.
Migrated == {"MAINNET", "ARBITRUM_ONE", "POLYGON", "OPTIMISM", "BLAST", "BNB", "CELO",
             "AVALANCHE", "BASE"}

Started == {"WORLDCHAIN", "UNICHAIN_SEPOLIA", "BASE_SEPOLIA", "MONAD_TESTNET", "UNICHAIN",
            "SONEIUM"}

\* Shares in tenths of a percent.
SwitchShare(chain, protocol) ==
  IF \/ chain \in Migrated /\ protocol = "V3"
     \/ chain = "MAINNET" /\ protocol = "MIXED"
     \/ chain = "SEPOLIA" /\ protocol # "V3"
    THEN 1000
    ELSE 0

SampleShare(chain, protocol) ==
  CASE chain = "SEPOLIA"                                         -> IF protocol = "V3" THEN 1000 ELSE 0
    [] chain = "BASE"                                            -> IF protocol = "MIXED" THEN 10 ELSE 0
    [] chain \in Started                                         -> IF protocol = "V3" THEN 1 ELSE 0
    [] chain \in (Migrated \ {"BASE"}) \union {"POLYGON_MUMBAI"} -> 0
    [] OTHER                                                     -> 1

\* The protocol of a batch of routes; exact-out routes are V3 or V4.
ProtocolOf(trade, protocols) ==
  IF trade = "in" /\ protocols \intersect {"V2", "MIXED"} # {} THEN "MIXED"
    ELSE IF "V4" \in protocols THEN "V4" ELSE "V3"

\* A bug: the draw may equal the share.
HitInclusive(share, draw) == share >= 10 * draw

\* A draw is a whole percent rounded down, so a tenth of a percent hits one draw of a hundred.
Hit(share, draw) == share > 10 * draw

(* ------------------------------- comparisons ------------------------------ *)

\* Quoters that quote agree at one block; a null quote may be one that ran out of gas.
QuoterAnswer == [block : QuotedBlock, quote : {"value", "null, out of gas", "null"}]

CompareQuotes(current, target) ==
  IF target.block = 0 THEN "skipped"
    ELSE IF current.block # target.block THEN "other block"
    ELSE IF (current.quote = "value") = (target.quote = "value") THEN "match"
    ELSE IF current.quote = "null, out of gas" THEN "skipped" ELSE "mismatch"

(* -------------------------------- the calls ------------------------------- *)

Asked == [state : {"unasked", "pending", "failed"}] \union
         [state : {"answered"}, with : QuoterAnswer]

Unasked == [q \in Quoter |-> [state |-> "unasked"]]

InitQuoting ==
  quoting = [c \in QuoteCall |->
    [stage |-> "done", trade |-> "in", chain |-> "MAINNET", protocol |-> "V3", sampled |-> FALSE,
     due |-> "current", shadow |-> Unasked, counted |-> FALSE, verdict |-> "none",
     ended |-> [by |-> "current", how |-> "answer"]]]

\* A bug: for exact-out quotes each quoter waits for the other.
FirstAskedIn(trade) == [q \in Quoter |-> [state |-> IF trade = "in" THEN "pending" ELSE "unasked"]]

\* Which quoters a sampled call asks at once.
FirstAsked(trade) ==
  [q \in Quoter |-> [state |-> IF trade = "in" \/ q = "current" THEN "pending" ELSE "unasked"]]

BeginQuotes(c, trade, chain, protocols, sample, switch) ==
  /\ quoting[c].stage = "done"
  /\ LET protocol == ProtocolOf(trade, protocols)
         sampled == Hit(SampleShare(chain, protocol), sample)
         due == IF Hit(SwitchShare(chain, protocol), switch) THEN "target" ELSE "current"
     IN  quoting' = [quoting EXCEPT ![c] =
           [stage |-> IF sampled THEN "sampling" ELSE "asking",
            trade |-> trade, chain |-> chain, protocol |-> protocol, sampled |-> sampled,
            due |-> due, shadow |-> IF sampled THEN FirstAsked(trade) ELSE Unasked,
            counted |-> FALSE, verdict |-> "none", ended |-> [by |-> due, how |-> "pending"]]]

\* A bug: a sampled call returns what it tries out.
ReturnedSample(call) == [by |-> "target", how |-> "answer"]

\* What a sampled call returns when both have answered.
Returned(call) == [by |-> call.due, how |-> "answer"]

AnsweredBy(call, q) == call.shadow[q].state = "answered"

\* Both promises resolve: compareQuotes only counts, and the call returns.
Resolve(call) ==
  [call EXCEPT !.stage = "done", !.ended = Returned(call),
     !.verdict = CompareQuotes(call.shadow["current"].with, call.shadow["target"].with)]

ShadowAnswers(c, q, answer) ==
  /\ quoting[c].stage = "sampling" /\ quoting[c].shadow[q].state = "pending"
  /\ LET call == [quoting[c] EXCEPT !.shadow[q] = [state |-> "answered", with |-> answer]]
     IN  quoting' = [quoting EXCEPT ![c] =
           IF \A r \in Quoter : AnsweredBy(call, r) THEN Resolve(call)
             ELSE IF q = "target" THEN call
             ELSE [call EXCEPT !.shadow["target"] = [state |-> "pending"]]]

\* A bug: every error while sampling is put down to the target.
CountsAlways(call) == ~AnsweredBy(call, "target")

\* currentQuoterSucceeded && !targetQuoterSuceeded, at the time of the error.
Counts(call) == AnsweredBy(call, "current") /\ ~AnsweredBy(call, "target")

\* The first error ends the sampling, and with it the answers that are there or on their way.
ShadowFails(c, q) ==
  /\ quoting[c].stage = "sampling" /\ quoting[c].shadow[q].state = "pending"
  /\ LET call == [quoting[c] EXCEPT !.shadow[q] = [state |-> "failed"]]
     IN  quoting' = [quoting EXCEPT ![c] = [call EXCEPT !.stage = "asking", !.counted = Counts(call)]]

\* The quoter that is due is asked, for the second time if the sampling failed.
AskDue(c, how) ==
  /\ quoting[c].stage = "asking"
  /\ quoting' = [quoting EXCEPT ![c].stage = "done", ![c].ended = [by |-> quoting[c].due, how |-> how]]

QuoterNext ==
  \E c \in QuoteCall :
    \/ \E trade \in {"in", "out"}, chain \in QuoteChain, protocols \in RouteBatches, sample, switch \in Draw :
         /\ trade = "out" => protocols \subseteq {"V3", "V4"}
         /\ BeginQuotes(c, trade, chain, protocols, sample, switch)
    \/ \E q \in Quoter : ShadowFails(c, q) \/ \E answer \in QuoterAnswer : ShadowAnswers(c, q, answer)
    \/ \E how \in {"answer", "error"} : AskDue(c, how)

QuoterSpec == InitQuoting /\ [][QuoterNext]_quoterVars

(* ------------------------------- properties ------------------------------- *)

QuotingCall ==
  [stage : {"sampling", "asking", "done"}, trade : {"in", "out"},
   chain : QuoteChain \union {"MAINNET"}, protocol : RouteProtocol, sampled : BOOLEAN,
   due : Quoter, shadow : [Quoter -> Asked], counted : BOOLEAN,
   verdict : {"none", "skipped", "other block", "match", "mismatch"},
   ended : [by : Quoter, how : {"pending", "answer", "error"}]]

\* Type invariant: the calls; a call that is being sampled waits for a quoter.
QuoterTypeOK ==
  /\ quoting \in [QuoteCall -> QuotingCall]
  /\ \A c \in QuoteCall :
       quoting[c].stage = "sampling" => \E q \in Quoter : quoting[c].shadow[q].state = "pending"

\* The metric of failed targets (traffic-switch-on-chain-quote-provider.ts:98) counts a call
\* only if the current quoter answered it and the target did fail.
CountedFailuresReal ==
  \A c \in QuoteCall : quoting[c].counted =>
    AnsweredBy(quoting[c], "current") /\ quoting[c].shadow["target"].state = "failed"

\* A share of nothing never takes a call and a share of everything takes each of them
\* (28-37): a protocol that is switched off never reaches the target, sampled or not.
SharesAtTheEdge ==
  \A c \in QuoteCall : LET call == quoting[c] IN call.ended.how = "pending" =>
    /\ SwitchShare(call.chain, call.protocol) = 0 => call.due = "current"
    /\ SwitchShare(call.chain, call.protocol) = 1000 => call.due = "target"
    /\ SampleShare(call.chain, call.protocol) = 0 => call.shadow = Unasked
    /\ SampleShare(call.chain, call.protocol) = 1000 => call.shadow # Unasked

\* Sampling cannot be told from outside: the caller gets the answer or the error of the
\* quoter that was due (123-130), whichever of the two failed while they were compared.
QuoterSwitches == INSTANCE ShadowSwitch WITH
  Call <- QuoteCall, due <- [c \in QuoteCall |-> quoting[c].due],
  ended <- [c \in QuoteCall |-> quoting[c].ended]

QuoterImplementsSwitch == QuoterSwitches!Spec
=============================================================================
