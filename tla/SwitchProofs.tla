----------------------------- MODULE SwitchProofs -----------------------------
(***************************************************************************)
(* Proofs about the two switches that hide what they try out: the one      *)
(* between the quoters and the one between the fetchers of token fees, for *)
(* any number of calls, any chains, tokens, shares and draws.              *)
(***************************************************************************)
EXTENDS QuoterSwitch, TokenFees, TLAPS

-----------------------------------------------------------------------------
(* The quoters: the inductive invariant.  A call is pending for its caller *)
(* as long as it samples or asks, and nothing is counted before the        *)
(* sampling has ended.                                                     *)

\* The draws decide who is due and who is asked; at the edges they have no say.
AtTheEdge(call) ==
  /\ SwitchShare(call.chain, call.protocol) = 0 => call.due = "current"
  /\ SwitchShare(call.chain, call.protocol) = 1000 => call.due = "target"
  /\ SampleShare(call.chain, call.protocol) = 0 => ~call.sampled
  /\ SampleShare(call.chain, call.protocol) = 1000 => call.sampled

QuotingInv(call) ==
  /\ call.stage = "done" <=> call.ended.how # "pending"
  /\ call.ended.how = "pending" => AtTheEdge(call)
  /\ call.sampled <=> call.shadow["current"].state # "unasked"
  /\ ~call.sampled => call.shadow = Unasked
  /\ call.stage = "sampling" =>
       \/ call.shadow["current"].state = "pending"
       \/ AnsweredBy(call, "current") /\ call.shadow["target"].state = "pending"
  /\ call.stage = "sampling" => ~call.counted
  /\ call.counted => AnsweredBy(call, "current") /\ call.shadow["target"].state = "failed"

QuoterInv == QuoterTypeOK /\ \A c \in QuoteCall : QuotingInv(quoting[c])

-----------------------------------------------------------------------------
(* The quoters: the steps.                                                 *)

LEMMA AskedStates ==
  /\ [state |-> "unasked"] \in Asked /\ [state |-> "pending"] \in Asked /\ [state |-> "failed"] \in Asked
  /\ Unasked \in [Quoter -> Asked]
BY DEF Asked, Unasked

\* Shares are numbers, in tenths of a percent.
LEMMA Shares ==
  ASSUME NEW chain, NEW protocol
  PROVE  SwitchShare(chain, protocol) \in Nat /\ SampleShare(chain, protocol) \in Nat
BY DEF SwitchShare, SampleShare

\* A step that changes one call only.
LEMMA OneQuotingCall ==
  ASSUME QuoterInv, NEW c \in QuoteCall, NEW call \in QuotingCall, QuotingInv(call),
         quoting' = [quoting EXCEPT ![c] = call]
  PROVE  QuoterInv'
<1>1. /\ quoting' \in [QuoteCall -> QuotingCall] /\ quoting'[c] = call
      /\ \A d \in QuoteCall : d # c => quoting'[d] = quoting[d]
  BY DEF QuoterInv, QuoterTypeOK
<1>2. \A d \in QuoteCall : QuotingInv(quoting'[d])
  BY <1>1 DEF QuoterInv
<1>3. \A d \in QuoteCall : quoting'[d].stage = "sampling" =>
        \E q \in Quoter : quoting'[d].shadow[q].state = "pending"
  BY <1>2 DEF QuotingInv, Quoter
<1>. QED  BY <1>1, <1>2, <1>3 DEF QuoterInv, QuoterTypeOK

\* What the draws make of a new call.
LEMMA BegunCall ==
  ASSUME NEW trade \in {"in", "out"}, NEW chain \in QuoteChain, NEW protocol \in RouteProtocol,
         NEW sampled \in BOOLEAN, NEW due \in Quoter,
         SwitchShare(chain, protocol) = 0 => due = "current",
         SwitchShare(chain, protocol) = 1000 => due = "target",
         SampleShare(chain, protocol) = 0 => sampled = FALSE,
         SampleShare(chain, protocol) = 1000 => sampled = TRUE
  PROVE  LET call == [stage |-> IF sampled THEN "sampling" ELSE "asking",
              trade |-> trade, chain |-> chain, protocol |-> protocol, sampled |-> sampled,
              due |-> due, shadow |-> IF sampled THEN FirstAsked(trade) ELSE Unasked,
              counted |-> FALSE, verdict |-> "none", ended |-> [by |-> due, how |-> "pending"]]
         IN  call \in QuotingCall /\ QuotingInv(call)
<1>1. /\ FirstAsked(trade) \in [Quoter -> Asked] /\ FirstAsked(trade)["current"].state = "pending"
      /\ Unasked["current"].state = "unasked"
  BY AskedStates DEF FirstAsked, Unasked, Quoter
<1>2. CASE sampled = TRUE
  BY <1>1, <1>2 DEF QuotingCall, QuotingInv, AtTheEdge
<1>3. CASE sampled = FALSE
  BY <1>1, <1>3, AskedStates DEF QuotingCall, QuotingInv, AtTheEdge
<1>. QED  BY <1>2, <1>3

LEMMA BeginQuotesStep ==
  ASSUME QuoterInv, NEW c \in QuoteCall, NEW trade \in {"in", "out"}, NEW chain \in QuoteChain,
         NEW protocols \in RouteBatches, NEW sample \in Draw, NEW switch \in Draw,
         BeginQuotes(c, trade, chain, protocols, sample, switch)
  PROVE  QuoterInv'
<1>. DEFINE protocol == ProtocolOf(trade, protocols)
            sampled == Hit(SampleShare(chain, protocol), sample)
            due == IF Hit(SwitchShare(chain, protocol), switch) THEN "target" ELSE "current"
            call == [stage |-> IF sampled THEN "sampling" ELSE "asking",
              trade |-> trade, chain |-> chain, protocol |-> protocol, sampled |-> sampled,
              due |-> due, shadow |-> IF sampled THEN FirstAsked(trade) ELSE Unasked,
              counted |-> FALSE, verdict |-> "none", ended |-> [by |-> due, how |-> "pending"]]
<1>1. quoting' = [quoting EXCEPT ![c] = call]
  BY DEF BeginQuotes
<1>2. protocol \in RouteProtocol
  BY DEF ProtocolOf, RouteProtocol
<1>3. /\ sampled \in BOOLEAN
      /\ SampleShare(chain, protocol) = 0 => sampled = FALSE
      /\ SampleShare(chain, protocol) = 1000 => sampled = TRUE
  <2>. HIDE DEF protocol
  <2>1. SampleShare(chain, protocol) \in Nat /\ sample \in 0..99
    BY Shares, QuoterAssumption
  <2>. QED  BY <2>1 DEF Hit
<1>4. /\ due \in Quoter
      /\ SwitchShare(chain, protocol) = 0 => due = "current"
      /\ SwitchShare(chain, protocol) = 1000 => due = "target"
  <2>. HIDE DEF protocol
  <2>1. SwitchShare(chain, protocol) \in Nat /\ switch \in 0..99
    BY Shares, QuoterAssumption
  <2>. QED  BY <2>1 DEF Hit, Quoter
<1>. HIDE DEF protocol, sampled, due
<1>5. call \in QuotingCall /\ QuotingInv(call)
  BY <1>2, <1>3, <1>4, BegunCall
<1>. QED  BY <1>1, <1>5, OneQuotingCall

LEMMA ShadowAnswersStep ==
  ASSUME QuoterInv, NEW c \in QuoteCall, NEW q \in Quoter, NEW answer \in QuoterAnswer,
         ShadowAnswers(c, q, answer)
  PROVE  QuoterInv'
<1>. DEFINE old == quoting[c]
            shadow == [old.shadow EXCEPT ![q] = [state |-> "answered", with |-> answer]]
            call == [old EXCEPT !.shadow = shadow]
<1>1. /\ old \in QuotingCall /\ QuotingInv(old) /\ old.stage = "sampling"
      /\ old.shadow[q].state = "pending" /\ quoting \in [QuoteCall -> QuotingCall]
  BY DEF ShadowAnswers, QuoterInv, QuoterTypeOK
<1>2. [state |-> "answered", with |-> answer] \in Asked
  BY DEF Asked
<1>3. /\ shadow \in [Quoter -> Asked] /\ shadow[q].state = "answered"
      /\ \A r \in Quoter : r # q => shadow[r] = old.shadow[r]
  BY <1>1, <1>2 DEF QuotingCall
<1>4. quoting' = [quoting EXCEPT ![c] =
        IF \A r \in Quoter : AnsweredBy(call, r) THEN Resolve(call)
          ELSE IF q = "target" THEN call
          ELSE [call EXCEPT !.shadow["target"] = [state |-> "pending"]]]
  BY DEF ShadowAnswers
<1>. HIDE DEF shadow
<1>5. /\ call \in QuotingCall /\ call.shadow = shadow /\ call.stage = "sampling"
      /\ call.ended = old.ended /\ call.counted = old.counted /\ call.sampled = old.sampled
      /\ call.chain = old.chain /\ call.protocol = old.protocol /\ call.due = old.due
  BY <1>1, <1>3 DEF QuotingCall
<1>6. /\ old.ended.how = "pending" /\ AtTheEdge(call) /\ ~old.counted
      /\ old.sampled /\ call.shadow["current"].state # "unasked"
  BY <1>1, <1>3, <1>5 DEF QuotingInv, AtTheEdge, Unasked, Quoter
<1>. HIDE DEF call, old
<1>7. CASE \A r \in Quoter : AnsweredBy(call, r)
  <2>. DEFINE ended == [by |-> call.due, how |-> "answer"]
              verdict == CompareQuotes(call.shadow["current"].with, call.shadow["target"].with)
  <2>1. Resolve(call) = [call EXCEPT !.stage = "done", !.ended = ended,
                           !.verdict = verdict]
    BY DEF Resolve, Returned
  <2>2. verdict \in {"none", "skipped", "other block", "match", "mismatch"}
    BY DEF CompareQuotes
  <2>. HIDE DEF verdict
  <2>3. ended \in [by : Quoter, how : {"pending", "answer", "error"}] /\ ended.how = "answer"
    BY <1>5 DEF QuotingCall
  <2>. HIDE DEF ended
  <2>4. /\ Resolve(call) \in QuotingCall /\ Resolve(call).stage = "done"
        /\ Resolve(call).ended.how = "answer" /\ Resolve(call).shadow = call.shadow
        /\ Resolve(call).sampled = call.sampled /\ Resolve(call).counted = call.counted
    BY <1>5, <2>1, <2>2, <2>3 DEF QuotingCall, Quoter
  <2>5. QuotingInv(Resolve(call))
    BY <1>5, <1>6, <2>4 DEF QuotingInv
  <2>6. quoting' = [quoting EXCEPT ![c] = Resolve(call)]
    BY <1>4, <1>7
  <2>. QED  BY <2>4, <2>5, <2>6, OneQuotingCall
<1>8. CASE ~(\A r \in Quoter : AnsweredBy(call, r)) /\ q = "target"
  <2>1. QuotingInv(call)
    BY <1>1, <1>3, <1>5, <1>6, <1>8 DEF QuotingInv, AnsweredBy, Quoter
  <2>2. quoting' = [quoting EXCEPT ![c] = call]
    BY <1>4, <1>8
  <2>. QED  BY <1>5, <2>1, <2>2, OneQuotingCall
<1>9. CASE ~(\A r \in Quoter : AnsweredBy(call, r)) /\ q = "current"
  <2>. DEFINE next == [call EXCEPT !.shadow["target"] = [state |-> "pending"]]
  <2>1. /\ next \in QuotingCall /\ next.stage = "sampling" /\ next.ended = call.ended
        /\ next.counted = call.counted /\ next.sampled = call.sampled
        /\ next.chain = call.chain /\ next.protocol = call.protocol /\ next.due = call.due
        /\ next.shadow["target"].state = "pending" /\ next.shadow["current"] = call.shadow["current"]
    BY <1>3, <1>5, AskedStates DEF QuotingCall, Quoter
  <2>. HIDE DEF next
  <2>2. QuotingInv(next)
    BY <1>3, <1>5, <1>6, <1>9, <2>1 DEF QuotingInv, AtTheEdge, AnsweredBy
  <2>3. quoting' = [quoting EXCEPT ![c] = next]
    BY <1>4, <1>9 DEF next
  <2>. QED  BY <2>1, <2>2, <2>3, OneQuotingCall
<1>. QED  BY <1>7, <1>8, <1>9 DEF Quoter

LEMMA ShadowFailsStep ==
  ASSUME QuoterInv, NEW c \in QuoteCall, NEW q \in Quoter, ShadowFails(c, q)
  PROVE  QuoterInv'
<1>. DEFINE old == quoting[c]
            shadow == [old.shadow EXCEPT ![q] = [state |-> "failed"]]
            call == [old EXCEPT !.shadow = shadow]
            next == [call EXCEPT !.stage = "asking", !.counted = Counts(call)]
<1>1. /\ old \in QuotingCall /\ QuotingInv(old) /\ old.stage = "sampling"
      /\ old.shadow[q].state = "pending"
  BY DEF ShadowFails, QuoterInv, QuoterTypeOK
<1>2. /\ shadow \in [Quoter -> Asked] /\ shadow[q].state = "failed"
      /\ \A r \in Quoter : r # q => shadow[r] = old.shadow[r]
  BY <1>1, AskedStates DEF QuotingCall
<1>3. quoting' = [quoting EXCEPT ![c] = next]
  BY DEF ShadowFails
<1>. HIDE DEF shadow
<1>4. call.shadow = shadow /\ call \in QuotingCall /\ Counts(call) \in BOOLEAN
  BY <1>1, <1>2 DEF QuotingCall, Counts, AnsweredBy
<1>5. /\ next \in QuotingCall /\ next.stage = "asking" /\ next.ended = old.ended
      /\ next.counted = Counts(call) /\ next.sampled = old.sampled /\ next.shadow = shadow
      /\ next.chain = old.chain /\ next.protocol = old.protocol /\ next.due = old.due
  BY <1>1, <1>4 DEF QuotingCall
<1>6. Counts(call) => shadow["current"].state = "answered" /\ q = "target"
  BY <1>2, <1>4 DEF Counts, AnsweredBy, Quoter
<1>. HIDE DEF next, call, old
<1>7. QuotingInv(next)
  BY <1>1, <1>2, <1>5, <1>6 DEF QuotingInv, AtTheEdge, AnsweredBy, Unasked, Quoter
<1>. QED  BY <1>3, <1>5, <1>7, OneQuotingCall

LEMMA AskDueStep ==
  ASSUME QuoterInv, NEW c \in QuoteCall, NEW how \in {"answer", "error"}, AskDue(c, how)
  PROVE  QuoterInv'
<1>. DEFINE old == quoting[c]
            next == [old EXCEPT !.stage = "done", !.ended = [by |-> old.due, how |-> how]]
<1>1. old \in QuotingCall /\ QuotingInv(old) /\ quoting \in [QuoteCall -> QuotingCall]
  BY DEF QuoterInv, QuoterTypeOK
<1>2. quoting' = [quoting EXCEPT ![c] = next]
  BY <1>1 DEF AskDue
<1>3. /\ next \in QuotingCall /\ next.stage = "done" /\ next.ended.how = how
      /\ next.counted = old.counted /\ next.sampled = old.sampled /\ next.shadow = old.shadow
  BY <1>1 DEF QuotingCall
<1>. HIDE DEF next, old
<1>4. QuotingInv(next)
  BY <1>1, <1>3 DEF QuotingInv, AnsweredBy
<1>. QED  BY <1>2, <1>3, <1>4, OneQuotingCall

LEMMA QuoterInit == InitQuoting => QuoterInv
<1>. SUFFICES ASSUME InitQuoting PROVE QuoterInv
  OBVIOUS
<1>. DEFINE call == [stage |-> "done", trade |-> "in", chain |-> "MAINNET", protocol |-> "V3",
               sampled |-> FALSE, due |-> "current", shadow |-> Unasked, counted |-> FALSE,
               verdict |-> "none", ended |-> [by |-> "current", how |-> "answer"]]
<1>1. quoting = [c \in QuoteCall |-> call]
  BY DEF InitQuoting
<1>2. call \in QuotingCall /\ call.stage = "done"
  <2>1. "current" \in Quoter /\ "V3" \in RouteProtocol
    BY DEF RouteProtocol, Quoter
  <2>2. [by |-> "current", how |-> "answer"] \in [by : Quoter, how : {"pending", "answer", "error"}]
    BY <2>1
  <2>. QED  BY <2>1, <2>2, AskedStates DEF QuotingCall
<1>3. Unasked["current"].state = "unasked"
  BY DEF Unasked, Quoter
<1>4. QuotingInv(call)
  BY <1>3 DEF QuotingInv
<1>. HIDE DEF call
<1>5. \A c \in QuoteCall : quoting[c] = call
  BY <1>1
<1>6. quoting \in [QuoteCall -> QuotingCall]
  BY <1>1, <1>2
<1>. QED  BY <1>2, <1>4, <1>5, <1>6 DEF QuoterInv, QuoterTypeOK

LEMMA QuoterStep == QuoterInv /\ [QuoterNext]_quoterVars => QuoterInv'
<1>. SUFFICES ASSUME QuoterInv, [QuoterNext]_quoterVars PROVE QuoterInv'
  OBVIOUS
<1>1. CASE UNCHANGED quoterVars
  BY <1>1 DEF quoterVars, QuoterInv, QuoterTypeOK
<1>2. CASE QuoterNext
  BY <1>2, BeginQuotesStep, ShadowFailsStep, ShadowAnswersStep, AskDueStep DEF QuoterNext
<1>. QED  BY <1>1, <1>2

\* What the caller of old sees when it becomes call: it begins, goes on, or ends.
CallerSees(old, call) ==
  \/ old.stage = "done" /\ call.ended = [by |-> call.due, how |-> "pending"]
  \/ call.due = old.due /\ call.ended = old.ended
  \/ /\ old.stage # "done" /\ call.due = old.due
     /\ \E how \in {"answer", "error"} : call.ended = [by |-> old.due, how |-> how]

\* Every step is one of a single call, and its caller sees no more than that.
LEMMA QuoterStepSeen ==
  ASSUME QuoterInv, QuoterNext
  PROVE  \E c \in QuoteCall, call \in QuotingCall :
           quoting' = [quoting EXCEPT ![c] = call] /\ CallerSees(quoting[c], call)
<1>1. quoting \in [QuoteCall -> QuotingCall] /\ quoting' \in [QuoteCall -> QuotingCall]
  BY QuoterStep DEF QuoterInv, QuoterTypeOK
<1>2. ASSUME NEW c \in QuoteCall, NEW call, quoting' = [quoting EXCEPT ![c] = call],
             CallerSees(quoting[c], call)
      PROVE  \E d \in QuoteCall, x \in QuotingCall :
               quoting' = [quoting EXCEPT ![d] = x] /\ CallerSees(quoting[d], x)
  <2>1. call = quoting'[c]
    BY <1>1, <1>2
  <2>. QED  BY <1>1, <1>2, <2>1
<1>3. ASSUME NEW c \in QuoteCall, NEW trade, NEW chain, NEW protocols, NEW sample, NEW switch,
             BeginQuotes(c, trade, chain, protocols, sample, switch)
      PROVE  \E call : quoting' = [quoting EXCEPT ![c] = call] /\ CallerSees(quoting[c], call)
  <2>. DEFINE protocol == ProtocolOf(trade, protocols)
              sampled == Hit(SampleShare(chain, protocol), sample)
              due == IF Hit(SwitchShare(chain, protocol), switch) THEN "target" ELSE "current"
              stage == IF sampled THEN "sampling" ELSE "asking"
              shadow == IF sampled THEN FirstAsked(trade) ELSE Unasked
              call == [stage |-> stage, trade |-> trade, chain |-> chain, protocol |-> protocol,
                       sampled |-> sampled, due |-> due, shadow |-> shadow, counted |-> FALSE,
                       verdict |-> "none", ended |-> [by |-> due, how |-> "pending"]]
  <2>1. quoting[c].stage = "done" /\ quoting' = [quoting EXCEPT ![c] = call]
    BY <1>3 DEF BeginQuotes
  <2>. HIDE DEF protocol, sampled, due, stage, shadow
  <2>2. call.due = due /\ call.ended = [by |-> due, how |-> "pending"]
    OBVIOUS
  <2>. HIDE DEF call
  <2>. QED  BY <2>1, <2>2 DEF CallerSees
<1>4. ASSUME NEW c \in QuoteCall, NEW q \in Quoter, NEW answer \in QuoterAnswer,
             ShadowAnswers(c, q, answer)
      PROVE  \E call : quoting' = [quoting EXCEPT ![c] = call] /\ CallerSees(quoting[c], call)
  <2>. DEFINE old == quoting[c]
              shadow == [old.shadow EXCEPT ![q] = [state |-> "answered", with |-> answer]]
              call == [old EXCEPT !.shadow = shadow]
              next == [call EXCEPT !.shadow["target"] = [state |-> "pending"]]
  <2>1. old \in QuotingCall /\ old.stage = "sampling"
    BY <1>1, <1>4 DEF ShadowAnswers
  <2>2. quoting' = [quoting EXCEPT ![c] =
          IF \A r \in Quoter : AnsweredBy(call, r) THEN Resolve(call)
            ELSE IF q = "target" THEN call ELSE next]
    BY <1>4 DEF ShadowAnswers
  <2>. HIDE DEF shadow
  <2>3. call.due = old.due /\ call.ended = old.ended /\ DOMAIN call = DOMAIN old
    BY <2>1 DEF QuotingCall
  <2>4. next.due = old.due /\ next.ended = old.ended
    BY <2>1, <2>3 DEF QuotingCall
  <2>5. /\ Resolve(call).due = old.due
        /\ Resolve(call).ended = [by |-> old.due, how |-> "answer"]
    <3>. DEFINE verdict == CompareQuotes(call.shadow["current"].with, call.shadow["target"].with)
    <3>1. Resolve(call) = [call EXCEPT !.stage = "done", !.ended = [by |-> old.due, how |-> "answer"],
                             !.verdict = verdict]
      BY <2>3 DEF Resolve, Returned
    <3>. HIDE DEF verdict, call
    <3>2. {"due", "ended", "stage", "verdict"} \subseteq DOMAIN call
      BY <2>1, <2>3 DEF QuotingCall
    <3>. QED  BY <2>3, <3>1, <3>2
  <2>. HIDE DEF next, call
  <2>6. CallerSees(old, next) /\ CallerSees(old, call)
    BY <2>3, <2>4 DEF CallerSees
  <2>7. CallerSees(old, Resolve(call))
    BY <2>1, <2>5 DEF CallerSees
  <2>. QED  BY <2>2, <2>6, <2>7
<1>5. ASSUME NEW c \in QuoteCall, NEW q \in Quoter, ShadowFails(c, q)
      PROVE  \E call : quoting' = [quoting EXCEPT ![c] = call] /\ CallerSees(quoting[c], call)
  <2>. DEFINE old == quoting[c]
              call == [old EXCEPT !.shadow[q] = [state |-> "failed"]]
              counted == Counts(call)
              next == [call EXCEPT !.stage = "asking", !.counted = counted]
  <2>1. old \in QuotingCall /\ quoting' = [quoting EXCEPT ![c] = next]
    BY <1>1, <1>5 DEF ShadowFails
  <2>. HIDE DEF counted
  <2>2. call.due = old.due /\ call.ended = old.ended /\ DOMAIN call = DOMAIN old
    BY <2>1 DEF QuotingCall
  <2>3. next.due = old.due /\ next.ended = old.ended
    BY <2>1, <2>2 DEF QuotingCall
  <2>. HIDE DEF next
  <2>. QED  BY <2>1, <2>3 DEF CallerSees
<1>6. ASSUME NEW c \in QuoteCall, NEW how \in {"answer", "error"}, AskDue(c, how)
      PROVE  \E call : quoting' = [quoting EXCEPT ![c] = call] /\ CallerSees(quoting[c], call)
  <2>. DEFINE old == quoting[c]
              next == [old EXCEPT !.stage = "done", !.ended = [by |-> old.due, how |-> how]]
  <2>1. /\ old \in QuotingCall /\ old.stage = "asking"
        /\ quoting' = [quoting EXCEPT ![c] = next]
    BY <1>1, <1>6 DEF AskDue
  <2>2. next.due = old.due /\ next.ended = [by |-> old.due, how |-> how]
    BY <2>1 DEF QuotingCall
  <2>. HIDE DEF next
  <2>. QED  BY <2>1, <2>2 DEF CallerSees
<1>. QED  BY <1>2, <1>3, <1>4, <1>5, <1>6 DEF QuoterNext

-----------------------------------------------------------------------------
(* The quoters: the theorems.                                              *)

\* The inductive invariant holds in every behaviour.
THEOREM QuoterInvariant == QuoterSpec => []QuoterInv
<1>. QED  BY QuoterInit, QuoterStep, PTL DEF QuoterSpec

\* Type correctness: a call that is being sampled waits for a quoter, so it goes on
\* (traffic-switch-on-chain-quote-provider.ts:76-107).
THEOREM QuoterTypeCorrect == QuoterSpec => []QuoterTypeOK
<1>1. QuoterInv => QuoterTypeOK
  BY DEF QuoterInv
<1>. QED  BY <1>1, QuoterInvariant, PTL

\* The metric of failed targets counts calls that the current quoter answered and the target
\* did not (98), in whatever order the two answer and fail.
THEOREM FailuresReal == QuoterSpec => []CountedFailuresReal
<1>1. QuoterInv => CountedFailuresReal
  BY DEF QuoterInv, QuotingInv, CountedFailuresReal
<1>. QED  BY <1>1, QuoterInvariant, PTL

\* Shares of nothing and of everything leave nothing to the draw, for any chain (28-37).
THEOREM EdgesDecide == QuoterSpec => []SharesAtTheEdge
<1>1. QuoterInv => SharesAtTheEdge
  <2>. SUFFICES ASSUME QuoterInv, NEW c \in QuoteCall, quoting[c].ended.how = "pending"
                PROVE  LET call == quoting[c] IN
                         /\ AtTheEdge(call)
                         /\ ~call.sampled => call.shadow = Unasked
                         /\ call.sampled => call.shadow # Unasked
    BY DEF SharesAtTheEdge, AtTheEdge
  <2>1. QuotingInv(quoting[c])
    BY DEF QuoterInv
  <2>2. Unasked["current"].state = "unasked"
    BY DEF Unasked, Quoter
  <2>. QED  BY <2>1, <2>2 DEF QuotingInv
<1>. QED  BY <1>1, QuoterInvariant, PTL

\* Sampling cannot be told from outside: every step begins a call, ends it with what the
\* quoter gave that was due, or changes nothing the caller sees (76-130).
THEOREM QuoterSwitched == QuoterSpec => QuoterImplementsSwitch
<1>1. InitQuoting => QuoterSwitches!Init
  <2>. SUFFICES ASSUME InitQuoting PROVE QuoterSwitches!Init
    OBVIOUS
  <2>1. \A c \in QuoteCall : /\ quoting[c].due = "current"
                             /\ quoting[c].ended = [by |-> "current", how |-> "answer"]
    BY DEF InitQuoting
  <2>. QED  BY <2>1 DEF QuoterSwitches!Init, QuoterSwitches!Implementation, QuoterSwitches!Ending
<1>2. QuoterInv /\ [QuoterNext]_quoterVars => [QuoterSwitches!Next]_(QuoterSwitches!svars)
  <2>. SUFFICES ASSUME QuoterInv, QuoterNext
                PROVE  [QuoterSwitches!Next]_(QuoterSwitches!svars)
    BY DEF quoterVars, QuoterSwitches!svars
  <2>1. PICK c \in QuoteCall, call \in QuotingCall :
          quoting' = [quoting EXCEPT ![c] = call] /\ CallerSees(quoting[c], call)
    BY QuoterStepSeen
  <2>2. /\ quoting \in [QuoteCall -> QuotingCall] /\ QuotingInv(quoting[c])
        /\ quoting'[c] = call /\ \A d \in QuoteCall : d # c => quoting'[d] = quoting[d]
    BY <2>1 DEF QuoterInv, QuoterTypeOK
  <2>. DEFINE due == [d \in QuoteCall |-> quoting[d].due]
              ended == [d \in QuoteCall |-> quoting[d].ended]
  <2>3. /\ due' = [due EXCEPT ![c] = call.due]
        /\ ended' = [ended EXCEPT ![c] = call.ended]
        /\ due[c] = quoting[c].due /\ ended[c] = quoting[c].ended
    BY <2>2
  <2>4. call.due \in QuoterSwitches!Implementation
    BY <2>1 DEF QuotingCall, Quoter, QuoterSwitches!Implementation
  <2>. HIDE DEF due, ended
  <2>5. CASE quoting[c].stage = "done" /\ call.ended = [by |-> call.due, how |-> "pending"]
    <3>1. ended[c].how # "pending"
      BY <2>2, <2>3, <2>5 DEF QuotingInv
    <3>2. ended[c].how # "pending" /\ \E i \in QuoterSwitches!Implementation :
            due' = [due EXCEPT ![c] = i] /\ ended' = [ended EXCEPT ![c] = [by |-> i, how |-> "pending"]]
      BY <2>3, <2>4, <2>5, <3>1
    <3>3. QuoterSwitches!Begin(c)
      BY <3>2 DEF QuoterSwitches!Begin, due, ended
    <3>. QED  BY <3>3 DEF QuoterSwitches!Next
  <2>6. CASE call.due = quoting[c].due /\ call.ended = quoting[c].ended
    <3>1. due' = due /\ ended' = ended
      BY <2>3, <2>6 DEF due, ended
    <3>. QED  BY <3>1 DEF QuoterSwitches!svars, due, ended
  <2>7. ASSUME quoting[c].stage # "done", call.due = quoting[c].due, NEW how \in {"answer", "error"},
               call.ended = [by |-> quoting[c].due, how |-> how]
        PROVE  QuoterSwitches!Next
    <3>1. due' = due
      BY <2>3, <2>7 DEF due
    <3>2. ended[c].how = "pending"
      BY <2>2, <2>3, <2>7 DEF QuotingInv
    <3>3. /\ ended[c].how = "pending"
          /\ \E h \in {"answer", "error"} : ended' = [ended EXCEPT ![c] = [by |-> due[c], how |-> h]]
          /\ due' = due
      BY <2>3, <2>7, <3>1, <3>2
    <3>4. QuoterSwitches!Finish(c)
      BY <3>3 DEF QuoterSwitches!Finish, due, ended
    <3>. QED  BY <3>4 DEF QuoterSwitches!Next
  <2>. QED  BY <2>1, <2>5, <2>6, <2>7 DEF CallerSees
<1>. QED  BY <1>1, <1>2, QuoterInvariant, PTL DEF QuoterSpec, QuoterImplementsSwitch, QuoterSwitches!Spec
-----------------------------------------------------------------------------
(* The fees: the inductive invariant.  What the control still has to ask   *)
(* the chain for is what has no entry, and a call that is not settled has  *)
(* not ended.                                                              *)

\* The tokens the chain has to be asked for.
ForChain(call) == Missing(call) \union (call.wanted \intersect ListedDynamic)

\* What the entries of a call are worth.
EntriesInv(call) ==
  /\ call.control \in {"graphql", "fallback"} => \A t \in ListedDynamic : call.entry[t] = "none"
  /\ call.control = "fallback" => call.onChain = Missing(call)
  /\ call.control = "answered" => ForChain(call) \subseteq call.onChain
  /\ call.ended.by = call.due

\* An experiment for everybody leaves the draw no choice.
DueInv(call) == custom.pctEnabled = 1000 => call.due = "target"

FetchingInv(call) ==
  /\ EntriesInv(call)
  /\ Settled(call) <=> call.ended.how # "pending"
  /\ call.ended = [by |-> "current", how |-> "answer"] => ForChain(call) \subseteq call.onChain
  /\ call.ended.how = "pending" => DueInv(call)

FeesInv ==
  /\ custom \in {c \in Customization : Accepted(c)}
  /\ fetching \in [FeeCall -> FetchingCall]
  /\ \A c \in FeeCall : FetchingInv(fetching[c])

\* What the caller of old sees when it becomes call.
FeesCallerSees(old, call) ==
  \/ old.ended.how # "pending" /\ call.ended = [by |-> call.due, how |-> "pending"]
  \/ call.due = old.due /\ call.ended = old.ended
  \/ /\ old.ended.how = "pending" /\ call.due = old.due
     /\ \E how \in {"answer", "error"} : call.ended = [by |-> old.due, how |-> how]

-----------------------------------------------------------------------------
(* The fees: the steps.                                                    *)

\* A call that has not ended and is as it should be is so after Return.
LEMMA ReturnKeeps ==
  ASSUME NEW call \in FetchingCall, EntriesInv(call), DueInv(call), call.ended.how = "pending"
  PROVE  /\ Return(call) \in FetchingCall /\ FetchingInv(Return(call))
         /\ FeesCallerSees(call, Return(call))
<1>. DEFINE last == IF call.due = "current" THEN call.control ELSE call.treatment
            how == IF last = "answered" THEN "answer" ELSE "error"
            ended == [call.ended EXCEPT !.how = how]
            next == [call EXCEPT !.ended = ended]
<1>1. Return(call) = IF Settled(call) THEN next ELSE call
  BY DEF Return
<1>2. CASE ~Settled(call)
  <2>1. FetchingInv(call)
    BY <1>2 DEF FetchingInv
  <2>. QED  BY <1>1, <1>2, <2>1 DEF FeesCallerSees
<1>3. CASE Settled(call)
  <2>1. how \in {"answer", "error"} /\ (how = "answer" /\ call.due = "current" => call.control = "answered")
    OBVIOUS
  <2>. HIDE DEF last, how
  <2>2. /\ ended \in [by : Fetcher, how : {"pending", "answer", "error"}] /\ ended.how = how
        /\ ended = [by |-> call.due, how |-> how] /\ ended.by = call.due
    BY <2>1 DEF FetchingCall, EntriesInv
  <2>. HIDE DEF ended
  <2>3. /\ next \in FetchingCall /\ next.ended = ended /\ next.due = call.due
        /\ next.control = call.control /\ next.treatment = call.treatment
        /\ next.entry = call.entry /\ next.onChain = call.onChain /\ next.wanted = call.wanted
    BY <2>2 DEF FetchingCall
  <2>. HIDE DEF next
  <2>4. /\ Missing(next) = Missing(call) /\ ForChain(next) = ForChain(call)
        /\ Settled(next) <=> Settled(call)
    BY <2>3 DEF Missing, ForChain, Settled
  <2>5. EntriesInv(next)
    BY <2>2, <2>3, <2>4 DEF EntriesInv
  <2>6. ended = [by |-> "current", how |-> "answer"] => ForChain(call) \subseteq call.onChain
    <3>. SUFFICES ASSUME ended = [by |-> "current", how |-> "answer"]
                  PROVE  ForChain(call) \subseteq call.onChain
      OBVIOUS
    <3>1. how = "answer" /\ call.due = "current"
      BY <2>2
    <3>. QED  BY <2>1, <3>1 DEF EntriesInv
  <2>7. FetchingInv(next)
    BY <1>3, <2>1, <2>2, <2>3, <2>4, <2>5, <2>6 DEF FetchingInv
  <2>8. FeesCallerSees(call, next)
    BY <2>1, <2>2, <2>3 DEF FeesCallerSees
  <2>. QED  BY <1>1, <1>3, <2>3, <2>7, <2>8
<1>. QED  BY <1>2, <1>3

\* What the callers see of one call, and of the step that takes it on.
LEMMA SeenThrough ==
  ASSUME NEW old, NEW call, NEW next, FeesCallerSees(call, next),
         call.due = old.due, call.ended = old.ended
  PROVE  FeesCallerSees(old, next)
BY DEF FeesCallerSees

\* What a step of a call has to be.
FetchingStep ==
  /\ UNCHANGED custom
  /\ \E c \in FeeCall, call \in FetchingCall :
       /\ fetching' = [fetching EXCEPT ![c] = call]
       /\ FetchingInv(call) /\ FeesCallerSees(fetching[c], call)

LEMMA FetchFeesStep ==
  ASSUME FeesInv, NEW c \in FeeCall, NEW wanted \in SUBSET Token, NEW chain \in FeeChain,
         NEW draw \in FeeDraw, FetchFees(c, wanted, chain, draw)
  PROVE  FetchingStep
<1>. DEFINE due == DueFetcher(draw)
            control == IF due = "current" THEN "graphql" ELSE "unasked"
            treatment == IF Samples(draw) \/ due = "target" THEN "chain" ELSE "unasked"
            named == chain \in GraphQLChain
            call == [control |-> control, treatment |-> treatment, wanted |-> wanted,
                     named |-> named, due |-> due, entry |-> NoFees, onChain |-> {},
                     ended |-> [by |-> due, how |-> "pending"]]
<1>1. /\ fetching[c].ended.how # "pending" /\ fetching' = [fetching EXCEPT ![c] = call]
      /\ custom' = custom
  BY DEF FetchFees
<1>2. due \in Fetcher /\ named \in BOOLEAN
  BY DEF DueFetcher, Fetcher
<1>3. custom.pctEnabled = 1000 => due = "target"
  <2>1. /\ custom.pctEnabled \in Int /\ custom.pctShadowSampling \in Int /\ draw \in 0..999
        /\ Accepted(custom)
    BY FeesAssumption DEF FeesInv
  <2>. QED  BY <2>1 DEF DueFetcher, IsSamplingEnabled, Accepted
<1>4. /\ control \in {"unasked", "graphql"} /\ treatment \in {"unasked", "chain"}
      /\ control = "graphql" \/ treatment = "chain"
  BY <1>2 DEF Fetcher
<1>. HIDE DEF due, control, treatment, named
<1>5. NoFees \in [Token -> Entry] /\ \A t \in Token : NoFees[t] = "none"
  BY DEF NoFees, Entry
<1>6. call \in FetchingCall
  BY <1>2, <1>4, <1>5 DEF FetchingCall
<1>7. ~Settled(call)
  BY <1>4 DEF Settled
<1>8. EntriesInv(call) /\ DueInv(call)
  BY <1>3, <1>4, <1>5, FeesAssumption DEF EntriesInv, DueInv
<1>9. FetchingInv(call) /\ FeesCallerSees(fetching[c], call)
  BY <1>1, <1>7, <1>8 DEF FetchingInv, FeesCallerSees
<1>. QED  BY <1>1, <1>6, <1>9 DEF FetchingStep

LEMMA GraphQLEndsStep ==
  ASSUME FeesInv, NEW c \in FeeCall, NEW got \in SUBSET Token, GraphQLEnds(c, got)
  PROVE  FetchingStep
<1>. DEFINE old == fetching[c]
            entry == [t \in Token |-> IF t \in got THEN "graphql" ELSE old.entry[t]]
            call == [old EXCEPT !.entry = entry]
            fell == [call EXCEPT !.control = "fallback", !.onChain = Missing(call)]
            done == [call EXCEPT !.control = "answered"]
<1>1. /\ old \in FetchingCall /\ FetchingInv(old) /\ old.control = "graphql"
      /\ got \subseteq ForGraphQL(old.wanted) /\ custom' = custom
  BY DEF GraphQLEnds, FeesInv
<1>2. fetching' = [fetching EXCEPT ![c] = AfterGraphQL(call)]
  BY <1>1 DEF GraphQLEnds, FeesInv
<1>3. /\ entry \in [Token -> Entry]
      /\ \A t \in ListedDynamic : entry[t] = "none"
  BY <1>1, FeesAssumption DEF FetchingCall, Entry, ForGraphQL, IsDynamicFOT, FetchingInv, EntriesInv
<1>. HIDE DEF entry
<1>4. /\ call \in FetchingCall /\ call.entry = entry /\ call.ended = old.ended /\ call.due = old.due
      /\ call.wanted = old.wanted
  BY <1>1, <1>3 DEF FetchingCall
<1>5. old.ended.how = "pending" /\ DueInv(old) /\ old.ended.by = old.due
  BY <1>1 DEF FetchingInv, Settled, EntriesInv
<1>. HIDE DEF call, old
<1>6. CASE Missing(call) # {}
  <2>1. Missing(call) \in SUBSET Token
    BY <1>4 DEF Missing, FetchingCall
  <2>2. /\ fell \in FetchingCall /\ fell.control = "fallback" /\ fell.onChain = Missing(call)
        /\ fell.entry = entry /\ fell.ended = old.ended /\ fell.due = old.due
        /\ fell.wanted = call.wanted
    BY <1>4, <2>1 DEF FetchingCall
  <2>3. AfterGraphQL(call) = fell
    BY <1>6 DEF AfterGraphQL, Fallback
  <2>. HIDE DEF fell
  <2>4. Missing(fell) = Missing(call) /\ ~Settled(fell)
    BY <1>4, <2>2 DEF Missing, Settled
  <2>5. EntriesInv(fell) /\ DueInv(fell)
    BY <1>3, <1>5, <2>2, <2>4 DEF EntriesInv, DueInv
  <2>6. FetchingInv(fell) /\ FeesCallerSees(old, fell)
    BY <1>5, <2>2, <2>4, <2>5 DEF FetchingInv, FeesCallerSees
  <2>. QED  BY <1>1, <1>2, <2>2, <2>3, <2>6 DEF FetchingStep, old
<1>7. CASE Missing(call) = {}
  <2>1. /\ done \in FetchingCall /\ done.control = "answered" /\ done.entry = entry
        /\ done.ended = old.ended /\ done.due = old.due /\ done.wanted = call.wanted
    BY <1>4 DEF FetchingCall
  <2>2. AfterGraphQL(call) = Return(done)
    BY <1>7 DEF AfterGraphQL, Fallback
  <2>. HIDE DEF done
  <2>3. Missing(done) = {} /\ ForChain(done) = {}
    <3>1. Missing(done) = {}
      BY <1>4, <1>7, <2>1 DEF Missing
    <3>. QED  BY <1>3, <2>1, <3>1 DEF ForChain, Missing
  <2>4. EntriesInv(done) /\ DueInv(done)
    BY <1>3, <1>5, <2>1, <2>3 DEF EntriesInv, DueInv
  <2>5. /\ Return(done) \in FetchingCall /\ FetchingInv(Return(done))
        /\ FeesCallerSees(done, Return(done))
    BY <1>5, <2>1, <2>4, ReturnKeeps
  <2>6. FeesCallerSees(old, Return(done))
    BY <2>1, <2>5, SeenThrough
  <2>. QED  BY <1>1, <1>2, <2>2, <2>5, <2>6 DEF FetchingStep, old
<1>. QED  BY <1>6, <1>7

LEMMA FallbackEndsStep ==
  ASSUME FeesInv, NEW c \in FeeCall, NEW got \in SUBSET Token, FallbackEnds(c, got)
  PROVE  FetchingStep
<1>. DEFINE old == fetching[c]
            entry == [t \in Token |-> IF t \in got THEN "chain" ELSE old.entry[t]]
            call == [old EXCEPT !.control = "answered", !.entry = entry]
<1>1. /\ old \in FetchingCall /\ FetchingInv(old) /\ old.control = "fallback" /\ custom' = custom
  BY DEF FallbackEnds, FeesInv
<1>2. fetching' = [fetching EXCEPT ![c] = Return(call)]
  BY <1>1 DEF FallbackEnds, FeesInv
<1>3. /\ entry \in [Token -> Entry]
      /\ \A t \in ListedDynamic : old.entry[t] = "none"
      /\ \A t \in Token : entry[t] = "none" => old.entry[t] = "none"
  BY <1>1, FeesAssumption DEF FetchingCall, Entry, FetchingInv, EntriesInv
<1>. HIDE DEF entry
<1>4. /\ call \in FetchingCall /\ call.entry = entry /\ call.ended = old.ended /\ call.due = old.due
      /\ call.wanted = old.wanted /\ call.onChain = old.onChain /\ call.control = "answered"
  BY <1>1, <1>3 DEF FetchingCall
<1>5. /\ old.ended.how = "pending" /\ DueInv(old) /\ old.ended.by = old.due
      /\ old.onChain = Missing(old) /\ old.wanted \subseteq Token
  BY <1>1 DEF FetchingInv, Settled, EntriesInv, FetchingCall
<1>. HIDE DEF call, old
<1>6. ForChain(call) \subseteq call.onChain
  BY <1>3, <1>4, <1>5 DEF Missing, ForChain
<1>7. EntriesInv(call) /\ DueInv(call)
  BY <1>3, <1>4, <1>5, <1>6 DEF EntriesInv, DueInv
<1>8. /\ Return(call) \in FetchingCall /\ FetchingInv(Return(call))
      /\ FeesCallerSees(call, Return(call))
  BY <1>4, <1>5, <1>7, ReturnKeeps
<1>9. FeesCallerSees(old, Return(call))
  BY <1>4, <1>8, SeenThrough
<1>. QED  BY <1>1, <1>2, <1>8, <1>9 DEF FetchingStep, old

LEMMA TreatmentEndsStep ==
  ASSUME FeesInv, NEW c \in FeeCall, NEW how \in {"answered", "failed"}, TreatmentEnds(c, how)
  PROVE  FetchingStep
<1>. DEFINE old == fetching[c]
            call == [old EXCEPT !.treatment = how]
<1>1. /\ old \in FetchingCall /\ FetchingInv(old) /\ old.treatment = "chain" /\ custom' = custom
  BY DEF TreatmentEnds, FeesInv
<1>2. fetching' = [fetching EXCEPT ![c] = Return(call)]
  BY <1>1 DEF TreatmentEnds, FeesInv
<1>3. /\ call \in FetchingCall /\ call.entry = old.entry /\ call.ended = old.ended /\ call.due = old.due
      /\ call.wanted = old.wanted /\ call.onChain = old.onChain /\ call.control = old.control
  BY <1>1 DEF FetchingCall
<1>4. old.ended.how = "pending" /\ DueInv(old) /\ EntriesInv(old)
  BY <1>1 DEF FetchingInv, Settled
<1>. HIDE DEF call, old
<1>5. Missing(call) = Missing(old) /\ ForChain(call) = ForChain(old)
  BY <1>3 DEF Missing, ForChain
<1>6. EntriesInv(call) /\ DueInv(call)
  BY <1>3, <1>4, <1>5 DEF EntriesInv, DueInv
<1>7. /\ Return(call) \in FetchingCall /\ FetchingInv(Return(call))
      /\ FeesCallerSees(call, Return(call))
  BY <1>3, <1>4, <1>6, ReturnKeeps
<1>8. FeesCallerSees(old, Return(call))
  BY <1>3, <1>7, SeenThrough
<1>. QED  BY <1>1, <1>2, <1>7, <1>8 DEF FetchingStep, old

LEMMA FeesInit == InitFees => FeesInv
<1>. SUFFICES ASSUME InitFees PROVE FeesInv
  OBVIOUS
<1>. DEFINE call == [control |-> "unasked", treatment |-> "unasked", wanted |-> {}, named |-> TRUE,
               due |-> "current", entry |-> NoFees, onChain |-> {},
               ended |-> [by |-> "current", how |-> "answer"]]
<1>1. fetching = [c \in FeeCall |-> call] /\ custom \in {c \in Customization : Accepted(c)}
  BY DEF InitFees
<1>2. NoFees \in [Token -> Entry] /\ \A t \in Token : NoFees[t] = "none"
  BY DEF NoFees, Entry
<1>3. call \in FetchingCall
  BY <1>2 DEF FetchingCall, Fetcher
<1>4. Missing(call) = {} /\ ForChain(call) = {} /\ Settled(call)
  BY DEF Missing, ForChain, Settled
<1>5. FetchingInv(call)
  BY <1>2, <1>4, FeesAssumption DEF FetchingInv, EntriesInv
<1>. HIDE DEF call
<1>. QED  BY <1>1, <1>3, <1>5 DEF FeesInv

\* Every step takes one call on.
LEMMA FeesStepIsCallStep == FeesInv /\ FeesNext => FetchingStep
BY FetchFeesStep, GraphQLEndsStep, FallbackEndsStep, TreatmentEndsStep DEF FeesNext

LEMMA FeesStep == FeesInv /\ [FeesNext]_feesVars => FeesInv'
<1>. SUFFICES ASSUME FeesInv, [FeesNext]_feesVars PROVE FeesInv'
  OBVIOUS
<1>1. CASE UNCHANGED feesVars
  BY <1>1 DEF feesVars, FeesInv, FetchingInv, DueInv, EntriesInv, Settled, Missing, ForChain
<1>2. CASE FeesNext
  <2>1. PICK c \in FeeCall, call \in FetchingCall :
          /\ fetching' = [fetching EXCEPT ![c] = call]
          /\ FetchingInv(call)
    BY <1>2, FeesStepIsCallStep DEF FetchingStep
  <2>2. custom' = custom
    BY <1>2, FeesStepIsCallStep DEF FetchingStep
  <2>3. \A d \in FeeCall : FetchingInv(fetching'[d])
    BY <2>1 DEF FeesInv
  <2>4. \A d \in FeeCall : FetchingInv(fetching[d])'
    BY <2>2, <2>3 DEF FetchingInv, DueInv, EntriesInv, Settled, Missing, ForChain
  <2>. QED  BY <2>1, <2>2, <2>4 DEF FeesInv
<1>. QED  BY <1>1, <1>2

-----------------------------------------------------------------------------
(* The fees: the theorems.                                                 *)

\* The inductive invariant holds in every behaviour.
THEOREM FeesInvariant == FeesSpec => []FeesInv
<1>. QED  BY FeesInit, FeesStep, PTL DEF FeesSpec

\* Type correctness: a call of fetchFees ends exactly when nothing it asked is outstanding
\* (traffic-switcher.ts:59-83), for any tokens and any customization that is accepted.
THEOREM FeesTypeCorrect == FeesSpec => []FeesTypeOK
<1>1. FeesInv => FeesTypeOK
  BY DEF FeesInv, FeesTypeOK, FetchingInv
<1>. QED  BY <1>1, FeesInvariant, PTL

\* A token without an entry in the control's answer, and one of the dynamic list, was asked
\* from the chain (graphql-token-fee-fetcher.ts:37-96), whatever the two services answer and
\* however they fail.
THEOREM FeesAskedFor == FeesSpec => []NothingForgotten
<1>1. FeesInv => NothingForgotten
  BY DEF FeesInv, NothingForgotten, FetchingInv, ForChain
<1>. QED  BY <1>1, FeesInvariant, PTL

\* An experiment for everybody takes every call (traffic-switcher.ts:31-38): the constructor
\* refuses the customizations in which sampling would keep the control due.
THEOREM ExperimentComplete == FeesSpec => []FullExperimentSwitches
<1>1. FeesInv => FullExperimentSwitches
  BY DEF FeesInv, FullExperimentSwitches, FetchingInv, DueInv
<1>. QED  BY <1>1, FeesInvariant, PTL

\* The switcher can be told from one fetcher only by who is due (59-83): a step begins a call,
\* ends it with what the due fetcher gave, or changes nothing the caller sees.
THEOREM FeesSwitched == FeesSpec => FeesImplementSwitch
<1>1. InitFees => FeesSwitch!Init
  <2>. SUFFICES ASSUME InitFees PROVE FeesSwitch!Init
    OBVIOUS
  <2>1. \A c \in FeeCall : /\ fetching[c].due = "current"
                           /\ fetching[c].ended = [by |-> "current", how |-> "answer"]
    BY DEF InitFees
  <2>. QED  BY <2>1 DEF FeesSwitch!Init, FeesSwitch!Implementation, FeesSwitch!Ending
<1>2. FeesInv /\ [FeesNext]_feesVars => [FeesSwitch!Next]_(FeesSwitch!svars)
  <2>. SUFFICES ASSUME FeesInv, FeesNext
                PROVE  [FeesSwitch!Next]_(FeesSwitch!svars)
    BY DEF feesVars, FeesSwitch!svars
  <2>1. PICK c \in FeeCall, call \in FetchingCall :
          fetching' = [fetching EXCEPT ![c] = call] /\ FeesCallerSees(fetching[c], call)
    BY FeesStepIsCallStep DEF FetchingStep
  <2>2. /\ fetching \in [FeeCall -> FetchingCall]
        /\ fetching'[c] = call /\ \A d \in FeeCall : d # c => fetching'[d] = fetching[d]
    BY <2>1 DEF FeesInv
  <2>. DEFINE due == [d \in FeeCall |-> fetching[d].due]
              ended == [d \in FeeCall |-> fetching[d].ended]
  <2>3. /\ due' = [due EXCEPT ![c] = call.due]
        /\ ended' = [ended EXCEPT ![c] = call.ended]
        /\ due[c] = fetching[c].due /\ ended[c] = fetching[c].ended
    BY <2>2
  <2>4. call.due \in FeesSwitch!Implementation
    BY DEF FetchingCall, Fetcher, FeesSwitch!Implementation
  <2>. HIDE DEF due, ended
  <2>5. CASE fetching[c].ended.how # "pending" /\ call.ended = [by |-> call.due, how |-> "pending"]
    <3>1. ended[c].how # "pending" /\ \E i \in FeesSwitch!Implementation :
            due' = [due EXCEPT ![c] = i] /\ ended' = [ended EXCEPT ![c] = [by |-> i, how |-> "pending"]]
      BY <2>3, <2>4, <2>5
    <3>2. FeesSwitch!Begin(c)
      BY <3>1 DEF FeesSwitch!Begin, due, ended
    <3>. QED  BY <3>2 DEF FeesSwitch!Next
  <2>6. CASE call.due = fetching[c].due /\ call.ended = fetching[c].ended
    <3>1. due' = due /\ ended' = ended
      BY <2>3, <2>6 DEF due, ended
    <3>. QED  BY <3>1 DEF FeesSwitch!svars, due, ended
  <2>7. ASSUME fetching[c].ended.how = "pending", call.due = fetching[c].due,
               NEW how \in {"answer", "error"}, call.ended = [by |-> fetching[c].due, how |-> how]
        PROVE  FeesSwitch!Next
    <3>1. due' = due
      BY <2>3, <2>7 DEF due
    <3>2. /\ ended[c].how = "pending"
          /\ \E h \in {"answer", "error"} : ended' = [ended EXCEPT ![c] = [by |-> due[c], how |-> h]]
          /\ due' = due
      BY <2>3, <2>7, <3>1
    <3>3. FeesSwitch!Finish(c)
      BY <3>2 DEF FeesSwitch!Finish, due, ended
    <3>. QED  BY <3>3 DEF FeesSwitch!Next
  <2>. QED  BY <2>1, <2>5, <2>6, <2>7 DEF FeesCallerSees
<1>. QED  BY <1>1, <1>2, FeesInvariant, PTL DEF FeesSpec, FeesImplementSwitch, FeesSwitch!Spec
=============================================================================
