---------------------------- MODULE MCRpcGateway ----------------------------
(* Instances of RpcGateway for TLC: one provider of every kind of weight.   *)
EXTENDS RpcGateway, TLC

CONSTANTS never, main, fallback1, fallback2, s1, s2, s3

AllProviders == {never, main, fallback1, fallback2}

TwoProviders == {main, fallback1}

MCPosition(providers) ==
  [p \in providers |-> CASE p = never -> 0
                         [] p = fallback1 -> 1
                         [] p = fallback2 -> 2
                         [] p = main -> 3]

MCWeight(providers) ==
  [p \in providers |-> CASE p = never -> NEVER
                         [] p \in {fallback1, fallback2} -> AS_FALLBACK
                         [] p = main -> 2]

AllPositions == MCPosition(AllProviders)
AllWeights == MCWeight(AllProviders)
TwoPositions == MCPosition(TwoProviders)
TwoWeights == MCWeight(TwoProviders)

\* Sessions are interchangeable.
SessionSymmetry == Permutations({s1, s2, s3})
=============================================================================
