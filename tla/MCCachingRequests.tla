------------------------- MODULE MCCachingRequests -------------------------
(***************************************************************************)
(* Instance of CachingRequests for TLC.  Two amounts: a quote of 3 sees    *)
(* only its own flag, a quote of 2 the flags of both.                      *)
(***************************************************************************)
EXTENDS CachingRequests

MCAmount == {2, 3}

=============================================================================
