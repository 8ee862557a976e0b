---------------------------- MODULE QuotePathProofs ---------------------------
(***************************************************************************)
(* The parts of the quote path, put together.  Each has variables of its   *)
(* own, so a behaviour of the whole is a behaviour of each part, and what  *)
(* is proved of a part holds in the whole.                                 *)
(***************************************************************************)
EXTENDS MCQuotePath, PoolsProofs, SwitchProofs, InstanceProofs

\* A behaviour of the quote path is one of each of its parts.
THEOREM PartsImplemented ==
  MCSpec => /\ PoolsSpec /\ FeesSpec /\ QuoterSpec /\ BatchesSpec
            /\ FilesSpec /\ V4Spec /\ RequestsSpec /\ ProvidersSpec
<1>1. MCInit => /\ InitPools /\ InitFees /\ InitQuoting /\ InitBatches
                /\ InitFiles /\ InitV4 /\ InitRequests /\ InitProviders
  BY DEF MCInit
<1>2. [MCNext]_allVars =>
        /\ [PoolsNext]_poolsVars /\ [FeesNext]_feesVars /\ [QuoterNext]_quoterVars
        /\ [BatchesNext]_batchVars /\ [FilesNext]_filesVars /\ [V4Next]_v4Vars
        /\ [RequestsNext]_requestVars /\ [ProvidersNext]_providersVars
  BY DEF MCNext, allVars
<1>. QED  BY <1>1, <1>2, PTL
          DEF MCSpec, PoolsSpec, FeesSpec, QuoterSpec, BatchesSpec, FilesSpec, V4Spec,
              RequestsSpec, ProvidersSpec

\* The types of all parts at once: calls, tables, files, quoters and gateways.
THEOREM AllTyped == MCSpec => []TypesOK
<1>1. PoolsTypeOK /\ FeesTypeOK /\ QuoterTypeOK /\ FilesTypeOK /\ ProvidersTypeOK => TypesOK
  BY DEF TypesOK
<1>. QED  BY PartsImplemented, PoolsTypeCorrect, FeesTypeCorrect, QuoterTypeCorrect,
             FilesTypeCorrect, ProvidersTyped, <1>1, PTL
=============================================================================
