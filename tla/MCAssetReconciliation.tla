----------------------- MODULE MCAssetReconciliation -----------------------
(***************************************************************************)
(* Reconcilers that meet on one asset.  The inputs publish at creation,    *)
(* move the head's policy to a surface the published version does not      *)
(* allow (which hides it) and back, and withdraw the asset.                *)
(***************************************************************************)
EXTENDS AssetReconciliation

CONSTANTS handbook, web, agent, text, worker, request, otherRequest

OneAsset == {handbook}
TwoSurfaces == {web, agent}
OneContent == {text}
OneWorker == {worker}
OneRequest == {request}
TwoRequests == {request, otherRequest}

Draft(lifecycle, status, surface) ==
    [lifecycle |-> lifecycle, status |-> status,
     surfaces |-> {surface}, content |-> text]

PolicyInputs == {Draft("active", "approved", web), Draft("active", "draft", agent),
                 Draft("withdrawn", "draft", web)}

PlainInputs == {Draft("active", "approved", web), Draft("withdrawn", "draft", web)}
=============================================================================
