--------------------------- MODULE MCOrderScanning ---------------------------
(***************************************************************************)
(* Small instances of OrderScanning for TLC.                               *)
(***************************************************************************)
EXTENDS OrderScanning, TLC

CONSTANTS a1, a2, w1, w2

TwoActors == {w1, w2}
ActorSymmetry == Permutations(TwoActors)
TwoAssets == {a1, a2}
OneAsset == {a1}
MixedQty == (a1 :> 2 @@ a2 :> 1)

\* Bound: what follows the second disturbance of a behaviour, or an order that
\* staff sent out without its scans, is not explored.
FewDisturbed == Cardinality(disturbed) <= 1 /\ ~skipped
=============================================================================
