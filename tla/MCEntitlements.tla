--------------------------- MODULE MCEntitlements ---------------------------
(***************************************************************************)
(* One feature that the larger package or the add-on brings.               *)
(***************************************************************************)
EXTENDS Entitlements, TLC

CONSTANTS basic, pro, addon, f1, a, w1, w2

MCPackageFeatures == basic :> {} @@ pro :> {f1}
MCAddonFeatures == addon :> {f1}
MCEditPackages == {pro, NoPackage}
MCProcessOf == w1 :> a @@ w2 :> a
=============================================================================
