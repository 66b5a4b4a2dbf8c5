----------------------------- MODULE MCExtension -----------------------------
(* Extension for TLC: two requests of one page.                            *)
EXTENDS Extension, TLC

CONSTANTS p1, r1, r2

MCPageOf == r1 :> p1 @@ r2 :> p1

(* The required one written shorter, an older one, a prerelease.           *)
MCVersions  == {<<0, 1>>, <<0, 0, 9>>, <<0, 1, NaN>>}
MCRequired  == <<0, 1, 0>>
=============================================================================
