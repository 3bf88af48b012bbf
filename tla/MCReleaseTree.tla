--------------------------- MODULE MCReleaseTree ---------------------------
(***************************************************************************)
(* Three reports, two of one round, and the fallback release, whose round  *)
(* cannot be told; five results, two of them of different configurations   *)
(* in one run, one of which only its case names one, two of the service.   *)
(***************************************************************************)
EXTENDS ReleaseTree, TLC

CONSTANTS r1, r2, r3, r4, r5, x1, x2, x3, fallback, u1, u2, u3, u4, w1, w2, v1, v2, hrk, hdr, cA, cB

MCRunOf    == r1 :> u1 @@ r2 :> u1 @@ r3 :> u2 @@ r4 :> u3 @@ r5 :> u4
MCReportOf == u1 :> x1 @@ u2 :> x2 @@ u3 :> x3 @@ u4 :> fallback
MCRoundOf  == x1 :> w1 @@ x2 :> w1 @@ x3 :> w2 @@ fallback :> None
MCNumber   == x1 :> 1 @@ x2 :> 2 @@ x3 :> 1 @@ fallback :> 99
MCComboOf  == r1 :> cA @@ r2 :> cB @@ r3 :> cA @@ r4 :> None @@ r5 :> None
MCCaseComboOf == r1 :> cA @@ r2 :> cA @@ r3 :> cA @@ r4 :> None @@ r5 :> cB
MCDeviceOf == r1 :> hrk @@ r2 :> hdr @@ r3 :> hdr @@ r4 :> hrk @@ r5 :> hrk
MCDevicesOf == cA :> {hrk, hdr} @@ cB :> {hdr}
\* The version of the one device differs between the rounds, that of the other does not.
MCVersion  == w1 :> (hrk :> v1 @@ hdr :> v2) @@ w2 :> (hrk :> v1)
=============================================================================
