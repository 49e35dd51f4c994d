---------------------------- MODULE MCWorldDelta ----------------------------
(***************************************************************************)
(* Small instances of WorldDelta.  Ranges are three to five numbers wide,  *)
(* so that two changes, each legal alone, can leave them.                  *)
(***************************************************************************)
EXTENDS WorldDelta, TLC

CONSTANTS n1, here, there, calm, angry, alarm, standing, trust, oath

AlarmMax == alarm :> 2
AlarmStart == alarm :> 1
NoClocks == <<>>

AllMeters == {standing, trust, oath}
MeterLo == standing :> -2 @@ trust :> -2 @@ oath :> 0
MeterHi == standing :> 2 @@ trust :> 2 @@ oath :> 2
MeterStart == standing :> 1 @@ trust :> 0 @@ oath :> 0

Steps == {-3, -1, 1, 2}

Alike == Permutations({here, there}) \union Permutations({calm, angry})

=============================================================================
