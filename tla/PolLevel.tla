------------------------------ MODULE PolLevel ------------------------------
(***************************************************************************)
(* The three copies of PolLevelFromPoints: the RPC handler's               *)
(* (src/rpc/pol.cpp), the loyalty page's (src/qt/loyalitypage.cpp, which *)
(* takes its arguments in the other order) and the overview page's, and  *)
(* the spec's level projection they must all compute (section 4.5).      *)
(* The points are mathematical integers: every caller passes a score the *)
(* ledger clamped to 0..24, so (points + 1) never overflows an int.       *)
(***************************************************************************)
EXTENDS Integers

(* PolLevelFromPoints(seen, points) of src/rpc/pol.cpp.                     *)
PolLevelFromPoints(seen, points) ==
    IF ~seen \/ points <= 0 THEN 0
    ELSE LET p     == IF points > 24 THEN 24 ELSE points
             level == (p + 1) \div 2
         IN  IF level > 12 THEN 12 ELSE IF level < 0 THEN 0 ELSE level

(* PolLevelFromPoints(points, seen) of src/qt/loyalitypage.cpp: no clamp   *)
(* of the points, the level clamped after the division.                   *)
QtLevelFromPoints(points, seen) ==
    IF ~seen THEN 0
    ELSE IF points <= 0 THEN 0
    ELSE LET lvl == (points + 1) \div 2
         IN  IF lvl < 0 THEN 0 ELSE IF lvl > 12 THEN 12 ELSE lvl

(* PolLevelFromPoints(seen, points) of the overview page.                  *)
OverviewLevelFromPoints(seen, points) ==
    IF ~seen \/ points <= 0 THEN 0
    ELSE LET p == IF points > 24 THEN 24 ELSE points
             q == (p + 1) \div 2
         IN  IF 12 < (IF 0 > q THEN 0 ELSE q) THEN 12
             ELSE IF 0 > q THEN 0 ELSE q

(* The spec's level projection (section 4.5): 0 when unseen or without   *)
(* points, otherwise points/2 rounded up, clamped to 1..12.               *)
SpecLevel(seen, points) ==
    IF ~seen \/ points <= 0 THEN 0
    ELSE LET up == (points + 1) \div 2
         IN  IF up < 1 THEN 1 ELSE IF up > 12 THEN 12 ELSE up

=============================================================================
