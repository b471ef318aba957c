--------------------------- MODULE PolLevelProofs ---------------------------
(***************************************************************************)
(* The three copies of PolLevelFromPoints compute the spec's level for    *)
(* every score, so the RPC reply, the loyalty page and the overview page *)
(* never show different levels for the same (seen, points).              *)
(***************************************************************************)
EXTENDS PolLevel, TLAPS

(* Above 0 points, rounding up the half of the score gives at least 1.   *)
LEMMA HalfUpPositive ==
  ASSUME NEW p \in Int, p > 0
  PROVE  /\ (p + 1) \div 2 >= 1
         /\ (p + 1) \div 2 \in Int
  BY SMT

(* Clamping the score to 24 before halving changes nothing once the     *)
(* level is clamped to 12: a score above 24 gives a level of at least 12.*)
LEMMA HalfUpAbove24 ==
  ASSUME NEW p \in Int, p > 24
  PROVE  (p + 1) \div 2 >= 12
  BY SMT

(* Every copy agrees with the spec's projection, for every score and    *)
(* both values of seen: the RPC's clamp of the points to 24 first, the   *)
(* loyalty page's clamp of the level afterwards and the overview page's *)
(* min/max nesting are the same function, and its values lie in 0..12.  *)
THEOREM LevelsAgree ==
  ASSUME NEW seen \in BOOLEAN, NEW p \in Int
  PROVE  /\ PolLevelFromPoints(seen, p) = SpecLevel(seen, p)
         /\ QtLevelFromPoints(p, seen) = SpecLevel(seen, p)
         /\ OverviewLevelFromPoints(seen, p) = SpecLevel(seen, p)
         /\ SpecLevel(seen, p) \in 0..12
  <1>1. CASE ~seen \/ p <= 0
    BY <1>1 DEF PolLevelFromPoints, QtLevelFromPoints,
                OverviewLevelFromPoints, SpecLevel
  <1>2. CASE seen /\ p \in 1..24
    <2>1. (p + 1) \div 2 \in 1..12
      BY <1>2, SMT
    <2>2. QED
      BY <1>2, <2>1 DEF PolLevelFromPoints, QtLevelFromPoints,
                        OverviewLevelFromPoints, SpecLevel
  <1>3. CASE seen /\ p > 24
    <2>1. (p + 1) \div 2 >= 12 /\ (p + 1) \div 2 \in Int
      BY <1>3, HalfUpAbove24, HalfUpPositive
    <2>2. (24 + 1) \div 2 = 12
      BY SMT
    <2>3. QED
      BY <1>3, <2>1, <2>2 DEF PolLevelFromPoints, QtLevelFromPoints,
                              OverviewLevelFromPoints, SpecLevel
  <1>4. QED
    BY <1>1, <1>2, <1>3
=============================================================================
