--------------------------- MODULE PolSubsidyProofs ---------------------------
(***************************************************************************)
(* The arithmetic of GetAllowedSubsidy (src/pol/pol.cpp) for every        *)
(* emission value: the bounds and the monotonicity that spec section 4.4  *)
(* promises, with the code's order of truncation (base first, loyal half  *)
(* as the remainder).                                                      *)
(***************************************************************************)
EXTENDS PolSubsidy, TLAPS

(* The allowed subsidy for a given schedule value S, as GetAllowedSubsidy *)
(* computes it from the clamped points.                                    *)
Allowed(S, points) ==
    (S \div 2) + ((S - S \div 2) * Clamp(points)) \div 24

(* AllowedForPoints is Allowed of the height's emission.                  *)
LEMMA AllowedDef ==
  ASSUME NEW points, NEW height
  PROVE  AllowedForPoints(points, height) = Allowed(GetBlockSubsidy(height), points)
  BY DEF AllowedForPoints, Allowed

(* The base half and the loyal remainder are naturals, base <= loyal.     *)
LEMMA HalfBounds ==
  ASSUME NEW S \in Nat
  PROVE  /\ S \div 2 \in Nat
         /\ S - S \div 2 \in Nat
         /\ S \div 2 <= S - S \div 2
  OBVIOUS

(* A tag with no points (unseen, or decayed to zero) is allowed exactly    *)
(* the base subsidy: GetAllowedSubsidy(.., 0) = GetBaseSubsidy.            *)
LEMMA ZeroPointsIsBaseS ==
  ASSUME NEW S \in Nat
  PROVE  Allowed(S, 0) = S \div 2
  BY DEF Allowed, Clamp, MaxPoints

(* At the top score the allowed subsidy is the whole emission, with no     *)
(* rounding loss: the loyal half is the remainder S - S/2, and the bonus   *)
(* multiplies it by 24 before dividing by 24.                              *)
LEMMA FullPointsIsFullS ==
  ASSUME NEW S \in Nat
  PROVE  Allowed(S, 24) = S
  <1>1. Clamp(24) = 24
    BY DEF Clamp, MaxPoints
  <1>2. ((S - S \div 2) * 24) \div 24 = S - S \div 2
    BY HalfBounds
  <1>3. QED
    BY <1>1, <1>2 DEF Allowed

(* The bonus scaled by points: between 0 and the loyal half.               *)
LEMMA BonusBounds ==
  ASSUME NEW L \in Nat, NEW p \in 0..24
  PROVE  (L * p) \div 24 \in 0..L
  <1>1. L * p \in 0..(L * 24)
    BY SMT
  <1>2. QED
    BY <1>1, SMT

(* For every score the allowed subsidy lies between the base subsidy and   *)
(* the full emission: PoL never pays less than the base nor more than the  *)
(* schedule, whatever points the ledger holds.                             *)
LEMMA AllowedBoundsS ==
  ASSUME NEW S \in Nat, NEW points \in Int
  PROVE  /\ S \div 2 <= Allowed(S, points)
         /\ Allowed(S, points) <= S
  <1>1. Clamp(points) \in 0..24
    BY DEF Clamp, MaxPoints
  <1>2. (S - S \div 2) \in Nat
    BY HalfBounds
  <1>3. ((S - S \div 2) * Clamp(points)) \div 24 \in 0..(S - S \div 2)
    BY <1>1, <1>2, BonusBounds
  <1>4. QED
    BY <1>3, HalfBounds DEF Allowed

(* Euclidean division by 24 on the naturals.                               *)
LEMMA DivFacts ==
  ASSUME NEW x \in Nat
  PROVE  /\ x = 24 * (x \div 24) + (x % 24)
         /\ x % 24 \in 0..23
         /\ x \div 24 \in Int
  <1>1. x % 24 \in 0..23
    BY SMT
  <1>2. x \div 24 \in Int
    BY SMT
  <1>3. x = 24 * (x \div 24) + (x % 24)
    BY SMT
  <1>4. QED
    BY <1>1, <1>2, <1>3

(* Division by 24 is monotone on the naturals.                            *)
LEMMA DivMonotone ==
  ASSUME NEW a \in Nat, NEW b \in Nat, a <= b
  PROVE  a \div 24 <= b \div 24
  <1>1. /\ a = 24 * (a \div 24) + (a % 24) /\ a % 24 \in 0..23
        /\ b = 24 * (b \div 24) + (b % 24) /\ b % 24 \in 0..23
        /\ a \div 24 \in Int /\ b \div 24 \in Int
    BY DivFacts
  <1>2. SUFFICES ASSUME a \div 24 > b \div 24 PROVE FALSE
    OBVIOUS
  <1>3. 24 * (a \div 24) >= 24 * (b \div 24) + 24
    BY <1>1, <1>2, SMT
  <1>4. QED
    BY <1>1, <1>3, SMT

(* Scaling by points is monotone.                                          *)
LEMMA BonusMonotone ==
  ASSUME NEW L \in Nat, NEW p \in 0..24, NEW q \in 0..24, p <= q
  PROVE  (L * p) \div 24 <= (L * q) \div 24
  <1>1. L * p \in Nat /\ L * q \in Nat /\ L * p <= L * q
    BY SMT
  <1>2. QED
    BY <1>1, DivMonotone

(* More points never lower the allowed subsidy at a fixed height.          *)
LEMMA AllowedMonotoneS ==
  ASSUME NEW S \in Nat, NEW p \in Int, NEW q \in Int, p <= q
  PROVE  Allowed(S, p) <= Allowed(S, q)
  <1>1. Clamp(p) \in 0..24 /\ Clamp(q) \in 0..24 /\ Clamp(p) <= Clamp(q)
    BY DEF Clamp, MaxPoints
  <1>2. ((S - S \div 2) * Clamp(p)) \div 24 <= ((S - S \div 2) * Clamp(q)) \div 24
    BY <1>1, HalfBounds, BonusMonotone
  <1>3. /\ ((S - S \div 2) * Clamp(p)) \div 24 \in Int
        /\ ((S - S \div 2) * Clamp(q)) \div 24 \in Int
    BY <1>1, HalfBounds, BonusBounds
  <1>4. S \div 2 \in Int
    BY HalfBounds
  <1>5. QED
    BY <1>2, <1>3, <1>4 DEF Allowed

-----------------------------------------------------------------------------
(* The same facts of the code's operators, at any height whose emission   *)
(* is a natural number.                                                    *)

(* GetAllowedSubsidy pays exactly GetBaseSubsidy to a tag with 0 points    *)
(* (never seen, or decayed to 0), and the whole emission GetBlockSubsidy   *)
(* to a tag at the 24-point cap: no rounding loss at the top, because the *)
(* loyal half is taken as the remainder after truncating the base.        *)
THEOREM SubsidyEndpoints ==
  ASSUME NEW h, GetBlockSubsidy(h) \in Nat
  PROVE  /\ AllowedForPoints(0, h) = GetBaseSubsidy(h)
         /\ AllowedForPoints(24, h) = GetBlockSubsidy(h)
  BY ZeroPointsIsBaseS, FullPointsIsFullS, AllowedDef DEF GetBaseSubsidy

(* Whatever score the ledger holds, GetAllowedSubsidy lies between        *)
(* GetBaseSubsidy and GetBlockSubsidy, and a higher score never yields a   *)
(* lower allowed subsidy at the same height.                               *)
THEOREM SubsidyBoundedMonotone ==
  ASSUME NEW h, GetBlockSubsidy(h) \in Nat
  PROVE  /\ \A p \in Int : /\ GetBaseSubsidy(h) <= AllowedForPoints(p, h)
                           /\ AllowedForPoints(p, h) <= GetBlockSubsidy(h)
         /\ \A p, q \in Int : p <= q =>
                AllowedForPoints(p, h) <= AllowedForPoints(q, h)
  <1>1. \A p \in Int : /\ GetBaseSubsidy(h) <= AllowedForPoints(p, h)
                       /\ AllowedForPoints(p, h) <= GetBlockSubsidy(h)
    BY AllowedBoundsS, AllowedDef DEF GetBaseSubsidy
  <1>2. \A p, q \in Int : p <= q =>
            AllowedForPoints(p, h) <= AllowedForPoints(q, h)
    BY AllowedMonotoneS, AllowedDef
  <1>3. QED
    BY <1>1, <1>2


=============================================================================
