----------------------------- MODULE PolSubsidy -----------------------------
(***************************************************************************)
(* The subsidy calculator of src/pol/pol.cpp: GetBaseSubsidy and the      *)
(* arithmetic of GetAllowedSubsidy.  The node's emission schedule         *)
(* GetBlockSubsidy (validation code outside this snapshot) is a parameter *)
(* of the module: the engine consumes it and never looks inside.          *)
(***************************************************************************)
EXTENDS Integers, PolLedger

CONSTANT GetBlockSubsidy(_)   \* GetBlockSubsidy(height, consensus), satoshis

(* GetBaseSubsidy(height, consensus): half the schedule, truncated.        *)
GetBaseSubsidy(height) == GetBlockSubsidy(height) \div 2

(* GetAllowedSubsidy with the points it read already in hand: base plus   *)
(* the loyal half scaled by points/24, the base truncated first and the   *)
(* loyal half taken as the remainder.                                     *)
AllowedForPoints(points, height) ==
    LET S       == GetBlockSubsidy(height)
        S_base  == S \div 2
        S_loyal == S - S_base
    IN  S_base + (S_loyal * Clamp(points)) \div 24

=============================================================================
