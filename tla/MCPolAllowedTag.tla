--------------------------- MODULE MCPolAllowedTag ---------------------------
(* Small instances of the two RPC handlers with their parameters, for TLC. *)
EXTENDS PolAllowedTag

CONSTANTS t1, t2, r1, c1, absent

MCTags == {t1, t2}
MCReaders == {r1}
MCCallers == {c1}

(* Tag parameters: valid 12- and 4-byte tags, a wrong length, a non-hex.  *)
MCTagParams ==
    {[len |-> 24, hex |-> TRUE, tag |-> t1], [len |-> 8, hex |-> TRUE, tag |-> t2],
     [len |-> 10, hex |-> TRUE, tag |-> t1], [len |-> 16, hex |-> FALSE, tag |-> t2]}

(* Height parameters, with int and long long scaled to 2 and 4: strings  *)
(* below 0, within range, above INT_MAX, beyond stoll, with trailing      *)
(* characters, unparseable and empty; null.                               *)
MCHeightParams ==
    {[type |-> "str", text |-> "int", value |-> v] : v \in {-1, 2, 3, 5}}
    \cup {[type |-> "str", text |-> x, value |-> 1] : x \in {"trailing", "garbage", "empty"}}
    \cup {[type |-> "null", text |-> "empty", value |-> 0]}

(* The halving schedule of MCPolEngine, with C++ division, which         *)
(* truncates toward zero, so that it is also defined at a negative height *)
(* should one reach GetAllowedSubsidy.  A negative halving count is an    *)
(* undefined shift in GetBlockSubsidy; on x86-64 the count is masked to   *)
(* six bits and any reward shifts to 0.                                   *)
MCBlockSubsidy(height) ==
    LET halvings == IF height >= 0 THEN height \div 3 ELSE -((-height) \div 3) IN
    IF halvings >= 64 \/ halvings < 0 THEN 0 ELSE 100 \div (2 ^ halvings)

=============================================================================
