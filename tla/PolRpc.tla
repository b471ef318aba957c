------------------------------- MODULE PolRpc -------------------------------
(***************************************************************************)
(* The parameter parsers of the RPC handlers in src/rpc/pol.cpp.  A JSON  *)
(* parameter is reduced to what the parser reads from it: its type, the   *)
(* shape of its text and                                                  *)
(* the integer it denotes.  The integer widths are constants, so that a   *)
(* model can scale int and long long down while keeping their order.     *)
(***************************************************************************)
EXTENDS Integers

CONSTANTS
    IntMax,    \* std::numeric_limits<int>::max()
    LLongMax   \* the largest value std::stoll returns

ASSUME RpcAssumption ==
    /\ IntMax \in Nat
    /\ LLongMax \in Nat
    /\ IntMax <= LLongMax

(* A parameter as ParseHeightFlexible sees it.  For a JSON number, text   *)
(* is "int" for an integral literal and "frac" for one with a fraction or *)
(* an exponent.  For a string, "int" is a whole optionally signed decimal *)
(* (std::stoll consumes it all), "trailing" a decimal followed by other   *)
(* characters, "garbage" one stoll cannot start on, "empty" the empty     *)
(* string.  value is the integer the digits denote.                       *)
HeightParam == [type : {"num", "str", "null"},
                text : {"int", "frac", "trailing", "garbage", "empty"},
                value : Int]

(* The outcome of a parser: a value, or the error the handler throws.     *)
(* "invalid" is RPC_INVALID_PARAMETER; "misc" is the std::runtime_error   *)
(* UniValue::getInt throws, which the server reports as a misc error.    *)
Ok(x) == [ok |-> TRUE, val |-> x, err |-> "none"]
Err(e) == [ok |-> FALSE, val |-> 0, err |-> e]

(* Mutant: the string branch without its lower bound.                      *)
ParseHeightNoSign(v) ==
    CASE v.type = "num" ->
            IF v.text = "int" /\ v.value \in -(IntMax + 1)..IntMax
            THEN Ok(v.value) ELSE Err("misc")
      [] v.type = "str" ->
            IF /\ v.text = "int"
               /\ v.value \in -(LLongMax + 1)..LLongMax
               /\ v.value <= IntMax
            THEN Ok(v.value) ELSE Err("invalid")
      [] OTHER -> Err("invalid")

(* ParseHeightFlexible: a number goes through getInt<int>, which accepts  *)
(* any integral value an int holds, negative ones included; a string must *)
(* be non-empty, fully consumed by std::stoll, and within 0..INT_MAX.     *)
ParseHeightFlexible(v) ==
    CASE v.type = "num" ->
            IF v.text = "int" /\ v.value \in -(IntMax + 1)..IntMax
            THEN Ok(v.value) ELSE Err("misc")
      [] v.type = "str" ->
            IF /\ v.text = "int"
               /\ v.value \in -(LLongMax + 1)..LLongMax
               /\ v.value \in 0..IntMax
            THEN Ok(v.value) ELSE Err("invalid")
      [] OTHER -> Err("invalid")

(* A miner_tag_hex parameter: its length in characters, whether IsHex     *)
(* accepts it, and the bytes ParseHex makes of it.                        *)
TagHexParam(TagSet) == [len : Nat, hex : BOOLEAN, tag : TagSet]

(* ParseMinerTagHex: 8, 16 or 24 hex characters, else invalid parameter.  *)
ParseMinerTagHex(s) ==
    IF s.len \in {8, 16, 24} /\ s.hex THEN Ok(s.tag) ELSE Err("invalid")

=============================================================================
