---------------------------- MODULE PolTagContract ----------------------------
(***************************************************************************)
(* What ExtractMinerTagFromBlock (src/pol/pol.cpp) reads and returns: the *)
(* abstracted scriptPubKeys of a coinbase, the optional tag, and the      *)
(* spec's contract for the result (section 4.1).                          *)
(*                                                                         *)
(* An output's scriptPubKey is abstracted to what the loop reads from it: *)
(* the result of the first GetOp (no opcode, OP_RETURN, or another        *)
(* opcode), the result of the second GetOp (none, or a push of `size`     *)
(* bytes; a non-push opcode gives an empty push), whether the push begins *)
(* with the 7 bytes "MFLEXID", and which bytes follow them (`tag`).  The   *)
(* extracted tag is those trailing bytes: their identity and length.       *)
(***************************************************************************)
EXTENDS Integers, Sequences

CONSTANTS
    TagBytes,    \* the byte strings that may follow the prefix
    Outputs,     \* the scriptPubKeys the coinbase outputs are drawn from
    MaxOutputs   \* bound on the coinbase's vout.size()

(* kMflexId.size() and the accepted tag lengths.                           *)
PrefixLen == 7
TagLens == {4, 8, 12}

Output == [op1 : {"none", "OP_RETURN", "other"}, op2 : {"none", "push"},
           size : Nat, prefix : BOOLEAN, tag : TagBytes]

ASSUME ExtractAssumption ==
    /\ Outputs \subseteq Output
    /\ \A o \in Outputs : o.prefix => o.size >= PrefixLen
    /\ MaxOutputs \in Nat

(* A block as the extractor sees it: whether vtx[0] exists and is non-null, *)
(* and the outputs of that coinbase.                                       *)
Coinbase == [has_coinbase : BOOLEAN,
             vout : UNION {[1..n -> Outputs] : n \in 0..MaxOutputs}]

(* std::nullopt, and the vector of bytes after the prefix.                *)
NoTag == [found |-> FALSE]
TagOf(o) == [found |-> TRUE, bytes |-> o.tag, len |-> o.size - PrefixLen]

(* The spec's contract of the extractor (section 4.1): an output          *)
(* qualifies when its script is OP_RETURN followed by a push of "MFLEXID" *)
(* and exactly 4, 8 or 12 more bytes; the result is the tag of the first  *)
(* qualifying output of the coinbase, and nothing when there is none, no  *)
(* coinbase, or no output.                                                *)
SpecQualifies(o) ==
    /\ o.op1 = "OP_RETURN" /\ o.op2 = "push" /\ o.prefix
    /\ o.size - PrefixLen \in {4, 8, 12}
SpecExtract(b) ==
    LET Q == {i \in DOMAIN b.vout : SpecQualifies(b.vout[i])} IN
    IF ~b.has_coinbase \/ Q = {} THEN NoTag
    ELSE TagOf(b.vout[CHOOSE i \in Q : \A j \in Q : i <= j])

=============================================================================
