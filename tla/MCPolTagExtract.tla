--------------------------- MODULE MCPolTagExtract ---------------------------
(* Representative coinbase scripts for ExtractMinerTagFromBlock.           *)
EXTENDS PolTagExtract

CONSTANTS a, b

MCTagBytes == {a, b}

MCOutputs ==
    { \* an empty script: the first GetOp fails
      [op1 |-> "none", op2 |-> "none", size |-> 0, prefix |-> FALSE, tag |-> a],
      \* a payout script (first opcode not OP_RETURN)
      [op1 |-> "other", op2 |-> "push", size |-> 20, prefix |-> FALSE, tag |-> a],
      \* a bare OP_RETURN: the second GetOp fails
      [op1 |-> "OP_RETURN", op2 |-> "none", size |-> 0, prefix |-> FALSE, tag |-> a],
      \* the witness commitment: a 36-byte push without the prefix
      [op1 |-> "OP_RETURN", op2 |-> "push", size |-> 36, prefix |-> FALSE, tag |-> a],
      \* "MFLEXID" with 12, 4 and 8 tag bytes
      [op1 |-> "OP_RETURN", op2 |-> "push", size |-> 19, prefix |-> TRUE, tag |-> a],
      [op1 |-> "OP_RETURN", op2 |-> "push", size |-> 11, prefix |-> TRUE, tag |-> b],
      [op1 |-> "OP_RETURN", op2 |-> "push", size |-> 15, prefix |-> TRUE, tag |-> b],
      \* "MFLEXID" with 5 and with 2 trailing bytes
      [op1 |-> "OP_RETURN", op2 |-> "push", size |-> 12, prefix |-> TRUE, tag |-> a],
      [op1 |-> "OP_RETURN", op2 |-> "push", size |-> 9, prefix |-> TRUE, tag |-> b] }

=============================================================================
