---------------------------- MODULE PolTagExtract ----------------------------
(***************************************************************************)
(* ExtractMinerTagFromBlock (src/pol/pol.cpp) as the loop it is: the two  *)
(* early returns on a missing coinbase or an empty vout, then one step    *)
(* per output, each either a `continue` or the `return` of the tag.  The  *)
(* scripts and the tag are those of PolTagContract.                       *)
(***************************************************************************)
EXTENDS PolTagContract

VARIABLES
    block,   \* the argument
    it,      \* the index of the output the for-loop is at
    pc,      \* "start", "loop" or "done"
    result   \* the returned optional tag, once pc = "done"

vars == <<block, it, pc, result>>

Init ==
    /\ block \in Coinbase
    /\ it = 1
    /\ pc = "start"
    /\ result = NoTag

(* The checks before the loop: no transaction, a null coinbase, no outputs. *)
Start ==
    /\ pc = "start"
    /\ IF ~block.has_coinbase \/ Len(block.vout) = 0
       THEN pc' = "done" /\ result' = NoTag
       ELSE pc' = "loop" /\ UNCHANGED result
    /\ UNCHANGED <<block, it>>

(* The tests of one loop iteration, in the code's order; an output passes *)
(* them all exactly when its tag is returned.                             *)
Qualifies(o) ==
    /\ o.op1 = "OP_RETURN"
    /\ o.op2 = "push"
    /\ o.size >= PrefixLen + 4
    /\ o.prefix
    /\ o.size - PrefixLen \in TagLens

(* Mutant: a failing OP_RETURN output ends the search instead of being    *)
(* skipped (`break` for `continue`).                                       *)
ScanOutputBreak ==
    /\ pc = "loop"
    /\ it <= Len(block.vout)
    /\ \/ /\ Qualifies(block.vout[it])
          /\ pc' = "done" /\ result' = TagOf(block.vout[it])
          /\ UNCHANGED it
       \/ /\ ~Qualifies(block.vout[it])
          /\ block.vout[it].op1 = "OP_RETURN"
          /\ pc' = "done" /\ result' = NoTag
          /\ UNCHANGED it
       \/ /\ ~Qualifies(block.vout[it])
          /\ block.vout[it].op1 # "OP_RETURN"
          /\ it' = it + 1
          /\ UNCHANGED <<pc, result>>
    /\ UNCHANGED block

(* One iteration: return the tag of a qualifying output, else continue.    *)
ScanOutput ==
    /\ pc = "loop"
    /\ it <= Len(block.vout)
    /\ \/ /\ Qualifies(block.vout[it])
          /\ pc' = "done" /\ result' = TagOf(block.vout[it])
          /\ UNCHANGED it
       \/ /\ ~Qualifies(block.vout[it])
          /\ it' = it + 1
          /\ UNCHANGED <<pc, result>>
    /\ UNCHANGED block

(* The loop ran out of outputs: return std::nullopt.                       *)
NoneFound ==
    /\ pc = "loop"
    /\ it > Len(block.vout)
    /\ pc' = "done"
    /\ result' = NoTag
    /\ UNCHANGED <<block, it>>

(* The extractor has returned; the caller goes on with its result.        *)
Returned ==
    /\ pc = "done"
    /\ UNCHANGED vars

Next == Start \/ ScanOutput \/ NoneFound \/ Returned

Spec == Init /\ [][Next]_vars

-----------------------------------------------------------------------------
TypeOK ==
    /\ block \in Coinbase
    /\ it \in 1..(MaxOutputs + 1)
    /\ pc \in {"start", "loop", "done"}
    /\ result \in {NoTag} \cup {TagOf(o) : o \in Outputs}

(* ExtractMinerTagFromBlock returns exactly the spec's tag: whenever the  *)
(* loop has returned, its result is the tag of the first qualifying       *)
(* output of the coinbase, or std::nullopt when no output qualifies.      *)
ExtractsFirstQualifying == pc = "done" => result = SpecExtract(block)

(* The loop invariant: while the loop runs the coinbase exists, the index *)
(* is at most one past the last output, and no output before it qualifies. *)
LoopInv ==
    /\ TypeOK
    /\ pc = "start" => it = 1
    /\ pc = "loop" =>
          /\ block.has_coinbase
          /\ it <= Len(block.vout) + 1
          /\ \A j \in 1..(it - 1) : ~SpecQualifies(block.vout[j])
    /\ ExtractsFirstQualifying

=============================================================================
