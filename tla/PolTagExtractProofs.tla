------------------------- MODULE PolTagExtractProofs -------------------------
(***************************************************************************)
(* Proof that ExtractMinerTagFromBlock meets the spec's contract for      *)
(* every coinbase, whatever outputs and tag bytes it holds.               *)
(***************************************************************************)
EXTENDS PolTagExtract, SequenceTheorems, TLAPS

USE ExtractAssumption

(* The outputs of a coinbase form a sequence of at most MaxOutputs.        *)
LEMMA VoutShape ==
  ASSUME NEW b \in Coinbase
  PROVE  /\ b.vout \in Seq(Outputs)
         /\ Len(b.vout) \in 0..MaxOutputs
         /\ DOMAIN b.vout = 1..Len(b.vout)
  <1>1. PICK n \in 0..MaxOutputs : b.vout \in [1..n -> Outputs]
    BY DEF Coinbase
  <1>2. b.vout \in Seq(Outputs)
    BY <1>1, SeqDef
  <1>3. Len(b.vout) \in Nat /\ DOMAIN b.vout = 1..Len(b.vout)
    BY <1>2, LenProperties
  <1>4. Len(b.vout) = n
    BY <1>1, <1>3
  <1>5. QED
    BY <1>2, <1>3, <1>4

(* The loop's tests, in their order, are the spec's qualification: the    *)
(* size test before the prefix test only guards the comparison.           *)
LEMMA QualifiesIff ==
  ASSUME NEW o \in Output
  PROVE  Qualifies(o) <=> SpecQualifies(o)
  BY DEF Output, Qualifies, SpecQualifies, TagLens, PrefixLen

(* When output k qualifies and none before it does, the spec's result is  *)
(* k's tag.                                                                *)
LEMMA ExtractFirst ==
  ASSUME NEW b \in Coinbase, b.has_coinbase,
         NEW k \in 1..Len(b.vout), SpecQualifies(b.vout[k]),
         \A j \in 1..(k - 1) : ~SpecQualifies(b.vout[j])
  PROVE  SpecExtract(b) = TagOf(b.vout[k])
  <1> DEFINE Q == {i \in DOMAIN b.vout : SpecQualifies(b.vout[i])}
             c == CHOOSE i \in Q : \A j \in Q : i <= j
  <1>1. DOMAIN b.vout = 1..Len(b.vout) /\ Len(b.vout) \in Nat
    BY VoutShape
  <1>2. k \in Q /\ \A j \in Q : k <= j
    BY <1>1
  <1>3. c \in Q /\ \A j \in Q : c <= j
    BY <1>2
  <1>4. c = k
    BY <1>1, <1>2, <1>3
  <1>5. Q # {}
    BY <1>2
  <1>6. QED
    BY <1>4, <1>5 DEF SpecExtract

(* With no coinbase, or no qualifying output, the spec's result is none.  *)
LEMMA ExtractNone ==
  ASSUME NEW b \in Coinbase,
         ~b.has_coinbase \/ \A j \in 1..Len(b.vout) : ~SpecQualifies(b.vout[j])
  PROVE  SpecExtract(b) = NoTag
  <1>1. DOMAIN b.vout = 1..Len(b.vout)
    BY VoutShape
  <1>2. QED
    BY <1>1 DEF SpecExtract

-----------------------------------------------------------------------------
(* The loop invariant holds when the extractor is called.                 *)
LEMMA InitInv == Init => LoopInv
  <1> SUFFICES ASSUME Init PROVE LoopInv
    OBVIOUS
  <1>1. TypeOK
    BY DEF Init, TypeOK
  <1>2. QED
    BY <1>1 DEF Init, LoopInv, ExtractsFirstQualifying

(* Every step of the extractor keeps the loop invariant.                  *)
LEMMA StepInv == LoopInv /\ [Next]_vars => LoopInv'
  <1> SUFFICES ASSUME LoopInv, [Next]_vars PROVE LoopInv'
    OBVIOUS
  <1>0. /\ block \in Coinbase
        /\ block.vout \in Seq(Outputs)
        /\ Len(block.vout) \in 0..MaxOutputs
        /\ it \in 1..(MaxOutputs + 1)
    BY VoutShape DEF LoopInv, TypeOK
  <1>1. CASE Start
    <2>1. CASE ~block.has_coinbase \/ Len(block.vout) = 0
      <3>1. SpecExtract(block) = NoTag
        BY <1>0, <2>1, ExtractNone
      <3>2. QED
        BY <1>0, <1>1, <2>1, <3>1
           DEF Start, LoopInv, TypeOK, ExtractsFirstQualifying
    <2>2. CASE ~(~block.has_coinbase \/ Len(block.vout) = 0)
      BY <1>0, <1>1, <2>2 DEF Start, LoopInv, TypeOK, ExtractsFirstQualifying
    <2>3. QED
      BY <2>1, <2>2
  <1>2. CASE ScanOutput
    <2> DEFINE o == block.vout[it]
    <2>1. pc = "loop" /\ it \in 1..Len(block.vout)
      BY <1>0, <1>2 DEF ScanOutput
    <2>2. /\ block.has_coinbase
          /\ \A j \in 1..(it - 1) : ~SpecQualifies(block.vout[j])
      BY <2>1 DEF LoopInv
    <2>3. o \in Outputs /\ o \in Output
      BY <1>0, <2>1, ElementOfSeq
    <2>4. CASE Qualifies(o)
      <3>1. SpecQualifies(o)
        BY <2>3, <2>4, QualifiesIff
      <3>2. SpecExtract(block) = TagOf(o)
        BY <1>0, <2>1, <2>2, <3>1, ExtractFirst
      <3>3. pc' = "done" /\ result' = TagOf(o) /\ UNCHANGED <<block, it>>
        BY <1>2, <2>4 DEF ScanOutput
      <3>4. QED
        BY <1>0, <2>3, <3>2, <3>3 DEF LoopInv, TypeOK, ExtractsFirstQualifying
    <2>5. CASE ~Qualifies(o)
      <3>1. ~SpecQualifies(o)
        BY <2>3, <2>5, QualifiesIff
      <3>2. it' = it + 1 /\ UNCHANGED <<block, pc, result>>
        BY <1>2, <2>5 DEF ScanOutput
      <3>3. \A j \in 1..it : ~SpecQualifies(block.vout[j])
        <4>1. TAKE j \in 1..it
        <4>2. CASE j = it
          BY <3>1, <4>2
        <4>3. CASE j \in 1..(it - 1)
          BY <2>2, <4>3
        <4>4. QED
          BY <1>0, <4>2, <4>3
      <3>4. it + 1 \in 1..(MaxOutputs + 1) /\ it + 1 <= Len(block.vout) + 1
        BY <1>0, <2>1
      <3>5. TypeOK'
        BY <3>2, <3>4 DEF LoopInv, TypeOK
      <3>6. (pc = "loop" =>
               /\ block.has_coinbase
               /\ it <= Len(block.vout) + 1
               /\ \A j \in 1..(it - 1) : ~SpecQualifies(block.vout[j]))'
        <4>1. \A j \in 1..(it' - 1) : ~SpecQualifies(block'.vout[j])
          BY <1>0, <2>1, <3>2, <3>3
        <4>2. QED
          BY <2>2, <3>2, <3>4, <4>1
      <3>7. QED
        BY <2>1, <3>2, <3>5, <3>6 DEF LoopInv, ExtractsFirstQualifying
    <2>6. QED
      BY <2>4, <2>5
  <1>3. CASE NoneFound
    <2>1. pc = "loop" /\ it = Len(block.vout) + 1
      BY <1>0, <1>3 DEF NoneFound, LoopInv
    <2>2. \A j \in 1..Len(block.vout) : ~SpecQualifies(block.vout[j])
      BY <2>1 DEF LoopInv
    <2>3. SpecExtract(block) = NoTag
      BY <1>0, <2>2, ExtractNone
    <2>4. QED
      BY <1>3, <2>3 DEF NoneFound, LoopInv, TypeOK, ExtractsFirstQualifying
  <1>4. CASE Returned
    BY <1>4 DEF Returned, vars, LoopInv, TypeOK, ExtractsFirstQualifying
  <1>5. CASE UNCHANGED vars
    BY <1>5 DEF vars, LoopInv, TypeOK, ExtractsFirstQualifying
  <1>6. QED
    BY <1>1, <1>2, <1>3, <1>4, <1>5 DEF Next

(* For every coinbase, ExtractMinerTagFromBlock returns the tag of the    *)
(* first output that is OP_RETURN "MFLEXID" followed by 4, 8 or 12 bytes, *)
(* and std::nullopt when there is no such output or no coinbase: the      *)
(* skipped outputs (other opcodes, failed GetOp, short or foreign pushes, *)
(* other lengths) never end the search early.                             *)
THEOREM ExtractCorrect == Spec => []ExtractsFirstQualifying
  <1>1. LoopInv => ExtractsFirstQualifying
    BY DEF LoopInv
  <1>2. QED
    BY InitInv, StepInv, <1>1, PTL DEF Spec


=============================================================================
