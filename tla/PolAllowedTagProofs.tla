------------------------- MODULE PolAllowedTagProofs -------------------------
(***************************************************************************)
(* Proofs about getpolallowedtag (src/rpc/pol.cpp) over the engine.        *)
(* Every call that reaches GetAllowedSubsidy, and every reply, has a      *)
(* height of 0 or more, for every tip, IntMax and LLongMax, whatever      *)
(* string, null or omitted height the clients send.                       *)
(***************************************************************************)
EXTENDS PolAllowedTag, TLAPS

(* The inductive invariant: the chain is a sequence, so the default       *)
(* height tip + 1 is positive, and a call past its parsing step holds a   *)
(* height in Nat.                                                          *)
AtagHeights ==
    /\ chain \in Seq(Block)
    /\ DOMAIN atag = Callers
    /\ \A c \in Callers : atag[c].pc \in {"subsidy", "done"} => atag[c].height \in Nat

(* What ParseHeightFlexible accepts from a parameter that is not a JSON   *)
(* number is in Nat: the string branch checks 0..INT_MAX.                 *)
LEMMA ParseNonNegative ==
    ASSUME NEW hp \in HeightParam,
           hp.type # "num",
           ParseHeightFlexible(hp).ok
    PROVE  ParseHeightFlexible(hp).val \in Nat
  BY RpcAssumption DEF ParseHeightFlexible, Ok, Err, HeightParam

(* Every engine step keeps the chain a sequence of blocks.                 *)
LEMMA ChainSeq ==
    ASSUME chain \in Seq(Block),
           \/ \E b \in Block : ConnectBlock(b)
           \/ DisconnectTip
           \/ RebuildScan
           \/ RebuildDone
           \/ \E r \in Readers : RpcStatus(r) \/ RpcSubsidy(r)
           \/ RestartAndRebuild
           \/ \E r \in Readers, t \in Tags, h \in Int : RpcBegin(r, t, h)
    PROVE  chain' \in Seq(Block)
  <1>1. CASE \E b \in Block : ConnectBlock(b)
    BY <1>1 DEF ConnectBlock
  <1>2. CASE DisconnectTip
    BY <1>2 DEF DisconnectTip, Tip
  <1>3. CASE RebuildScan \/ RebuildDone \/ (\E r \in Readers : RpcStatus(r) \/ RpcSubsidy(r))
    BY <1>3 DEF RebuildScan, RebuildDone, RpcStatus, RpcSubsidy
  <1>4. CASE RestartAndRebuild \/ \E r \in Readers, t \in Tags, h \in Int : RpcBegin(r, t, h)
    BY <1>4 DEF RestartAndRebuild, RpcBegin
  <1>5. QED
    BY <1>1, <1>2, <1>3, <1>4

LEMMA HeightsInit == AtagInit => AtagHeights
  BY DEF AtagInit, Init, AtagHeights, AtagIdle, AtagRecord

LEMMA HeightsStep ==
    ASSUME AllowedTagAssumption, AtagHeights, [AtagNext]_at_vars
    PROVE  AtagHeights'
  <1> USE DEF AtagHeights
  <1>1. CASE /\ \/ \E b \in Block : ConnectBlock(b)
                \/ DisconnectTip
                \/ RebuildScan
                \/ RebuildDone
                \/ \E r \in Readers : RpcStatus(r) \/ RpcSubsidy(r)
             /\ UNCHANGED atag
    BY <1>1, ChainSeq
  <1>2. CASE AtagRestart
    BY <1>2, ChainSeq DEF AtagRestart, AtagIdle, AtagRecord
  <1>3. CASE \E r \in Readers, t \in Tags, hp \in HeightParams \cup {Absent} :
               AddressStatusBegin(r, t, hp)
    <2>1. PICK r \in Readers, t \in Tags, hp \in HeightParams \cup {Absent} :
                 AddressStatusBegin(r, t, hp)
      BY <1>3
    <2> DEFINE ph == IF hp = Absent \/ hp.type = "null" THEN Ok(Tip)
                     ELSE ParseHeightFlexible(hp)
    <2>2. ph.val \in Int
      <3>1. CASE hp = Absent \/ hp.type = "null"
        BY <3>1 DEF Ok, Tip
      <3>2. CASE ~(hp = Absent \/ hp.type = "null")
        <4>1. hp \in HeightParam
          BY <3>2, AllowedTagAssumption
        <4>2. QED
          BY <3>2, <4>1 DEF ParseHeightFlexible, Ok, Err, HeightParam
      <3>3. QED
        BY <3>1, <3>2
    <2>3. RpcBegin(r, t, IF ph.val < 0 THEN 0 ELSE ph.val)
      BY <2>1 DEF AddressStatusBegin
    <2>4. \E h \in Int : RpcBegin(r, t, h)
      BY <2>2, <2>3
    <2>5. QED
      BY <2>1, <2>4, ChainSeq DEF AddressStatusBegin
  <1>4. CASE \E c \in Callers, s \in TagParams, hp \in HeightParams \cup {Absent} :
               AllowedTagBegin(c, s, hp)
    <2>1. PICK c \in Callers, s \in TagParams, hp \in HeightParams \cup {Absent} :
                 AllowedTagBegin(c, s, hp)
      BY <1>4
    <2> DEFINE pt == ParseMinerTagHex(s)
               ph == IF hp = Absent THEN Ok(Tip + 1) ELSE ParseHeightFlexible(hp)
    <2>2. ph.ok => ph.val \in Nat
      <3>1. CASE hp = Absent
        BY <3>1 DEF Ok, Tip
      <3>2. CASE hp # Absent
        <4>1. hp \in HeightParam /\ hp.type # "num"
          BY <3>2, AllowedTagAssumption
        <4>2. ParseHeightFlexible(hp).ok => ParseHeightFlexible(hp).val \in Nat
          BY <4>1, ParseNonNegative
        <4>3. QED
          BY <3>2, <4>2
      <3>3. QED
        BY <3>1, <3>2
    <2>3. atag' = [atag EXCEPT ![c] =
                     IF pt.ok /\ ph.ok THEN AtagRecord("subsidy", pt.val, Tip, ph.val, 0)
                     ELSE AtagRecord("error", NoTag, 0, 0, 0)]
      BY <2>1 DEF AllowedTagBegin
    <2>4. UNCHANGED vars
      BY <2>1 DEF AllowedTagBegin
    <2>5. QED
      BY <2>2, <2>3, <2>4 DEF vars, AtagRecord
  <1>5. CASE \E c \in Callers : AllowedTagSubsidy(c)
    BY <1>5 DEF AllowedTagSubsidy, AtagRecord, vars
  <1>6. CASE UNCHANGED at_vars
    BY <1>6 DEF at_vars, vars
  <1>7. QED
    BY <1>1, <1>2, <1>3, <1>4, <1>5, <1>6 DEF AtagNext

(* getpolallowedtag's heights are chain heights: the string branch of    *)
(* ParseHeightFlexible, the default tip + 1 and the two steps around      *)
(* GetAllowedSubsidy never produce or reach a negative height, through    *)
(* connects, reorgs and restarts.                                          *)
THEOREM HeightValid == AtagSpec => []AllowedTagHeightValid
  <1>1. AtagInit => AtagHeights
    BY HeightsInit
  <1>2. AtagHeights /\ [AtagNext]_at_vars => AtagHeights'
    BY HeightsStep, AllowedTagAssumption
  <1>3. AtagHeights => AllowedTagHeightValid
    BY DEF AtagHeights, AllowedTagHeightValid
  <1>4. QED
    BY <1>1, <1>2, <1>3, PTL DEF AtagSpec
=============================================================================
