--------------------------- MODULE PolEngineProofs ---------------------------
(***************************************************************************)
(* Proofs about the PoL engine, for every value of the constants: the    *)
(* engine's state keeps its types, and, when the validation pipeline     *)
(* never disconnects a block, every ledger record stays well formed.      *)
(***************************************************************************)
EXTENDS PolEngine, TLAPS

USE LedgerAssumption, EngineAssumption

-----------------------------------------------------------------------------
(* Lemmas about the ledger operators.                                      *)

(* The clamp of OnConnectBlock lands in 0..24.                            *)
LEMMA ClampRange == ASSUME NEW x \in Int PROVE Clamp(x) \in 0..MaxPoints
  BY DEF Clamp, MaxPoints

(* A default-constructed MinerTagStatus is a status record.               *)
LEMMA DefaultType == DefaultStatus \in Status
  BY DEF DefaultStatus, Status, MaxPoints

(* MonthIndex returns an integer.                                         *)
LEMMA MonthIndexType == ASSUME NEW h \in Int PROVE MonthIndex(h) \in Int
  BY DEF MonthIndex

(* The month of a height never decreases with the height.                  *)
LEMMA MonthIndexMonotone ==
  ASSUME NEW a \in Int, NEW b \in Int, a <= b
  PROVE  MonthIndex(a) <= MonthIndex(b)
  <1>1. CASE MonthBlocks <= 0
    BY <1>1 DEF MonthIndex
  <1>2. CASE MonthBlocks > 0 /\ a < 0
    BY <1>2 DEF MonthIndex
  <1>3. CASE MonthBlocks > 0 /\ a >= 0
    BY <1>3 DEF MonthIndex
  <1>4. QED
    BY <1>1, <1>2, <1>3

(* A sighting turns a status record into a status record.                 *)
LEMMA SightStatusType ==
  ASSUME NEW s \in Status, NEW h \in Int, NEW tm \in Int
  PROVE  SightStatus(s, h, tm) \in Status
  <1>1. MonthIndex(h) \in Int
    BY MonthIndexType
  <1>2. MonthPoints(s, MonthIndex(h)) \in 0..MaxPoints
    BY <1>1, ClampRange DEF MonthPoints, Status
  <1>3. Clamp(s.points + 2) \in 0..MaxPoints
    BY ClampRange DEF Status
  <1>4. QED
    BY <1>1, <1>2, <1>3 DEF SightStatus, Status

(* OnConnectBlock maps a table of records to a table of records.          *)
LEMMA OnConnectType ==
  ASSUME NEW table \in [Tags -> Status], NEW tag \in Tags \cup {NoTag},
         NEW h \in Int, NEW tm \in Int
  PROVE  OnConnectBlock(table, tag, h, tm) \in [Tags -> Status]
  BY SightStatusType DEF OnConnectBlock

(* A sighting above the last one keeps a well-formed record well formed.  *)
LEMMA SightStatusOK ==
  ASSUME NEW s \in Status, StatusOK(s), NEW h \in Int, NEW tm \in Int,
         h >= StartHeight, s.seen => s.last_seen_height < h
  PROVE  /\ StatusOK(SightStatus(s, h, tm))
         /\ SightStatus(s, h, tm).seen
         /\ SightStatus(s, h, tm).last_seen_height = h
  <1> DEFINE n == SightStatus(s, h, tm)
             cur == MonthIndex(h)
  <1>1. cur \in Int
    BY MonthIndexType
  <1>2. CASE s.seen
    <2>1. MonthIndex(s.last_seen_height) <= cur
      BY <1>2, MonthIndexMonotone DEF Status
    <2>2. n.last_seen_month = cur
      BY <1>1, <1>2, <2>1 DEF SightStatus, StatusOK, Status
    <2>3. QED
      BY <1>2, <2>2 DEF SightStatus, StatusOK, Status
  <1>3. CASE ~s.seen
    BY <1>3 DEF SightStatus, StatusOK, DefaultStatus
  <1>4. QED
    BY <1>2, <1>3

(* With every record well formed and a sighting above each seen height,   *)
(* OnConnectBlock keeps the table well formed and the height it saw is     *)
(* the last height of every seen record at most.                           *)
LEMMA OnConnectOK ==
  ASSUME NEW table \in [Tags -> Status], NEW tag \in Tags \cup {NoTag},
         NEW h \in Int, NEW tm \in Int,
         \A t \in Tags : StatusOK(table[t]),
         \A t \in Tags : table[t].seen => table[t].last_seen_height < h
  PROVE  LET new == OnConnectBlock(table, tag, h, tm) IN
         \A t \in Tags : /\ StatusOK(new[t])
                         /\ new[t].seen => new[t].last_seen_height <= h
  <1> SUFFICES ASSUME NEW t \in Tags
               PROVE  LET new == OnConnectBlock(table, tag, h, tm) IN
                      /\ StatusOK(new[t])
                      /\ new[t].seen => new[t].last_seen_height <= h
    OBVIOUS
  <1>1. CASE h < StartHeight \/ tag = NoTag \/ tag # t
    <2>1. OnConnectBlock(table, tag, h, tm)[t] = table[t]
      BY <1>1 DEF OnConnectBlock
    <2>2. table[t].seen => table[t].last_seen_height <= h
      BY DEF Status
    <2>3. QED
      BY <2>1, <2>2
  <1>2. CASE ~(h < StartHeight) /\ tag = t
    <2>1. OnConnectBlock(table, tag, h, tm)[t] = SightStatus(table[t], h, tm)
      BY <1>2 DEF OnConnectBlock
    <2>2. QED
      BY <1>2, <2>1, SightStatusOK
  <1>3. QED
    BY <1>1, <1>2

-----------------------------------------------------------------------------
(* Type correctness.                                                       *)

(* A reply record with a real tag and integer fields is in the type.     *)
LEMMA RpcRecordType ==
  ASSUME NEW pc \in {"status", "subsidy", "done"}, NEW t \in Tags,
         NEW h \in 0..MaxHeight, NEW seen \in BOOLEAN, NEW p \in Int,
         NEW l \in Int, NEW a \in Int, NEW b \in Int
  PROVE  RpcRecord(pc, t, h, seen, p, l, a, b) \in RpcState
  BY DEF RpcRecord, RpcState

(* An idle RPC reader is in its type.                                     *)
LEMMA RpcIdleType == RpcIdle \in RpcState
  BY DEF RpcIdle, RpcRecord, RpcState

(* The level and the base subsidy a reply carries are integers.           *)
LEMMA ReplyFieldsType ==
  ASSUME NEW seen \in BOOLEAN, NEW p \in Int, NEW h \in 0..MaxHeight
  PROVE  /\ PolLevelFromPoints(seen, p) \in Int
         /\ GetBaseSubsidy(h) \in Int
  <1>1. PolLevelFromPoints(seen, p) \in Int
    BY SMT DEF PolLevelFromPoints
  <1>2. GetBlockSubsidy(h) \in Nat
    BY EngineAssumption
  <1>3. QED
    BY <1>1, <1>2 DEF GetBaseSubsidy

(* GetAllowedSubsidy returns an integer at every modelled height.         *)
LEMMA AllowedType ==
  ASSUME NEW p \in Int, NEW h \in 0..MaxHeight
  PROVE  AllowedForPoints(p, h) \in Int
  BY ClampRange DEF AllowedForPoints

(* The genesis block is a block.                                          *)
LEMMA GenesisType == Genesis \in Block
  <1>1. (CHOOSE x \in Times : TRUE) \in Times
    BY Zenon
  <1>2. QED
    BY <1>1, Zenon DEF Genesis, Block

(* Every height up to the tip holds a block.                              *)
LEMMA BlockAtType ==
  ASSUME TypeOK, NEW h \in 0..Tip PROVE BlockAt(h) \in Block
  <1>1. CASE h = 0
    BY <1>1, GenesisType DEF BlockAt
  <1>2. CASE h # 0
    BY <1>2 DEF BlockAt, TypeOK, Tip
  <1>3. QED
    BY <1>1, <1>2

(* The initial state is well typed.                                       *)
LEMMA TypeInit == Init => TypeOK
  <1> SUFFICES ASSUME Init PROVE TypeOK
    OBVIOUS
  <1>1. EmptyTable \in [Tags -> Status]
    BY DefaultType DEF EmptyTable
  <1>2. [r \in Readers |-> RpcIdle] \in [Readers -> RpcState]
    BY RpcIdleType
  <1>3. /\ chain \in Seq(Block)
        /\ rb_height \in Nat
        /\ restarts \in 0..MaxRestarts
        /\ reorgs \in 0..MaxReorgs
    BY DEF Init
  <1>4. QED
    BY <1>1, <1>2, <1>3, Zenon DEF Init, TypeOK

(* Every step keeps the variables in their types.                         *)
LEMMA TypeStep == TypeOK /\ [Next]_vars => TypeOK'
  <1> SUFFICES ASSUME TypeOK, [Next]_vars PROVE TypeOK'
    OBVIOUS
  <1>1. ASSUME NEW b \in Block, ConnectBlock(b) PROVE TypeOK'
    <2>1. b.tag \in Tags \cup {NoTag} /\ b.time \in Int
      BY DEF Block
    <2>2. tag_state' \in [Tags -> Status]
      BY <1>1, <2>1, OnConnectType DEF ConnectBlock, TypeOK, Tip
    <2>3. chain' \in Seq(Block)
      BY <1>1 DEF ConnectBlock, TypeOK
    <2>4. QED
      BY <1>1, <2>2, <2>3 DEF ConnectBlock, TypeOK
  <1>2. CASE DisconnectTip
    BY <1>2 DEF DisconnectTip, TypeOK, Tip
  <1>3. CASE RestartAndRebuild
    <2>1. EmptyTable \in [Tags -> Status]
      BY DefaultType DEF EmptyTable
    <2>2. [r \in Readers |-> RpcIdle] \in [Readers -> RpcState]
      BY RpcIdleType
    <2>3. /\ restarts' \in 0..MaxRestarts
          /\ rb_height' \in Nat
      BY <1>3 DEF RestartAndRebuild, TypeOK
    <2>4. QED
      BY <1>3, <2>1, <2>2, <2>3, Zenon DEF RestartAndRebuild, TypeOK
  <1>4. CASE RebuildScan
    <2>1. BlockAt(rb_height) \in Block
      BY <1>4, BlockAtType DEF RebuildScan, TypeOK
    <2>2. BlockAt(rb_height).tag \in Tags \cup {NoTag}
          /\ BlockAt(rb_height).time \in Int
      BY <2>1 DEF Block
    <2>3. tag_state' \in [Tags -> Status]
      BY <1>4, <2>2, OnConnectType DEF RebuildScan, TypeOK
    <2>4. rb_height' \in Nat
      BY <1>4 DEF RebuildScan, TypeOK
    <2>5. QED
      BY <1>4, <2>3, <2>4, Zenon DEF RebuildScan, TypeOK
  <1>5. CASE RebuildDone
    BY <1>5 DEF RebuildDone, TypeOK
  <1>6. ASSUME NEW r \in Readers, NEW t \in Tags, NEW h \in 0..MaxHeight,
               RpcBegin(r, t, h)
        PROVE  TypeOK'
    <2>1. RpcRecord("status", t, h, FALSE, 0, 0, 0, 0) \in RpcState
      BY DEF RpcRecord, RpcState
    <2>2. QED
      BY <1>6, <2>1 DEF RpcBegin, TypeOK
  <1>7. ASSUME NEW r \in Readers, RpcStatus(r) PROVE TypeOK'
    <2>1. rpc[r] \in RpcState /\ rpc[r].pc = "status"
      BY <1>7 DEF RpcStatus, TypeOK
    <2>2. /\ rpc[r].tag \in Tags /\ rpc[r].height \in 0..MaxHeight
          /\ tag_state[rpc[r].tag] \in Status
      BY <2>1 DEF TypeOK, RpcState
    <2>3. RpcRecord("subsidy", rpc[r].tag, rpc[r].height,
                    tag_state[rpc[r].tag].seen, tag_state[rpc[r].tag].points,
                    0, 0, 0) \in RpcState
      BY <2>2, RpcRecordType DEF Status
    <2>4. QED
      BY <1>7, <2>3 DEF RpcStatus, TypeOK
  <1>8. ASSUME NEW r \in Readers, RpcSubsidy(r) PROVE TypeOK'
    <2> DEFINE c == rpc[r]
    <2>1. c \in RpcState /\ c.pc = "subsidy"
      BY <1>8 DEF RpcSubsidy, TypeOK
    <2>2. /\ c.tag \in Tags /\ c.height \in 0..MaxHeight
          /\ c.seen \in BOOLEAN /\ c.points \in Int
          /\ tag_state[c.tag].points \in Int
      BY <2>1 DEF TypeOK, RpcState, Status
    <2>3. /\ AllowedForPoints(tag_state[c.tag].points, c.height) \in Int
          /\ PolLevelFromPoints(c.seen, c.points) \in Int
          /\ GetBaseSubsidy(c.height) \in Int
      BY <2>2, AllowedType, ReplyFieldsType
    <2>4. RpcRecord("done", c.tag, c.height, c.seen, c.points,
                    PolLevelFromPoints(c.seen, c.points),
                    AllowedForPoints(tag_state[c.tag].points, c.height),
                    GetBaseSubsidy(c.height)) \in RpcState
      BY <2>2, <2>3, RpcRecordType
    <2>5. QED
      BY <1>8, <2>4 DEF RpcSubsidy, TypeOK
  <1>9. CASE UNCHANGED vars
    BY <1>9 DEF vars, TypeOK
  <1>10. QED
    BY <1>1, <1>2, <1>3, <1>4, <1>5, <1>6, <1>7, <1>8, <1>9 DEF Next

(* The engine's variables keep their types in every reachable state; in  *)
(* particular every loyalty score stays in [0, 24] (OnConnectBlock's      *)
(* clamps) and every reader that reads the ledger reads a real tag.       *)
THEOREM TypeCorrect == Spec => []TypeOK
  BY TypeInit, TypeStep, PTL DEF Spec


-----------------------------------------------------------------------------
(* Well-formed ledger records.                                             *)

(* The ledger cleared by a restart is well formed and holds no sighting.  *)
LEMMA EmptyTableOK ==
  \A t \in Tags : StatusOK(EmptyTable[t]) /\ ~EmptyTable[t].seen
  BY DEF EmptyTable, StatusOK, DefaultStatus

(* When the validation pipeline never disconnects a block, every record  *)
(* of g_tag_state stays well formed: first_seen_height <= last_seen_height, *)
(* blocks_seen counts at most one block per height in between, and        *)
(* last_seen_month is the month of last_seen_height, through live         *)
(* connects, restarts and rebuilds that skip unreadable blocks.  The      *)
(* argument is the inductive invariant IInv: its part SeenBelowNext says  *)
(* the next height OnConnectBlock sees lies above every recorded one.     *)
THEOREM WellFormed ==
  ASSUME MaxReorgs = 0
  PROVE  Spec => []StatusWellFormed
  <1>1. Init => IInv
    <2> SUFFICES ASSUME Init PROVE IInv
      OBVIOUS
    <2>1. TypeOK
      BY TypeInit
    <2>2. StatusWellFormed /\ SeenBelowNext
      BY EmptyTableOK DEF Init, StatusWellFormed, SeenBelowNext
    <2>3. QED
      BY <2>1, <2>2 DEF IInv
  <1>2. IInv /\ [Next]_vars => IInv'
    <2> SUFFICES ASSUME IInv, [Next]_vars PROVE IInv'
      OBVIOUS
    <2>0. TypeOK'
      BY TypeStep DEF IInv
    <2> SUFFICES StatusWellFormed' /\ SeenBelowNext'
      BY <2>0 DEF IInv
    <2> USE DEF IInv
    <2>1. ASSUME NEW b \in Block, ConnectBlock(b)
          PROVE  StatusWellFormed' /\ SeenBelowNext'
      <3>1. b.tag \in Tags \cup {NoTag} /\ b.time \in Int
        BY DEF Block
      <3>2. Tip \in Nat
        BY DEF TypeOK, Tip
      <3>3. \A t \in Tags : tag_state[t].seen =>
                              tag_state[t].last_seen_height < Tip + 1
        BY <3>2 DEF SeenBelowNext, TypeOK, Status
      <3>4. LET new == OnConnectBlock(tag_state, b.tag, Tip + 1, b.time) IN
            \A t \in Tags : /\ StatusOK(new[t])
                            /\ new[t].seen => new[t].last_seen_height <= Tip + 1
        BY <3>1, <3>2, <3>3, OnConnectOK DEF StatusWellFormed, TypeOK
      <3>5. Tip' = Tip + 1 /\ phase' = "running"
        BY <2>1 DEF ConnectBlock, Tip, TypeOK
      <3>6. QED
        BY <2>1, <3>4, <3>5 DEF ConnectBlock, StatusWellFormed, SeenBelowNext
    <2>2. ~DisconnectTip
      BY DEF DisconnectTip, TypeOK
    <2>3. CASE RestartAndRebuild
      BY <2>3, EmptyTableOK DEF RestartAndRebuild, StatusWellFormed, SeenBelowNext
    <2>4. CASE RebuildScan
      <3>1. rb_height \in 0..Tip
        BY <2>4 DEF RebuildScan, TypeOK, Tip
      <3>2. BlockAt(rb_height).tag \in Tags \cup {NoTag}
            /\ BlockAt(rb_height).time \in Int
        BY <3>1, BlockAtType DEF Block
      <3>3. \A t \in Tags : tag_state[t].seen =>
                              tag_state[t].last_seen_height < rb_height
        BY <2>4 DEF RebuildScan, SeenBelowNext
      <3>4. CASE tag_state' = OnConnectBlock(tag_state, BlockAt(rb_height).tag,
                                            rb_height, BlockAt(rb_height).time)
        <4>1. \A t \in Tags :
                /\ StatusOK(tag_state'[t])
                /\ tag_state'[t].seen => tag_state'[t].last_seen_height <= rb_height
          BY <3>1, <3>2, <3>3, <3>4, OnConnectOK DEF StatusWellFormed, TypeOK
        <4>2. Tip' = Tip /\ phase' = "rebuild" /\ rb_height' = rb_height + 1
          BY <2>4 DEF RebuildScan, Tip
        <4>3. \A t \in Tags : tag_state'[t].last_seen_height \in Int
          BY <2>0 DEF TypeOK, Status
        <4>4. StatusWellFormed'
          BY <4>1 DEF StatusWellFormed
        <4>5. ASSUME NEW t \in Tags, tag_state'[t].seen
              PROVE  /\ tag_state'[t].last_seen_height <= Tip'
                     /\ tag_state'[t].last_seen_height < rb_height'
          <5>1. rb_height \in Nat /\ Tip \in Nat /\ rb_height <= Tip
            BY <3>1 DEF TypeOK, Tip
          <5>2. tag_state'[t].last_seen_height <= rb_height
            BY <4>1, <4>5
          <5>3. QED
            BY <4>2, <4>3, <5>1, <5>2
        <4>7. SeenBelowNext'
          BY <4>5 DEF SeenBelowNext
        <4>6. QED
          BY <4>4, <4>7
      <3>5. CASE UNCHANGED tag_state
        BY <2>4, <3>1, <3>3, <3>5 DEF RebuildScan, StatusWellFormed,
                                      SeenBelowNext, Tip, TypeOK, Status
      <3>6. QED
        BY <2>4, <3>4, <3>5 DEF RebuildScan
    <2>5. CASE RebuildDone
      BY <2>5 DEF RebuildDone, StatusWellFormed, SeenBelowNext, Tip
    <2>6. ASSUME NEW r \in Readers,
                 \/ \E t \in Tags, h \in 0..MaxHeight : RpcBegin(r, t, h)
                 \/ RpcStatus(r)
                 \/ RpcSubsidy(r)
          PROVE  StatusWellFormed' /\ SeenBelowNext'
      <3>1. UNCHANGED <<chain, tag_state, phase, rb_height>>
        BY <2>6 DEF RpcBegin, RpcStatus, RpcSubsidy
      <3>2. QED
        BY <3>1 DEF StatusWellFormed, SeenBelowNext, Tip
    <2>7. CASE UNCHANGED vars
      BY <2>7 DEF vars, StatusWellFormed, SeenBelowNext, Tip
    <2>8. QED
      BY <2>1, <2>2, <2>3, <2>4, <2>5, <2>6, <2>7 DEF Next
  <1>3. IInv => StatusWellFormed
    BY DEF IInv
  <1>4. QED
    BY <1>1, <1>2, <1>3, PTL DEF Spec


-----------------------------------------------------------------------------
(* Points move only at a month transition, reorganisations included.       *)

(* A record's month says whether it was sighted: a record never sighted  *)
(* is the default one, with month -1 and no points; a sighted record has *)
(* the month of a real height, never below 0.                             *)
MonthOK(s) ==
    /\ ~s.seen => s.last_seen_month = -1 /\ s.points = 0
    /\ s.seen => s.last_seen_month >= 0

MonthsKept == \A t \in Tags : MonthOK(tag_state[t])

(* The step SamePeriodNoAccrual allows.                                    *)
NoAccrual ==
    \A t \in Tags :
        tag_state'[t].last_seen_month = tag_state[t].last_seen_month
        => tag_state'[t].points = tag_state[t].points

(* MonthIndex never returns a negative month, for any month length.       *)
LEMMA MonthIndexNat == ASSUME NEW h \in Int PROVE MonthIndex(h) \in Nat
  BY DEF MonthIndex

(* A sighting moves a record to a month of its own, and changes its      *)
(* points only when it moves it to another month.                         *)
LEMMA SightMonth ==
  ASSUME NEW s \in Status, MonthOK(s), NEW h \in Int, NEW tm \in Int
  PROVE  LET n == SightStatus(s, h, tm) IN
         /\ MonthOK(n)
         /\ n.last_seen_month = s.last_seen_month => n.points = s.points
  <1> DEFINE cur == MonthIndex(h)
  <1>1. cur \in Nat
    BY MonthIndexNat
  <1>2. CASE ~s.seen
    BY <1>1, <1>2 DEF SightStatus, MonthOK, Status
  <1>3. CASE s.seen /\ cur <= s.last_seen_month
    BY <1>1, <1>3 DEF SightStatus, MonthOK, MonthPoints, Status
  <1>4. CASE s.seen /\ cur > s.last_seen_month
    BY <1>1, <1>4 DEF SightStatus, MonthOK, Status
  <1>5. QED
    BY <1>1, <1>2, <1>3, <1>4 DEF Status

(* OnConnectBlock keeps every record's month meaningful and changes a    *)
(* record's points only together with its month.                          *)
LEMMA OnConnectMonth ==
  ASSUME NEW table \in [Tags -> Status], \A t \in Tags : MonthOK(table[t]),
         NEW tag \in Tags \cup {NoTag}, NEW h \in Int, NEW tm \in Int
  PROVE  LET new == OnConnectBlock(table, tag, h, tm) IN
         \A t \in Tags :
            /\ MonthOK(new[t])
            /\ new[t].last_seen_month = table[t].last_seen_month
               => new[t].points = table[t].points
  <1>1. CASE h < StartHeight \/ tag = NoTag
    BY <1>1 DEF OnConnectBlock
  <1>2. CASE ~(h < StartHeight \/ tag = NoTag)
    <2>1. OnConnectBlock(table, tag, h, tm)
            = [table EXCEPT ![tag] = SightStatus(table[tag], h, tm)]
      BY <1>2 DEF OnConnectBlock
    <2>2. tag \in Tags /\ table[tag] \in Status /\ MonthOK(table[tag])
      BY <1>2
    <2> DEFINE n == SightStatus(table[tag], h, tm)
    <2>3. /\ MonthOK(n)
          /\ n.last_seen_month = table[tag].last_seen_month
             => n.points = table[tag].points
      BY <2>2, SightMonth
    <2>4. QED
      BY <2>1, <2>2, <2>3
  <1>3. QED
    BY <1>1, <1>2

(* A restart's empty ledger has only default records.                     *)
LEMMA EmptyTableMonth == \A t \in Tags : MonthOK(EmptyTable[t])
  BY DEF EmptyTable, DefaultStatus, MonthOK

(* MonthsKept is an invariant of the engine, and every step of the        *)
(* engine is a NoAccrual step.                                            *)
LEMMA MonthStep ==
  ASSUME TypeOK, MonthsKept, [Next]_vars
  PROVE  MonthsKept' /\ NoAccrual
  <1>1. ASSUME NEW b \in Block, ConnectBlock(b) PROVE MonthsKept' /\ NoAccrual
    <2>1. b.tag \in Tags \cup {NoTag} /\ b.time \in Int
      BY DEF Block
    <2>2. Tip + 1 \in Int
      BY DEF Tip, TypeOK
    <2>3. tag_state' = OnConnectBlock(tag_state, b.tag, Tip + 1, b.time)
      BY <1>1 DEF ConnectBlock
    <2>4. QED
      BY <2>1, <2>2, <2>3, OnConnectMonth DEF TypeOK, MonthsKept, NoAccrual
  <1>2. CASE RestartAndRebuild
    <2>1. \A t \in Tags : tag_state[t].last_seen_month = -1 => tag_state[t].points = 0
      BY DEF MonthsKept, MonthOK
    <2>2. QED
      BY <1>2, <2>1, EmptyTableMonth
         DEF RestartAndRebuild, MonthsKept, NoAccrual, EmptyTable, DefaultStatus
  <1>3. CASE RebuildScan
    <2>1. rb_height \in 0..Tip
      BY <1>3 DEF RebuildScan, TypeOK, Tip
    <2>2. BlockAt(rb_height).tag \in Tags \cup {NoTag}
          /\ BlockAt(rb_height).time \in Int
      BY <2>1, BlockAtType DEF Block
    <2>3. CASE tag_state' = OnConnectBlock(tag_state, BlockAt(rb_height).tag,
                                          rb_height, BlockAt(rb_height).time)
      BY <2>1, <2>2, <2>3, OnConnectMonth DEF TypeOK, MonthsKept, NoAccrual
    <2>4. CASE UNCHANGED tag_state
      BY <2>4 DEF MonthsKept, NoAccrual
    <2>5. QED
      BY <1>3, <2>3, <2>4 DEF RebuildScan
  <1>4. CASE UNCHANGED tag_state
    BY <1>4 DEF MonthsKept, NoAccrual
  <1>5. QED
    BY <1>1, <1>2, <1>3, <1>4
       DEF Next, vars, DisconnectTip, RebuildDone, RpcBegin, RpcStatus, RpcSubsidy

(* Two sightings of a tag within the month it was last counted in never  *)
(* change its points, and no step of the node changes a record's points  *)
(* without changing its month: through live connects, reorganisations    *)
(* (which leave the ledger as it is), restarts and rebuilds, for every   *)
(* month length and start height.  The argument is the invariant         *)
(* MonthsKept: a restart resets a record to month -1, which only a never *)
(* sighted record, with no points, already has.                           *)
THEOREM NoAccrualInPeriod == Spec => SamePeriodNoAccrual
  <1>1. Init => MonthsKept
    BY EmptyTableMonth DEF Init, MonthsKept
  <1>2. TypeOK /\ MonthsKept /\ [Next]_vars => MonthsKept'
    BY MonthStep
  <1>3. TypeOK /\ MonthsKept /\ [Next]_vars => [NoAccrual]_vars
    BY MonthStep
  <1>4. QED
    BY <1>1, <1>2, <1>3, TypeCorrect, PTL DEF Spec, SamePeriodNoAccrual, NoAccrual

=============================================================================
