--------------------------- MODULE PolReplayProofs ---------------------------
(***************************************************************************)
(* The ledger is the replay of the chain with exactly the failed reads    *)
(* left out (RebuildIsReplay), and the engine implements the ledger       *)
(* spec.md promises (ImplementsLedger), for every set of tags, month      *)
(* length, start height, schedule and bound, when the chain is never     *)
(* reorganised.  Both rest on one inductive invariant, RInv: the failed   *)
(* reads all lie at heights already scanned, and the ledger is their      *)
(* replay.  The replay is a recursive function over the heights; what it  *)
(* computes is established by induction on the height, taken as "a least  *)
(* height where it fails cannot exist" from the well-foundedness of < on  *)
(* Nat.                                                                    *)
(***************************************************************************)
EXTENDS PolEngineProofs, NaturalsInduction, WellFoundedInduction

(* A non-empty set of naturals has a least element.                        *)
LEMMA LeastElement ==
    ASSUME NEW T \in SUBSET Nat, T # {}
    PROVE  \E x \in T : \A y \in T : ~(y < x)
  <1>1. \E x \in T : \A y \in T : ~(<<y, x>> \in OpToRel(<, Nat))
    BY NatLessThanWellFounded, WFMin
  <1>2. QED
    BY <1>1 DEF OpToRel

(* The defining equation of the replay: the empty table at height 0, the  *)
(* replay up to n - 1 at a skipped height n, and otherwise OnConnectBlock *)
(* of the block at height n on the replay up to n - 1.                     *)
LEMMA ReplayUnfold ==
    ASSUME NEW c \in Seq(Block), NEW skip
    PROVE  LedgerReplay(c, skip) =
             [n \in 0..Len(c) |->
                IF n = 0 THEN EmptyTable
                ELSE IF n \in skip THEN LedgerReplay(c, skip)[n - 1]
                ELSE OnConnectBlock(LedgerReplay(c, skip)[n - 1], c[n].tag, n, c[n].time)]
  <1> DEFINE Def(v, i) == IF i \in skip THEN v
                          ELSE OnConnectBlock(v, c[i].tag, i, c[i].time)
  <1>0. Len(c) \in Nat
    OBVIOUS
  <1>1. FiniteNatInductiveDefHypothesis(LedgerReplay(c, skip), EmptyTable, Def, 0, Len(c))
    BY DEF FiniteNatInductiveDefHypothesis, LedgerReplay
  <1>2. FiniteNatInductiveDefConclusion(LedgerReplay(c, skip), EmptyTable, Def, 0, Len(c))
    BY <1>0, <1>1, FiniteNatInductiveDef
  <1>3. QED
    BY <1>2 DEF FiniteNatInductiveDefConclusion

LEMMA ReplayZero ==
    ASSUME NEW c \in Seq(Block), NEW skip
    PROVE  LedgerReplay(c, skip)[0] = EmptyTable
  BY ReplayUnfold

LEMMA ReplayStep ==
    ASSUME NEW c \in Seq(Block), NEW skip, NEW n \in 1..Len(c), n \notin skip
    PROVE  LedgerReplay(c, skip)[n] =
             OnConnectBlock(LedgerReplay(c, skip)[n - 1], c[n].tag, n, c[n].time)
  BY ReplayUnfold

LEMMA ReplaySkip ==
    ASSUME NEW c \in Seq(Block), NEW skip, NEW n \in 1..Len(c), n \in skip
    PROVE  LedgerReplay(c, skip)[n] = LedgerReplay(c, skip)[n - 1]
  BY ReplayUnfold

(* The replay up to height k reads only the blocks at heights 1..k and    *)
(* whether they are skipped: two chains and two gap sets that agree there *)
(* give the same ledger at k.  Appending a block, or a gap above k,       *)
(* therefore leaves the replay up to k as it was.                         *)
LEMMA ReplayPrefix ==
    ASSUME NEW c \in Seq(Block), NEW d \in Seq(Block), NEW s, NEW t,
           NEW k \in 0..Len(c), k <= Len(d),
           \A i \in 1..k : c[i] = d[i] /\ (i \in s <=> i \in t)
    PROVE  LedgerReplay(c, s)[k] = LedgerReplay(d, t)[k]
  <1> DEFINE T == {i \in 0..k : LedgerReplay(c, s)[i] # LedgerReplay(d, t)[i]}
  <1> SUFFICES ASSUME T # {} PROVE FALSE
    OBVIOUS
  <1>0. T \in SUBSET Nat
    OBVIOUS
  <1>1. PICK x \in T : \A y \in T : ~(y < x)
    BY <1>0, LeastElement
  <1>2. x # 0
    BY <1>1, ReplayZero
  <1>3. LedgerReplay(c, s)[x - 1] = LedgerReplay(d, t)[x - 1]
    BY <1>1, <1>2
  <1>4. /\ x \in 1..Len(c) /\ x \in 1..Len(d)
        /\ c[x] = d[x] /\ (x \in s <=> x \in t)
    BY <1>1, <1>2
  <1>5. LedgerReplay(c, s)[x] = LedgerReplay(d, t)[x]
    <2>1. CASE x \in s
      BY <1>3, <1>4, <2>1, ReplaySkip
    <2>2. CASE x \notin s
      BY <1>3, <1>4, <2>2, ReplayStep
    <2>3. QED
      BY <2>1, <2>2
  <1>6. QED
    BY <1>1, <1>5

(* Appending a block leaves the replay of the old chain as it was.       *)
LEMMA ReplayAppend ==
    ASSUME NEW c \in Seq(Block), NEW b \in Block, NEW skip
    PROVE  LedgerReplay(Append(c, b), skip)[Len(c)] = LedgerReplay(c, skip)[Len(c)]
  <1> DEFINE a == Append(c, b)
  <1>1. /\ a \in Seq(Block) /\ Len(c) \in 0..Len(a)
        /\ \A i \in 1..Len(c) : a[i] = c[i] /\ (i \in skip <=> i \in skip)
    OBVIOUS
  <1> HIDE DEF a
  <1>2. LedgerReplay(a, skip)[Len(c)] = LedgerReplay(c, skip)[Len(c)]
    BY <1>1, ReplayPrefix
  <1>3. QED
    BY <1>2 DEF a

(* Heights below the start height leave the ledger empty: OnConnectBlock  *)
(* returns at once for them, and a skipped one changes nothing either.    *)
LEMMA ReplayBelowStart ==
    ASSUME NEW c \in Seq(Block), NEW skip, NEW k \in 0..Len(c), k < StartHeight
    PROVE  LedgerReplay(c, skip)[k] = EmptyTable
  <1> DEFINE T == {i \in 0..k : LedgerReplay(c, skip)[i] # EmptyTable}
  <1> SUFFICES ASSUME T # {} PROVE FALSE
    OBVIOUS
  <1>0. T \in SUBSET Nat
    OBVIOUS
  <1>1. PICK x \in T : \A y \in T : ~(y < x)
    BY <1>0, LeastElement
  <1>2. x # 0
    BY <1>1, ReplayZero
  <1>3. LedgerReplay(c, skip)[x - 1] = EmptyTable
    BY <1>1, <1>2
  <1>4. x \in 1..Len(c) /\ x < StartHeight
    BY <1>1, <1>2, LedgerAssumption
  <1>5. LedgerReplay(c, skip)[x] = EmptyTable
    <2>1. CASE x \in skip
      BY <1>3, <1>4, <2>1, ReplaySkip
    <2>2. CASE x \notin skip
      BY <1>3, <1>4, <2>2, ReplayStep DEF OnConnectBlock
    <2>3. QED
      BY <2>1, <2>2
  <1>6. QED
    BY <1>1, <1>5

(* A gap at the next height h: the replay with h skipped ends at h where  *)
(* the replay without it ended at h - 1.                                   *)
LEMMA ReplayNewGap ==
    ASSUME NEW c \in Seq(Block), NEW S, NEW h \in 1..Len(c), S \subseteq 0..(h - 1)
    PROVE  LedgerReplay(c, S \cup {h})[h] = LedgerReplay(c, S)[h - 1]
  <1>1. LedgerReplay(c, S \cup {h})[h] = LedgerReplay(c, S \cup {h})[h - 1]
    BY ReplaySkip
  <1>2. \A i \in 1..(h - 1) : c[i] = c[i] /\ (i \in S \cup {h} <=> i \in S)
    OBVIOUS
  <1>3. LedgerReplay(c, S \cup {h})[h - 1] = LedgerReplay(c, S)[h - 1]
    BY <1>2, ReplayPrefix
  <1>4. QED
    BY <1>1, <1>3

(* Height 0 is never replayed: skipping it changes nothing.               *)
LEMMA ReplayIgnoresZero ==
    ASSUME NEW c \in Seq(Block), NEW S, NEW k \in 0..Len(c)
    PROVE  LedgerReplay(c, S \ {0})[k] = LedgerReplay(c, S)[k]
  <1> DEFINE T == S \ {0}
  <1>1. \A i \in 1..k : c[i] = c[i] /\ (i \in T <=> i \in S)
    OBVIOUS
  <1> HIDE DEF T
  <1>2. LedgerReplay(c, T)[k] = LedgerReplay(c, S)[k]
    BY <1>1, ReplayPrefix
  <1>3. QED
    BY <1>2 DEF T

-----------------------------------------------------------------------------
(* The inductive invariant: the failed reads of the last rebuild all lie  *)
(* at heights the ledger has already taken in, so a live connect is never *)
(* at a skipped height, and the ledger is the replay without them.        *)
RInv == TypeOK /\ skipped \subseteq 0..ScannedTo /\ RebuildIsReplay

(* During a rebuild that has not passed the tip, the scan has taken in    *)
(* the heights below rb_height.                                            *)
LEMMA ScannedInRebuild ==
    ASSUME phase # "running", rb_height \in Nat, Tip \in Nat, rb_height <= Tip
    PROVE  ScannedTo = IF rb_height = 0 THEN 0 ELSE rb_height - 1
  BY DEF ScannedTo

LEMMA RInvInit == Init => RInv
  <1> SUFFICES ASSUME Init PROVE RInv
    OBVIOUS
  <1>1. TypeOK
    BY TypeInit
  <1>2. chain = << >> /\ ScannedTo = 0 /\ tag_state = EmptyTable /\ skipped = {}
    BY DEF Init, Tip, ScannedTo
  <1>3. tag_state = LedgerReplay(chain, skipped)[ScannedTo]
    BY <1>1, <1>2, ReplayZero DEF TypeOK
  <1>4. QED
    BY <1>1, <1>2, <1>3 DEF RInv, RebuildIsReplay

(* ConnectBlock: the new tip's block is the replay's next step, and the   *)
(* failed reads, all below it, stay where they were.                       *)
LEMMA ConnectReplay ==
    ASSUME RInv, NEW b \in Block, ConnectBlock(b)
    PROVE  (skipped \subseteq 0..ScannedTo /\ RebuildIsReplay)'
  <1>1. /\ chain \in Seq(Block) /\ phase = "running"
        /\ chain' = Append(chain, b) /\ skipped' = skipped /\ phase' = "running"
        /\ tag_state' = OnConnectBlock(tag_state, b.tag, Tip + 1, b.time)
    BY DEF RInv, TypeOK, ConnectBlock
  <1>2. ScannedTo = Tip /\ ScannedTo' = Tip + 1
    BY <1>1 DEF ScannedTo, Tip
  <1>3. skipped \subseteq 0..Tip /\ tag_state = LedgerReplay(chain, skipped)[Tip]
    BY <1>2 DEF RInv, RebuildIsReplay
  <1>4. chain' \in Seq(Block) /\ Len(chain') = Tip + 1 /\ Tip \in Nat
    BY <1>1 DEF Tip
  <1>5. LedgerReplay(chain', skipped)[Tip] = LedgerReplay(chain, skipped)[Tip]
    BY <1>1, ReplayAppend DEF Tip
  <1>6. LedgerReplay(chain', skipped)[Tip + 1] =
          OnConnectBlock(LedgerReplay(chain', skipped)[Tip], b.tag, Tip + 1, b.time)
    <2> DEFINE m == Tip + 1
    <2>1. m \in 1..Len(chain') /\ m \notin skipped /\ chain'[m] = b /\ m - 1 = Tip
      BY <1>1, <1>3, <1>4 DEF Tip
    <2>2. LedgerReplay(chain', skipped)[m] =
            OnConnectBlock(LedgerReplay(chain', skipped)[m - 1], chain'[m].tag, m,
                           chain'[m].time)
      BY <1>4, <2>1, ReplayStep
    <2>3. QED
      BY <2>1, <2>2
  <1>7. skipped' \subseteq 0..ScannedTo'
    BY <1>1, <1>2, <1>3, <1>4
  <1>8. QED
    BY <1>1, <1>2, <1>3, <1>5, <1>6, <1>7 DEF RebuildIsReplay

(* A restart empties the ledger and forgets the failed reads, and the     *)
(* scan starts at the start height: the heights below it replay to the   *)
(* empty table.                                                            *)
LEMMA RestartReplay ==
    ASSUME RInv, RestartAndRebuild
    PROVE  (skipped \subseteq 0..ScannedTo /\ RebuildIsReplay)'
  <1>1. /\ tag_state' = EmptyTable /\ chain' = chain /\ phase' = "rebuild"
        /\ rb_height' = (IF StartHeight > 0 THEN StartHeight ELSE 0)
        /\ skipped' = {}
        /\ chain \in Seq(Block)
    BY DEF RestartAndRebuild, RInv, TypeOK
  <1>2. Tip \in Nat
    BY <1>1 DEF Tip
  <1>3. ScannedTo' \in 0..Tip /\ (ScannedTo' = 0 \/ ScannedTo' < StartHeight)
    <2>1. Tip' = Tip
      BY <1>1 DEF Tip
    <2>2. ScannedTo' = IF rb_height' > Tip THEN Tip
                       ELSE IF rb_height' = 0 THEN 0 ELSE rb_height' - 1
      BY <1>1, <2>1 DEF ScannedTo
    <2>3. CASE StartHeight > 0
      <3>1. rb_height' = StartHeight
        BY <1>1, <2>3
      <3>2. QED
        BY <1>2, <2>2, <2>3, <3>1, LedgerAssumption
    <2>4. CASE ~(StartHeight > 0)
      <3>1. rb_height' = 0
        BY <1>1, <2>4
      <3>2. QED
        BY <1>2, <2>2, <3>1
    <2>5. QED
      BY <2>3, <2>4
  <1>4. LedgerReplay(chain, {})[ScannedTo'] = EmptyTable
    BY <1>1, <1>3, ReplayZero, ReplayBelowStart DEF Tip
  <1>5. QED
    BY <1>1, <1>4 DEF RebuildIsReplay

(* One scanned height: OnConnectBlock of the block there, which for the   *)
(* genesis block at height 0 changes nothing, or a failed read, which     *)
(* adds the height to the skipped ones.                                    *)
LEMMA ScanReplay ==
    ASSUME RInv, RebuildScan
    PROVE  (skipped \subseteq 0..ScannedTo /\ RebuildIsReplay)'
  <1>1. /\ phase = "rebuild" /\ rb_height <= Tip /\ rb_height \in Nat
        /\ chain' = chain /\ phase' = "rebuild" /\ rb_height' = rb_height + 1
        /\ chain \in Seq(Block)
    BY DEF RInv, TypeOK, RebuildScan
  <1>a. Tip \in Nat /\ ScannedTo = IF rb_height = 0 THEN 0 ELSE rb_height - 1
    <2>1. Tip \in Nat
      BY <1>1 DEF Tip
    <2>2. QED
      BY <1>1, <2>1, ScannedInRebuild
  <1>2. ScannedTo' = rb_height
    BY <1>1 DEF ScannedTo, Tip
  <1>0. skipped \subseteq 0..ScannedTo /\ tag_state = LedgerReplay(chain, skipped)[ScannedTo]
    BY DEF RInv, RebuildIsReplay
  <1>3. CASE rb_height = 0
    <2>0. ScannedTo = 0 /\ ScannedTo' = 0 /\ skipped \subseteq 0..0
      BY <1>0, <1>a, <1>2, <1>3
    <2>1. tag_state = EmptyTable
      BY <1>0, <1>1, <2>0, ReplayZero
    <2>2. BlockAt(0).tag = NoTag
      BY DEF BlockAt, Genesis
    <2>3. tag_state' = tag_state /\ skipped' \subseteq 0..0
      <3>1. BlockAt(rb_height).tag = NoTag
        BY <1>3, <2>2
      <3>2. CASE /\ tag_state' = OnConnectBlock(tag_state, BlockAt(rb_height).tag,
                                                rb_height, BlockAt(rb_height).time)
                 /\ skipped' = skipped
        BY <2>0, <3>1, <3>2 DEF OnConnectBlock
      <3>3. CASE skipped' = skipped \cup {rb_height} /\ tag_state' = tag_state
        BY <1>3, <2>0, <3>3
      <3>4. QED
        BY <3>2, <3>3 DEF RebuildScan
    <2>4. LedgerReplay(chain, skipped')[0] = EmptyTable
      BY <1>1, ReplayZero
    <2>5. QED
      BY <1>1, <2>0, <2>1, <2>3, <2>4 DEF RebuildIsReplay
  <1>4. CASE rb_height # 0
    <2>0. /\ ScannedTo = rb_height - 1 /\ rb_height \in 1..Len(chain)
          /\ BlockAt(rb_height) = chain[rb_height]
          /\ skipped \subseteq 0..(rb_height - 1) /\ rb_height \notin skipped
      BY <1>0, <1>1, <1>a, <1>4 DEF BlockAt, Tip
    <2>1. CASE /\ tag_state' = OnConnectBlock(tag_state, BlockAt(rb_height).tag,
                                              rb_height, BlockAt(rb_height).time)
               /\ skipped' = skipped
      <3>1. LedgerReplay(chain, skipped)[rb_height] =
              OnConnectBlock(LedgerReplay(chain, skipped)[rb_height - 1],
                             chain[rb_height].tag, rb_height, chain[rb_height].time)
        BY <1>1, <2>0, ReplayStep
      <3>2. tag_state' = LedgerReplay(chain, skipped)[rb_height]
        BY <1>0, <2>0, <2>1, <3>1
      <3>3. QED
        BY <1>1, <1>2, <2>0, <2>1, <3>2 DEF RebuildIsReplay
    <2>2. CASE skipped' = skipped \cup {rb_height} /\ tag_state' = tag_state
      <3>1. LedgerReplay(chain, skipped \cup {rb_height})[rb_height] = tag_state
        BY <1>0, <1>1, <2>0, ReplayNewGap
      <3>2. skipped' \subseteq 0..rb_height
        BY <1>1, <2>0, <2>2
      <3>3. QED
        BY <1>1, <1>2, <2>2, <3>1, <3>2 DEF RebuildIsReplay
    <2>3. QED
      BY <2>1, <2>2 DEF RebuildScan
  <1>5. QED
    BY <1>3, <1>4

(* The steps that touch neither the chain, the ledger nor the scan.        *)
LEMMA FrameReplay ==
    ASSUME skipped \subseteq 0..ScannedTo, RebuildIsReplay,
           UNCHANGED <<chain, tag_state, skipped>>, ScannedTo' = ScannedTo
    PROVE  (skipped \subseteq 0..ScannedTo /\ RebuildIsReplay)'
  BY DEF RebuildIsReplay

LEMMA RInvStep ==
    ASSUME MaxReorgs = 0, RInv, [Next]_vars
    PROVE  RInv'
  <1>1. TypeOK'
    BY TypeStep DEF RInv
  <1>2. (skipped \subseteq 0..ScannedTo /\ RebuildIsReplay)'
    <2>1. CASE \E b \in Block : ConnectBlock(b)
      BY <2>1, ConnectReplay
    <2>2. CASE DisconnectTip
      BY <2>2 DEF DisconnectTip, RInv, TypeOK
    <2>3. CASE RestartAndRebuild
      BY <2>3, RestartReplay
    <2>4. CASE RebuildScan
      BY <2>4, ScanReplay
    <2>5. CASE RebuildDone
      <3>1. /\ UNCHANGED <<chain, tag_state, rb_height, skipped>>
            /\ rb_height > Tip /\ phase' = "running"
        BY <2>5 DEF RebuildDone
      <3>2. ScannedTo' = ScannedTo
        BY <3>1 DEF ScannedTo, Tip
      <3>3. QED
        BY <3>1, <3>2, FrameReplay DEF RInv
    <2>6. CASE \/ \E r \in Readers :
                    \/ \E t \in Tags, h \in 0..MaxHeight : RpcBegin(r, t, h)
                    \/ RpcStatus(r)
                    \/ RpcSubsidy(r)
               \/ UNCHANGED vars
      <3>1. UNCHANGED <<chain, tag_state, phase, rb_height, skipped>>
        BY <2>6 DEF RpcBegin, RpcStatus, RpcSubsidy, vars
      <3>2. ScannedTo' = ScannedTo
        BY <3>1 DEF ScannedTo, Tip
      <3>3. QED
        BY <3>1, <3>2, FrameReplay DEF RInv
    <2>7. QED
      BY <2>1, <2>2, <2>3, <2>4, <2>5, <2>6 DEF Next
  <1>3. QED
    BY <1>1, <1>2 DEF RInv

(* Without reorganisations, the ledger is always the replay through       *)
(* OnConnectBlock of the heights the node has taken in, leaving out       *)
(* exactly the heights whose ReadBlock failed in the last rebuild: the    *)
(* live path (ConnectBlock) and the restart path (clear, then             *)
(* RebuildFromActiveChain with its `continue` on a failed read) compute   *)
(* the same table, for every start height and month length.  Run         *)
(* reorg_drift shows that a disconnect breaks it.                         *)
THEOREM LedgerIsReplay ==
    ASSUME MaxReorgs = 0
    PROVE  Spec => []RebuildIsReplay
  <1>1. Init => RInv
    BY RInvInit
  <1>2. RInv /\ [Next]_vars => RInv'
    BY RInvStep
  <1>3. RInv => RebuildIsReplay
    BY DEF RInv
  <1>4. QED
    BY <1>1, <1>2, <1>3, PTL DEF Spec

-----------------------------------------------------------------------------
(* The abstract replay, with OnConnectBlock for its update, is the        *)
(* engine's replay.                                                        *)
LEMMA AbsReplay ==
    ASSUME NEW c, NEW gaps
    PROVE  Abs!Replay(c, gaps) = LedgerReplay(c, gaps)
  BY DEF Abs!Replay, LedgerReplay

(* The refinement mapping at the start: an empty chain, a running node    *)
(* and an empty ledger.                                                    *)
LEMMA RefineInit == Init => Abs!Init
  BY DEF Init, Abs!Init

(* Every step of the engine is a step of the abstract ledger or leaves    *)
(* what it maps to unchanged: ConnectBlock is Connect, a restart is a     *)
(* crash, the end of the rebuild is Recover with the chain's heights      *)
(* whose read failed as its gaps, and the scan and the RPC steps are      *)
(* invisible.                                                              *)
LEMMA RefineStep ==
    ASSUME MaxReorgs = 0, RInv, [Next]_vars
    PROVE  [Abs!Next]_Abs!avars
  <1>1. CASE \E b \in Block : ConnectBlock(b)
    <2>1. PICK b \in Block : ConnectBlock(b)
      BY <1>1
    <2>2. Abs!Connect(b)
      BY <2>1 DEF ConnectBlock, Abs!Connect, Tip
    <2>3. QED
      BY <2>2 DEF Abs!Next
  <1>2. CASE DisconnectTip
    BY <1>2 DEF DisconnectTip, RInv, TypeOK
  <1>3. CASE RestartAndRebuild
    <2>1. Abs!Crash
      BY <1>3 DEF RestartAndRebuild, Abs!Crash
    <2>2. QED
      BY <2>1 DEF Abs!Next
  <1>4. CASE RebuildScan
    BY <1>4 DEF RebuildScan, Abs!avars
  <1>5. CASE RebuildDone
    <2>1. /\ phase = "rebuild" /\ phase' = "running" /\ rb_height > Tip
          /\ UNCHANGED <<chain, tag_state>>
      BY <1>5 DEF RebuildDone
    <2>2. /\ chain \in Seq(Block) /\ ScannedTo = Len(chain)
          /\ skipped \subseteq 0..Len(chain)
          /\ tag_state = LedgerReplay(chain, skipped)[Len(chain)]
      BY <2>1 DEF ScannedTo, Tip, RInv, TypeOK, RebuildIsReplay
    <2>3. tag_state = LedgerReplay(chain, skipped \ {0})[Len(chain)]
      BY <2>2, ReplayIgnoresZero
    <2>4. skipped \ {0} \in SUBSET (1..Len(chain))
      BY <2>2
    <2>5. Abs!Recover
      BY <2>1, <2>3, <2>4, AbsReplay DEF Abs!Recover
    <2>6. QED
      BY <2>5 DEF Abs!Next
  <1>6. CASE \/ \E r \in Readers :
                  \/ \E t \in Tags, h \in 0..MaxHeight : RpcBegin(r, t, h)
                  \/ RpcStatus(r)
                  \/ RpcSubsidy(r)
             \/ UNCHANGED vars
    <2>1. UNCHANGED <<chain, tag_state, phase>>
      BY <1>6 DEF RpcBegin, RpcStatus, RpcSubsidy, vars
    <2>2. QED
      BY <2>1 DEF Abs!avars
  <1>7. QED
    BY <1>1, <1>2, <1>3, <1>4, <1>5, <1>6 DEF Next

(* Without reorganisations the engine implements the ledger spec.md       *)
(* promises: readers see a table that every live connect updates through  *)
(* OnConnectBlock, that a restart loses, and that RebuildFromActiveChain  *)
(* restores as the replay of the whole active chain with some heights     *)
(* left out (the abstract ledger does not say which; LedgerIsReplay says  *)
(* they are exactly the failed reads).                                     *)
THEOREM EngineImplementsLedger ==
    ASSUME MaxReorgs = 0
    PROVE  Spec => ImplementsLedger
  <1>1. Init => Abs!Init
    BY RefineInit
  <1>2. RInv /\ [Next]_vars => [Abs!Next]_Abs!avars
    BY RefineStep
  <1>3. Spec => []RInv
    BY RInvInit, RInvStep, PTL DEF Spec
  <1>4. QED
    BY <1>1, <1>2, <1>3, PTL DEF Spec, ImplementsLedger, Abs!Spec

=============================================================================
