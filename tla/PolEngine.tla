------------------------------ MODULE PolEngine ------------------------------
(***************************************************************************)
(* The PoL engine inside the node: the active chain that the validation   *)
(* pipeline extends block by block under cs_main, the ledger g_tag_state  *)
(* that OnConnectBlock updates under g_pol_mutex, the startup rebuild     *)
(* RebuildFromActiveChain that replays the chain into an emptied ledger   *)
(* after a restart, and the getpoladdressstatus RPC handler that reads   *)
(* the ledger from request threads.                                       *)
(*                                                                         *)
(* A block is reduced to what the engine reads from it: the tag that      *)
(* ExtractMinerTagFromBlock finds (NoTag for none) and its block time.    *)
(* OnConnectBlock holds g_pol_mutex for the whole update, so it is one    *)
(* step; the rebuild holds cs_main for the whole scan but takes           *)
(* g_pol_mutex once per block, so each scanned height is a step.          *)
(***************************************************************************)
EXTENDS Integers, Sequences, PolSubsidy, PolLevel

CONSTANTS
    Times,        \* block timestamps the chain may carry
    Readers,      \* RPC request threads
    MaxHeight,    \* bound on the tip height
    MaxRestarts,  \* bound on process restarts
    MaxReorgs     \* bound on tip disconnections (0: none)

ASSUME EngineAssumption ==
    /\ Times \subseteq Int /\ Times # {}
    /\ MaxHeight \in Nat
    /\ MaxRestarts \in Nat
    /\ MaxReorgs \in Nat
    /\ \A h \in 0..MaxHeight : GetBlockSubsidy(h) \in Nat

Block == [tag : Tags \cup {NoTag}, time : Times]

(* The genesis block (height 0) carries no MFLEXID output.                  *)
Genesis == [tag |-> NoTag, time |-> CHOOSE x \in Times : TRUE]

(* A reader's call of getpoladdressstatus: the fields of its reply that  *)
(* come from the ledger and the subsidy calculator.                       *)
RpcRecord(pc, tag, height, seen, points, level, allowed, base) ==
    [pc |-> pc, tag |-> tag, height |-> height, seen |-> seen,
     points |-> points, level |-> level, allowed |-> allowed, base |-> base]

RpcIdle == RpcRecord("idle", NoTag, 0, FALSE, 0, 0, 0, 0)

(* A reader's call: once it has a tag, the tag is a real one.              *)
RpcState ==
    {c \in [pc : {"idle", "status", "subsidy", "done"}, tag : Tags \cup {NoTag},
           height : 0..MaxHeight, seen : BOOLEAN, points : Int, level : Int,
           allowed : Int, base : Int] :
        c.pc # "idle" => c.tag \in Tags}

VARIABLES
    chain,      \* chain[h]: the active chain's block at height h >= 1
    tag_state,  \* g_tag_state, as a total function (see PolLedger)
    phase,      \* "rebuild" while RebuildFromActiveChain holds cs_main
    rb_height,  \* the loop variable `height` of RebuildFromActiveChain
    skipped,    \* heights whose ReadBlock failed in the current rebuild (history)
    restarts,   \* number of process restarts so far (bounded)
    reorgs,     \* number of tip disconnections so far (bounded)
    rpc         \* rpc[r]: the state of reader r's getpoladdressstatus call

vars == <<chain, tag_state, phase, rb_height, skipped, restarts, reorgs, rpc>>

Tip == Len(chain)
BlockAt(h) == IF h = 0 THEN Genesis ELSE chain[h]

TypeOK ==
    /\ chain \in Seq(Block)
    /\ tag_state \in [Tags -> Status]
    /\ phase \in {"running", "rebuild"}
    /\ rb_height \in Nat
    /\ skipped \in SUBSET Nat
    /\ restarts \in 0..MaxRestarts
    /\ reorgs \in 0..MaxReorgs
    /\ rpc \in [Readers -> RpcState]

(* A fresh process on a chain that the node has only begun: the ledger   *)
(* is created empty and nothing is connected beyond genesis.              *)
Init ==
    /\ chain = << >>
    /\ tag_state = EmptyTable
    /\ phase = "running"
    /\ rb_height = 0
    /\ skipped = {}
    /\ restarts = 0
    /\ reorgs = 0
    /\ rpc = [r \in Readers |-> RpcIdle]

(* ConnectBlock calls OnConnectBlock for the new tip under cs_main.        *)
ConnectBlock(b) ==
    /\ phase = "running"
    /\ Tip < MaxHeight
    /\ chain' = Append(chain, b)
    /\ tag_state' = OnConnectBlock(tag_state, b.tag, Tip + 1, b.time)
    /\ UNCHANGED <<phase, rb_height, skipped, restarts, reorgs, rpc>>

(* DisconnectTip: a reorganisation drops the tip.  pol.h has no           *)
(* disconnect hook, so the ledger is left as it is.                       *)
DisconnectTip ==
    /\ reorgs < MaxReorgs
    /\ phase = "running"
    /\ Tip > 0
    /\ chain' = SubSeq(chain, 1, Tip - 1)
    /\ reorgs' = reorgs + 1
    /\ UNCHANGED <<tag_state, phase, rb_height, skipped, restarts, rpc>>

(* Mutant: the rebuild does not clear g_tag_state first.                   *)
RestartKeepLedger ==
    /\ restarts < MaxRestarts
    /\ restarts' = restarts + 1
    /\ phase' = "rebuild"
    /\ rb_height' = IF StartHeight > 0 THEN StartHeight ELSE 0
    /\ skipped' = {}
    /\ rpc' = [r \in Readers |-> RpcIdle]
    /\ UNCHANGED <<chain, reorgs, tag_state>>

(* The process restarts: the in-memory ledger and every request in        *)
(* flight are gone, the chain is on disk, and startup enters              *)
(* RebuildFromActiveChain, which takes cs_main, clears g_tag_state and    *)
(* starts its scan at max(0, start height).  The tip always exists        *)
(* (genesis), so the early return on a missing tip is never taken.        *)
RestartAndRebuild ==
    /\ restarts < MaxRestarts
    /\ restarts' = restarts + 1
    /\ tag_state' = EmptyTable
    /\ phase' = "rebuild"
    /\ rb_height' = IF StartHeight > 0 THEN StartHeight ELSE 0
    /\ skipped' = {}
    /\ rpc' = [r \in Readers |-> RpcIdle]
    /\ UNCHANGED <<chain, reorgs>>

(* Mutant: a failed ReadBlock ends the loop (break for continue).          *)
RebuildScanBreak ==
    /\ phase = "rebuild"
    /\ rb_height <= Tip
    /\ \/ /\ tag_state' = OnConnectBlock(tag_state, BlockAt(rb_height).tag,
                                         rb_height, BlockAt(rb_height).time)
          /\ rb_height' = rb_height + 1
          /\ UNCHANGED <<skipped, phase>>
       \/ /\ skipped' = skipped \cup {rb_height}
          /\ phase' = "running"
          /\ UNCHANGED <<tag_state, rb_height>>
    /\ UNCHANGED <<chain, restarts, reorgs, rpc>>

(* One iteration of the scan loop: ReadBlock succeeds and the block is    *)
(* replayed through OnConnectBlock, or it fails and the height is        *)
(* skipped.                                                               *)
RebuildScan ==
    /\ phase = "rebuild"
    /\ rb_height <= Tip
    /\ \/ /\ tag_state' = OnConnectBlock(tag_state, BlockAt(rb_height).tag,
                                         rb_height, BlockAt(rb_height).time)
          /\ UNCHANGED skipped
       \/ /\ skipped' = skipped \cup {rb_height}
          /\ UNCHANGED tag_state
    /\ rb_height' = rb_height + 1
    /\ UNCHANGED <<chain, phase, restarts, reorgs, rpc>>

(* Mutant: the loop stops one height early.                               *)
RebuildDoneEarly ==
    /\ phase = "rebuild"
    /\ rb_height >= Tip
    /\ phase' = "running"
    /\ UNCHANGED <<chain, tag_state, rb_height, skipped, restarts, reorgs, rpc>>

(* The loop has passed the tip: the rebuild returns and releases cs_main. *)
RebuildDone ==
    /\ phase = "rebuild"
    /\ rb_height > Tip
    /\ phase' = "running"
    /\ UNCHANGED <<chain, tag_state, rb_height, skipped, restarts, reorgs, rpc>>

(* getpoladdressstatus: GetTipHeight takes cs_main, the height is the     *)
(* parameter or the tip, the tag is derived from the address.             *)
RpcBegin(r, t, h) ==
    /\ rpc[r].pc \in {"idle", "done"}
    /\ phase = "running"
    /\ rpc' = [rpc EXCEPT ![r] = RpcRecord("status", t, h, FALSE, 0, 0, 0, 0)]
    /\ UNCHANGED <<chain, tag_state, phase, rb_height, skipped, restarts, reorgs>>

(* pol::GetMinerTagStatus(tag): a snapshot copy under g_pol_mutex; an     *)
(* absent key leaves the handler's default record, which is the default  *)
(* status.                                                                 *)
RpcStatus(r) ==
    /\ rpc[r].pc = "status"
    /\ LET st == tag_state[rpc[r].tag] IN
       rpc' = [rpc EXCEPT ![r] = RpcRecord("subsidy", rpc[r].tag, rpc[r].height,
                                           st.seen, st.points, 0, 0, 0)]
    /\ UNCHANGED <<chain, tag_state, phase, rb_height, skipped, restarts, reorgs>>

(* Mutant: the level computed from the tag's points at the time of the   *)
(* subsidy read instead of the status snapshot.                           *)
RpcSubsidyLevelLate(r) ==
    /\ rpc[r].pc = "subsidy"
    /\ LET c == rpc[r] IN
       rpc' = [rpc EXCEPT ![r] =
                 RpcRecord("done", c.tag, c.height, c.seen, c.points,
                           PolLevelFromPoints(c.seen, tag_state[c.tag].points),
                           AllowedForPoints(tag_state[c.tag].points, c.height),
                           GetBaseSubsidy(c.height))]
    /\ UNCHANGED <<chain, tag_state, phase, rb_height, skipped, restarts, reorgs>>

(* pol::GetAllowedSubsidy(tag, height), which takes its own snapshot of   *)
(* the tag's points, then GetBaseSubsidy, and the reply object with the   *)
(* level PolLevelFromPoints computes from the first snapshot.             *)
RpcSubsidy(r) ==
    /\ rpc[r].pc = "subsidy"
    /\ LET c == rpc[r] IN
       rpc' = [rpc EXCEPT ![r] =
                 RpcRecord("done", c.tag, c.height, c.seen, c.points,
                           PolLevelFromPoints(c.seen, c.points),
                           AllowedForPoints(tag_state[c.tag].points, c.height),
                           GetBaseSubsidy(c.height))]
    /\ UNCHANGED <<chain, tag_state, phase, rb_height, skipped, restarts, reorgs>>

Next ==
    \/ \E b \in Block : ConnectBlock(b)
    \/ DisconnectTip
    \/ RestartAndRebuild
    \/ RebuildScan
    \/ RebuildDone
    \/ \E r \in Readers :
          \/ \E t \in Tags, h \in 0..MaxHeight : RpcBegin(r, t, h)
          \/ RpcStatus(r)
          \/ RpcSubsidy(r)

Spec == Init /\ [][Next]_vars

-----------------------------------------------------------------------------
(* Every record of the ledger is one the update rules can produce: a tag  *)
(* never seen has the default record; a seen tag was first seen at or     *)
(* above the start height and not after it was last seen, has been       *)
(* counted at most once per height in between, and its month is the      *)
(* month of its last sighting.  It rests on OnConnectBlock only ever      *)
(* being called with heights above every height seen so far.             *)
StatusOK(s) ==
    /\ ~s.seen => s = DefaultStatus
    /\ s.seen =>
          /\ StartHeight <= s.first_seen_height
          /\ s.first_seen_height <= s.last_seen_height
          /\ 1 <= s.blocks_seen
          /\ s.blocks_seen <= s.last_seen_height - s.first_seen_height + 1
          /\ s.last_seen_month = MonthIndex(s.last_seen_height)

(* Every record of g_tag_state is well formed in that sense.             *)
StatusWellFormed == \A t \in Tags : StatusOK(tag_state[t])

(* Every seen tag was last seen at a height the chain holds, and during a *)
(* rebuild at a height the scan has passed: the next sighting is always  *)
(* above every recorded one.  With StatusWellFormed it is inductive.       *)
SeenBelowNext ==
    \A t \in Tags :
        tag_state[t].seen =>
            /\ tag_state[t].last_seen_height <= Tip
            /\ phase = "rebuild" => tag_state[t].last_seen_height < rb_height

IInv == TypeOK /\ StatusWellFormed /\ SeenBelowNext

(* The ledger a replay of the chain c builds: OnConnectBlock applied to   *)
(* the blocks at heights 1..n in order, from the empty table, except at  *)
(* the heights in skip, whose blocks are not applied (a ReadBlock that   *)
(* failed in RebuildFromActiveChain).                                     *)
LedgerReplay(c, skip) ==
    LET led[n \in 0..Len(c)] ==
            IF n = 0 THEN EmptyTable
            ELSE IF n \in skip THEN led[n - 1]
            ELSE OnConnectBlock(led[n - 1], c[n].tag, n, c[n].time)
    IN  led

(* The heights whose blocks the ledger has taken in: the whole chain when *)
(* running, the heights below the scan's during a rebuild.                *)
ScannedTo ==
    IF phase = "running" \/ rb_height > Tip THEN Tip
    ELSE IF rb_height = 0 THEN 0 ELSE rb_height - 1

(* The ledger is the replay of the chain with exactly the failed reads    *)
(* left out: through live connects, restarts and rebuilds in which any   *)
(* ReadBlock may fail, g_tag_state is what OnConnectBlock makes of the   *)
(* scanned blocks in height order, skipping those and only those whose   *)
(* read failed in the last rebuild (the `continue` of the scan loop).    *)
(* With no failed read it is the ledger a node that connected the same   *)
(* blocks live holds.                                                     *)
RebuildIsReplay == tag_state = LedgerReplay(chain, skipped)[ScannedTo]

(* Two sightings within the month already counted never change a tag's   *)
(* points: whenever a step leaves a record's last_seen_month as it was,  *)
(* its points stay as they were (OnConnectBlock's month-transition test). *)
SamePeriodNoAccrual ==
    [][\A t \in Tags :
          tag_state'[t].last_seen_month = tag_state[t].last_seen_month
          => tag_state'[t].points = tag_state[t].points]_vars

(* getpoladdressstatus answers with one view of the tag: the allowed     *)
(* subsidy it reports is the one the points it reports give.              *)
ReplyConsistent ==
    \A r \in Readers :
        rpc[r].pc = "done" =>
            rpc[r].allowed = AllowedForPoints(rpc[r].points, rpc[r].height)

(* The ledger as the spec promises it (PolLedgerAbstract): the ledger    *)
(* readers can reach is g_tag_state while the node runs, and nothing     *)
(* while the rebuild holds cs_main.                                       *)
Abs == INSTANCE PolLedgerAbstract
           WITH EmptyLedger <- EmptyTable,
                Apply <- LAMBDA l, b, h : OnConnectBlock(l, b.tag, h, b.time),
                running <- (phase = "running"),
                ledger  <- IF phase = "running" THEN tag_state ELSE EmptyTable

(* The node implements that ledger: every live connect is the abstract   *)
(* update, a restart is a crash, and a finished rebuild recovers the     *)
(* replay of the chain with gaps only where reads failed.                 *)
ImplementsLedger == Abs!Spec

=============================================================================
