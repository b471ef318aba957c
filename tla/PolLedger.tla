------------------------------ MODULE PolLedger ------------------------------
(***************************************************************************)
(* The Proof-of-Loyalty ledger of src/pol/pol.cpp: the per-tag status     *)
(* record (MinerTagStatus), the month index, and the whole body of        *)
(* OnConnectBlock as a function of the table it updates.  The table       *)
(* g_tag_state is a total function from tags to MinerTagStatus in which   *)
(* an absent key is the default-constructed record: OnConnectBlock         *)
(* creates a key with operator[] and sets seen = TRUE at once, so a key   *)
(* is present exactly when its record has seen = TRUE, and every reader   *)
(* (GetAllowedSubsidy, getpoladdressstatus) treats an absent key as the   *)
(* default record.  HexStr(tag) is injective, so the key is the tag.      *)
(***************************************************************************)
EXTENDS Integers

CONSTANTS
    Tags,         \* the miner tags that occur (HexStr keys of g_tag_state)
    NoTag,        \* ExtractMinerTagFromBlock returned std::nullopt
    MonthBlocks,  \* -pol_monthblocks (GetPolMonthBlocks), any int
    StartHeight   \* -pol_startheight (GetPolStartHeight), any int

ASSUME LedgerAssumption ==
    /\ NoTag \notin Tags
    /\ MonthBlocks \in Int
    /\ StartHeight \in Int

(* std::clamp(x, 0, 24): the bounds of the loyalty score.                  *)
MaxPoints == 24
Clamp(x) == IF x < 0 THEN 0 ELSE IF x > MaxPoints THEN MaxPoints ELSE x

(* MinerTagStatus and its default-constructed value; its declaration      *)
(* gives the points the range 0..24.                                       *)
Status == [seen : BOOLEAN, first_seen_height : Int, last_seen_height : Int,
           blocks_seen : Nat, last_seen_time : Int, points : 0..MaxPoints,
           last_seen_month : Int]

DefaultStatus == [seen |-> FALSE, first_seen_height |-> -1,
                  last_seen_height |-> -1, blocks_seen |-> 0,
                  last_seen_time |-> 0, points |-> 0, last_seen_month |-> -1]

EmptyTable == [t \in Tags |-> DefaultStatus]

(* MonthIndex(height, month_blocks).                                        *)
MonthIndex(height) ==
    IF MonthBlocks <= 0 \/ height < 0 THEN 0 ELSE height \div MonthBlocks

(* Mutants: the month test made non-strict, the clamp dropped.            *)
MonthPointsSameMonth(s, cur_month) ==
    IF cur_month >= s.last_seen_month
    THEN LET missed == cur_month - s.last_seen_month - 1
             p      == IF missed > 0 THEN s.points - missed * 1 ELSE s.points
         IN  Clamp(p + 2)
    ELSE s.points
MonthPointsNoClamp(s, cur_month) ==
    IF cur_month > s.last_seen_month
    THEN LET missed == cur_month - s.last_seen_month - 1
             p      == IF missed > 0 THEN s.points - missed * 1 ELSE s.points
         IN  p + 2
    ELSE s.points

(* The points after a sighting in month cur_month of a tag already seen:  *)
(* +2 for the new active month, -1 for each month missed in between; no   *)
(* change within the month already counted.                               *)
MonthPoints(s, cur_month) ==
    IF cur_month > s.last_seen_month
    THEN LET missed == cur_month - s.last_seen_month - 1
             p      == IF missed > 0 THEN s.points - missed * 1 ELSE s.points
         IN  Clamp(p + 2)
    ELSE s.points

(* Mutant: last_seen_month no longer advanced on a month transition.      *)
SightStatusStaleMonth(s, height, block_time) ==
    LET cur_month == MonthIndex(height) IN
    [seen              |-> TRUE,
     first_seen_height |-> IF s.seen THEN s.first_seen_height ELSE height,
     last_seen_height  |-> height,
     blocks_seen       |-> s.blocks_seen + 1,
     last_seen_time    |-> block_time,
     points            |-> IF s.seen THEN MonthPoints(s, cur_month)
                           ELSE Clamp(s.points + 2),
     last_seen_month   |-> IF s.seen THEN s.last_seen_month ELSE cur_month]

(* The record g_tag_state[key] after a sighting at (height, block_time).  *)
SightStatus(s, height, block_time) ==
    LET cur_month == MonthIndex(height) IN
    [seen              |-> TRUE,
     first_seen_height |-> IF s.seen THEN s.first_seen_height ELSE height,
     last_seen_height  |-> height,
     blocks_seen       |-> s.blocks_seen + 1,
     last_seen_time    |-> block_time,
     points            |-> IF s.seen THEN MonthPoints(s, cur_month)
                           ELSE Clamp(s.points + 2),
     last_seen_month   |-> IF s.seen /\ cur_month <= s.last_seen_month
                           THEN s.last_seen_month ELSE cur_month]

(* OnConnectBlock(block, height, block_time), whose block has already     *)
(* been reduced to the tag ExtractMinerTagFromBlock finds in it: inert    *)
(* below the start height or without a tag, else the sighting is applied *)
(* to the tag's record while g_pol_mutex is held.                          *)
OnConnectBlock(table, tag, height, block_time) ==
    IF height < StartHeight \/ tag = NoTag
    THEN table
    ELSE [table EXCEPT ![tag] = SightStatus(@, height, block_time)]

=============================================================================
