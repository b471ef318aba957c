------------------------------ MODULE PolReplay ------------------------------
(***************************************************************************)
(* The reference ledger: what the spec says the ledger is for a given     *)
(* chain, written from the spec's closed forms (first/last sighting,      *)
(* count, the points of the sequence of active months) rather than by     *)
(* applying OnConnectBlock, and the property that the engine's ledger is  *)
(* always that ledger.  Used by TLC only.                                 *)
(***************************************************************************)
EXTENDS PolEngine, FiniteSetsExt

(* The spec's accrual period and score clamp.                               *)
Period(h) == IF MonthBlocks <= 0 THEN 0 ELSE h \div MonthBlocks
Bounded(x) == IF x < 0 THEN 0 ELSE IF x > 24 THEN 24 ELSE x

(* Heights among the first n at which tag t was processed.                 *)
Sightings(t, n) == {h \in 1..n : h >= StartHeight /\ chain[h].tag = t}

(* Points after the active months `months`, processed in increasing order: *)
(* 2 for the first, and for each later one 2 minus one per empty period   *)
(* since the previous, clamped after each.                               *)
Accrual(months) ==
    LET top == Period(MaxHeight)
        acc[m \in -1..top] ==
            IF m = -1 THEN [p |-> 0, last |-> -1]
            ELSE IF m \notin months THEN acc[m - 1]
            ELSE IF acc[m - 1].last = -1 THEN [p |-> 2, last |-> m]
            ELSE [p |-> Bounded(acc[m - 1].p - (m - acc[m - 1].last - 1) + 2),
                  last |-> m]
    IN  acc[top]

(* The spec's ledger after the blocks at heights 1..n of the chain.        *)
Replay(n) ==
    [t \in Tags |->
        LET H == Sightings(t, n)
            A == Accrual({Period(h) : h \in H})
        IN  IF H = {} THEN DefaultStatus
            ELSE [seen |-> TRUE, first_seen_height |-> Min(H),
                  last_seen_height |-> Max(H), blocks_seen |-> Cardinality(H),
                  last_seen_time |-> chain[Max(H)].time, points |-> A.p,
                  last_seen_month |-> A.last]]

(* The ledger agrees with the chain: between blocks it is the spec's      *)
(* ledger of the whole active chain, and during a rebuild in which no     *)
(* ReadBlock failed it is the ledger of the heights scanned so far.  This *)
(* is what makes a restarted node (rebuilt ledger) and a node that ran    *)
(* through the same blocks (live ledger) compute the same subsidy.        *)
LedgerMatchesChain ==
    skipped = {} =>
        tag_state = Replay(IF phase = "running" THEN Tip
                           ELSE Max({0, rb_height - 1}))

(* A restart repairs what a reorganisation left behind: when              *)
(* RebuildFromActiveChain returns and no ReadBlock failed, g_tag_state is  *)
(* the spec's ledger of the active chain, whatever blocks were            *)
(* disconnected before the restart.  This rests on the clear at the top   *)
(* of the rebuild and on the scan covering every height to the tip.      *)
RebuildRepairsLedger ==
    [][RebuildDone /\ skipped = {} => tag_state = Replay(Tip)]_vars

=============================================================================
