------------------------------ MODULE PolWallet ------------------------------
(***************************************************************************)
(* The wallet GUI and the node together: the loyalty page's Refresh runs  *)
(* getpoladdressstatus through executeRpc, the RPC handler reads the PoL  *)
(* ledger while the validation thread connects blocks, and the page shows *)
(* the reply.  The GUI's call is the engine's reader Gui; the other       *)
(* readers are RPC clients of the node.  A restart of the process         *)
(* rebuilds the ledger and re-creates the page.                           *)
(***************************************************************************)
EXTENDS PolEngine, PolLoyaltyPage

CONSTANT Gui   \* the request thread executeRpc runs the GUI's call on

ASSUME WalletAssumption == Gui \in Readers

all_vars == <<vars, page_vars>>

WalletInit == Init /\ PageStart

(* The page's handlers run only once the node is up and the window is     *)
(* shown, that is outside a startup rebuild.                              *)
PageStep(A) == phase = "running" /\ A /\ UNCHANGED vars

(* A refresh that gets as far as executeRpc starts the Gui reader's call *)
(* getpoladdressstatus(miner_id) at the tip height; one that stops early *)
(* leaves the node alone.                                                  *)
RefreshStep(A) ==
    /\ phase = "running"
    /\ A
    /\ IF gui_pc' = "rpc"
       THEN RpcBegin(Gui, AddrTag[miner_id'], Tip)
       ELSE UNCHANGED vars

(* executeRpc returns the Gui reader's finished call to the page.          *)
ReplyStep ==
    /\ rpc[Gui].pc = "done"
    /\ ApplyReply(rpc[Gui])
    /\ rpc' = [rpc EXCEPT ![Gui] = RpcIdle]
    /\ UNCHANGED <<chain, tag_state, phase, rb_height, skipped, restarts, reorgs>>

(* A restart ends the process: the ledger is rebuilt, the page is built  *)
(* again from the same address book.                                      *)
WalletRestart ==
    /\ RestartAndRebuild
    /\ PageRecreated

(* The node's own steps leave the page as it is.                           *)
NodeStep ==
    /\ \/ \E b \in Block : ConnectBlock(b)
       \/ DisconnectTip
       \/ RebuildScan
       \/ RebuildDone
       \/ \E r \in Readers \ {Gui}, t \in Tags, h \in 0..MaxHeight :
             RpcBegin(r, t, h)
       \/ \E r \in Readers : RpcStatus(r) \/ RpcSubsidy(r)
    /\ UNCHANGED page_vars

WalletNext ==
    \/ NodeStep
    \/ WalletRestart
    \/ PageStep(SetClientModel)
    \/ \E B \in SUBSET Addrs : PageStep(BookChanged(B))
    \/ \E a \in Addrs : PageStep(UserSelect(a))
    \/ \E x \in Addrs \cup {NoAddr} : PageStep(UserEdit(x))
    \/ RefreshStep(ClickRefresh)
    \/ RefreshStep(ReturnPressed)
    \/ ReplyStep

WalletSpec == WalletInit /\ [][WalletNext]_all_vars

-----------------------------------------------------------------------------
(* Whenever the page is idle, the status it shows belongs to the address *)
(* it records as queried, m_pol_miner_id: the text signals clear the     *)
(* status on every edit or selection, and a dropdown rebuild, which runs *)
(* with signals blocked, changes neither.                                 *)
ShownForMinerId ==
    gui_pc = "idle" /\ pol.have => miner_id \in Addrs /\ pol.tag = AddrTag[miner_id]

(* The level the page shows is the spec's level of the points it shows:  *)
(* getpoladdressstatus computes it from the same status snapshot as the  *)
(* points, although its allowed subsidy comes from a later read, and the *)
(* page zeroes both for an unseen tag.                                    *)
ShownLevelMatchesPoints ==
    pol.have => pol.level = SpecLevel(pol.seen, pol.points)

(* Whenever the page is idle, the status it shows belongs to the address *)
(* in the box, the one the page asks the user to enter                   *)
(* ("Enter a Miner Address."): the address typed, or the one of the entry *)
(* whose text the box holds.                                              *)
BoxAddress == IF text \in Addrs THEN text
              ELSE CHOOSE a \in Addrs : ItemText[a] = text

ShownForBoxAddress ==
    gui_pc = "idle" /\ pol.have =>
        text # NoAddr /\ pol.tag = AddrTag[BoxAddress]

=============================================================================
