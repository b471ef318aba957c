--------------------------- MODULE PolWalletProofs ---------------------------
(***************************************************************************)
(* A proof that the loyalty page never shows, while idle, a status of     *)
(* another tag than that of m_pol_miner_id, for every address book, every *)
(* labelling of the entries and every bound of the node.                  *)
(***************************************************************************)
EXTENDS PolWallet, PolEngineProofs, PolLevelProofs

(* The combo box as the page's slots leave it: its entries and the       *)
(* current entry are addresses, and its text is an address, an entry's   *)
(* text or empty; an entry without data holds a typed address or nothing.*)
PageOK ==
    /\ book \subseteq Addrs
    /\ items \subseteq Addrs
    /\ cur \in Addrs \cup {NoAddr}
    /\ text \in Addrs \cup {NoAddr} \cup {ItemText[a] : a \in items}
    /\ cur = NoAddr => text \in Addrs \cup {NoAddr}
    /\ gui_pc \in {"idle", "rpc"}

(* The Gui reader's call is in flight exactly while refreshPolStatus is   *)
(* blocked in executeRpc, and it asks for the tag of m_pol_miner_id.     *)
GuiCall ==
    /\ gui_pc = "idle" => rpc[Gui].pc = "idle"
    /\ gui_pc = "rpc" => /\ rpc[Gui].pc # "idle"
                         /\ miner_id \in Addrs
                         /\ rpc[Gui].tag = AddrTag[miner_id]

(* The inductive invariant behind ShownForMinerId.                         *)
WInv == TypeOK /\ Tip \in 0..MaxHeight /\ PageOK /\ GuiCall /\ ShownForMinerId

-----------------------------------------------------------------------------
(* The facts of the constants the proof uses.                              *)
LEMMA Consts ==
    /\ Gui \in Readers
    /\ NoAddr \notin Addrs
    /\ \A a \in Addrs : ItemText[a] # NoAddr
    /\ \A a \in Addrs : AddrTag[a] \in Tags
    /\ MaxHeight \in Nat
  BY WalletAssumption, PageAssumption, EngineAssumption DEF Texts

(* The page reads the tag of a finished call from the reply object.       *)
LEMMA ReplyTag ==
    ASSUME NEW c \in RpcState
    PROVE  PolGetField(PolUnwrapRpcResult(c), "tag", NoTag) = c.tag
  BY DEF RpcState, PolGetField, PolUnwrapRpcResult

(* Two intervals 1..a and 1..b of naturals are equal only if a = b.        *)
LEMMA IntervalEq ==
    ASSUME NEW a \in Nat, NEW b \in Nat, 1..a = 1..b
    PROVE  a = b
  <1>1. CASE a < b
    <2>1. b \in 1..b /\ b \notin 1..a
      BY <1>1
    <2>2. QED
      BY <2>1
  <1>2. CASE b < a
    <2>1. a \in 1..a /\ a \notin 1..b
      BY <1>2
    <2>2. QED
      BY <2>1
  <1>3. QED
    BY <1>1, <1>2

(* Dropping the last element of a sequence shortens it by one.            *)
LEMMA LenFront ==
    ASSUME NEW S, NEW s \in Seq(S), Len(s) > 0
    PROVE  Len(SubSeq(s, 1, Len(s) - 1)) = Len(s) - 1
  <1> DEFINE d == SubSeq(s, 1, Len(s) - 1)
  <1>1. d \in Seq(S) /\ DOMAIN d = 1..Len(s) - 1
    OBVIOUS
  <1>2. DOMAIN d = 1..Len(d) /\ Len(d) \in Nat /\ Len(s) - 1 \in Nat
    BY <1>1
  <1>3. 1..Len(d) = 1..Len(s) - 1
    BY <1>1, <1>2
  <1>4. Len(d) = Len(s) - 1
    BY <1>2, <1>3, IntervalEq, Zenon
  <1>5. QED
    BY <1>4 DEF d

(* Every step of the node keeps the tip within its bound.                 *)
LEMMA TipStep ==
    ASSUME TypeOK, Tip \in 0..MaxHeight, Next
    PROVE  Tip' \in 0..MaxHeight
  <1>1. CASE \E b \in Block : ConnectBlock(b)
    BY <1>1, Consts DEF ConnectBlock, TypeOK, Tip
  <1>2. CASE DisconnectTip
    <2>1. chain \in Seq(Block) /\ Len(chain) > 0
          /\ chain' = SubSeq(chain, 1, Len(chain) - 1)
      BY <1>2 DEF DisconnectTip, TypeOK, Tip
    <2>2. Len(SubSeq(chain, 1, Len(chain) - 1)) = Len(chain) - 1
      BY <2>1, LenFront
    <2>3. Len(chain') = Len(chain) - 1
      BY <2>1, <2>2
    <2>4. Len(chain) \in 0..MaxHeight
      BY DEF Tip
    <2>5. Len(chain') \in 0..MaxHeight
      BY <2>1, <2>3, <2>4, Consts
    <2>6. QED
      BY <2>5 DEF Tip
  <1>3. CASE ~(\E b \in Block : ConnectBlock(b)) /\ ~DisconnectTip
    <2>1. chain' = chain
      BY <1>3 DEF Next, RestartAndRebuild, RebuildScan, RebuildDone, RpcBegin,
                 RpcStatus, RpcSubsidy
    <2>2. QED
      BY <2>1 DEF Tip
  <1>4. QED
    BY <1>1, <1>2, <1>3

(* The node's steps leave the Gui reader's call alone, but for moving it *)
(* along: its tag stays, and whether it is in flight.                     *)
LEMMA NodeStepGui ==
    ASSUME TypeOK, NodeStep
    PROVE  /\ rpc'[Gui].tag = rpc[Gui].tag
           /\ rpc'[Gui].pc = "idle" <=> rpc[Gui].pc = "idle"
  <1> USE Consts
  <1>1. CASE \E b \in Block : ConnectBlock(b)
    BY <1>1 DEF ConnectBlock
  <1>2. CASE DisconnectTip
    BY <1>2 DEF DisconnectTip
  <1>3. CASE RebuildScan
    BY <1>3 DEF RebuildScan
  <1>4. CASE RebuildDone
    BY <1>4 DEF RebuildDone
  <1>5. ASSUME NEW r \in Readers \ {Gui}, NEW t \in Tags, NEW h \in 0..MaxHeight,
               RpcBegin(r, t, h)
        PROVE  rpc'[Gui] = rpc[Gui]
    BY <1>5 DEF RpcBegin, TypeOK
  <1>6. ASSUME NEW r \in Readers, RpcStatus(r)
        PROVE  /\ rpc'[Gui].tag = rpc[Gui].tag
               /\ rpc'[Gui].pc = "idle" <=> rpc[Gui].pc = "idle"
    BY <1>6 DEF RpcStatus, RpcRecord, TypeOK
  <1>7. ASSUME NEW r \in Readers, RpcSubsidy(r)
        PROVE  /\ rpc'[Gui].tag = rpc[Gui].tag
               /\ rpc'[Gui].pc = "idle" <=> rpc[Gui].pc = "idle"
    BY <1>7 DEF RpcSubsidy, RpcRecord, TypeOK
  <1>8. QED
    BY <1>1, <1>2, <1>3, <1>4, <1>5, <1>6, <1>7 DEF NodeStep

(* The dropdown rebuild keeps the combo box well formed: the address it  *)
(* preserves is an address or nothing, and whatever it puts back as text *)
(* is an address, an entry's text or nothing.                            *)
LEMMA DropdownOK ==
    ASSUME PageOK, NEW B \in SUBSET Addrs, Dropdown(B)
    PROVE  /\ items' \subseteq Addrs
           /\ cur' \in Addrs \cup {NoAddr}
           /\ text' \in Addrs \cup {NoAddr} \cup {ItemText[a] : a \in items'}
           /\ cur' = NoAddr => text' \in Addrs \cup {NoAddr}
  <1> DEFINE preserve == IF cur # NoAddr THEN cur ELSE text
  <1>1. preserve \in Addrs \cup {NoAddr}
    BY DEF PageOK
  <1>2. items' = B
    BY DEF Dropdown
  <1>3. CASE B = {} /\ cur' = NoAddr
             /\ text' = IF preserve # NoAddr THEN preserve ELSE NoAddr
    BY <1>1, <1>2, <1>3
  <1>4. ASSUME NEW first \in B,
               cur' = IF preserve \in B THEN preserve ELSE first,
               text' = IF preserve \in B THEN ItemText[preserve]
                       ELSE IF preserve # NoAddr THEN preserve ELSE ItemText[first]
        PROVE  /\ items' \subseteq Addrs
               /\ cur' \in Addrs \cup {NoAddr}
               /\ text' \in Addrs \cup {NoAddr} \cup {ItemText[a] : a \in items'}
               /\ cur' = NoAddr => text' \in Addrs \cup {NoAddr}
    BY <1>1, <1>2, <1>4, Consts
  <1>5. QED
    BY <1>3, <1>4 DEF Dropdown

(* A refresh that starts from a well-formed box asks for the tag of the  *)
(* address it records as m_pol_miner_id, or clears the page.             *)
LEMMA RefreshOK ==
    ASSUME WInv, NEW c \in Addrs \cup {NoAddr},
           c = NoAddr => text \in Addrs \cup {NoAddr},
           phase = "running", RefreshStart(c), cur' = c,
           IF gui_pc' = "rpc" THEN RpcBegin(Gui, AddrTag[miner_id'], Tip)
                              ELSE UNCHANGED vars
    PROVE  WInv'
  <1> DEFINE q == IF c # NoAddr THEN c ELSE text
  <1> USE Consts
  <1>1. /\ gui_pc = "idle" /\ rpc[Gui].pc = "idle"
        /\ UNCHANGED <<book, items, client, text>>
    BY DEF RefreshStart, WInv, GuiCall
  <1>2. PageOK'
    BY <1>1 DEF WInv, PageOK, RefreshStart
  <1>3. CASE gui_pc' = "rpc"
    <2>1. client /\ q # NoAddr /\ miner_id' = q
      BY <1>1, <1>3 DEF RefreshStart
    <2>2. miner_id' \in Addrs
      BY <2>1
    <2>3. RpcBegin(Gui, AddrTag[miner_id'], Tip)
      BY <1>3
    <2>4. Next /\ Tip' = Tip
      BY <2>2, <2>3 DEF Next, RpcBegin, WInv, Tip
    <2>5. TypeOK'
      BY <2>4, TypeStep DEF WInv
    <2>6. rpc'[Gui].pc = "status" /\ rpc'[Gui].tag = AddrTag[miner_id']
      BY <2>3 DEF RpcBegin, RpcRecord, WInv, TypeOK
    <2>7. QED
      BY <1>2, <1>3, <2>2, <2>4, <2>5, <2>6 DEF WInv, GuiCall, ShownForMinerId
  <1>4. CASE gui_pc' # "rpc"
    <2>1. gui_pc' = "idle" /\ pol' = Cleared
      BY <1>1, <1>4 DEF RefreshStart
    <2>2. UNCHANGED vars
      BY <1>4
    <2>3. TypeOK' /\ Tip' = Tip /\ rpc' = rpc
      BY <2>2 DEF vars, TypeOK, Tip, WInv
    <2>4. QED
      BY <1>1, <1>2, <2>1, <2>3 DEF WInv, GuiCall, ShownForMinerId, Cleared
  <1>5. QED
    BY <1>3, <1>4

(* The page's own slots leave the node alone, run only while no call is  *)
(* in flight, and clear the shown status whenever m_pol_miner_id moves. *)
LEMMA PageSlotOK ==
    ASSUME WInv, UNCHANGED vars,
           \/ SetClientModel
           \/ \E B \in SUBSET Addrs : BookChanged(B)
           \/ \E a \in Addrs : UserSelect(a)
           \/ \E x \in Addrs \cup {NoAddr} : UserEdit(x)
    PROVE  WInv'
  <1> USE Consts
  <1>1. TypeOK' /\ Tip' = Tip /\ rpc' = rpc
    BY DEF vars, TypeOK, Tip, WInv
  <1>2. /\ gui_pc' = gui_pc
        /\ gui_pc = "rpc" => miner_id' = miner_id
        /\ pol' # pol => pol' = Cleared
        /\ miner_id' # miner_id => pol' = Cleared
    BY DEF SetClientModel, BookChanged, UserSelect, UserEdit,
           PolMinerAddressChanged
  <1>3. GuiCall' /\ ShownForMinerId'
    BY <1>1, <1>2 DEF WInv, GuiCall, ShownForMinerId, Cleared
  <1>4. PageOK'
    <2>1. CASE SetClientModel
      BY <2>1 DEF SetClientModel, WInv, PageOK
    <2>2. ASSUME NEW B \in SUBSET Addrs, BookChanged(B) PROVE PageOK'
      <3>1. book' = B /\ Dropdown(B) /\ gui_pc' = gui_pc
        BY <2>2 DEF BookChanged
      <3>2. QED
        BY <3>1, DropdownOK DEF WInv, PageOK
    <2>3. ASSUME NEW a \in Addrs, UserSelect(a) PROVE PageOK'
      BY <2>3 DEF UserSelect, WInv, PageOK
    <2>4. ASSUME NEW x \in Addrs \cup {NoAddr}, UserEdit(x) PROVE PageOK'
      BY <2>4 DEF UserEdit, WInv, PageOK
    <2>5. QED
      BY <2>1, <2>2, <2>3, <2>4
  <1>5. QED
    BY <1>1, <1>3, <1>4 DEF WInv

(* The wallet starts in a state of the invariant.                          *)
LEMMA WInvInit == WalletInit => WInv
  <1> SUFFICES ASSUME WalletInit PROVE WInv
    OBVIOUS
  <1> USE Consts
  <1>1. TypeOK
    BY TypeInit DEF WalletInit
  <1>2. Tip \in 0..MaxHeight
    BY DEF WalletInit, Init, Tip
  <1>3. PageOK
    BY DEF WalletInit, PageStart, PageOK
  <1>4. GuiCall /\ ShownForMinerId
    BY DEF WalletInit, Init, PageStart, GuiCall, RpcIdle, RpcRecord,
           ShownForMinerId, Cleared
  <1>5. QED
    BY <1>1, <1>2, <1>3, <1>4 DEF WInv

(* Every step of the wallet keeps the invariant.                           *)
LEMMA WInvStep == WInv /\ [WalletNext]_all_vars => WInv'
  <1> SUFFICES ASSUME WInv, [WalletNext]_all_vars PROVE WInv'
    OBVIOUS
  <1> USE Consts
  <1>1. CASE NodeStep
    <2>1. Next
      BY <1>1 DEF NodeStep, Next
    <2>2. TypeOK' /\ Tip' \in 0..MaxHeight
      BY <2>1, TypeStep, TipStep DEF WInv
    <2>3. /\ rpc'[Gui].tag = rpc[Gui].tag
          /\ rpc'[Gui].pc = "idle" <=> rpc[Gui].pc = "idle"
      BY <1>1, NodeStepGui DEF WInv
    <2>4. UNCHANGED page_vars
      BY <1>1 DEF NodeStep
    <2>5. QED
      BY <2>2, <2>3, <2>4 DEF WInv, PageOK, GuiCall, ShownForMinerId, page_vars
  <1>2. CASE WalletRestart
    <2>1. Next /\ chain' = chain
      BY <1>2 DEF WalletRestart, Next, RestartAndRebuild
    <2>2. TypeOK' /\ Tip' \in 0..MaxHeight
      BY <2>1, TypeStep DEF WInv, Tip
    <2>3. PageOK'
      BY <1>2 DEF WalletRestart, PageRecreated, WInv, PageOK
    <2>4. GuiCall' /\ ShownForMinerId'
      BY <1>2 DEF WalletRestart, RestartAndRebuild, PageRecreated, RpcIdle,
                  RpcRecord, GuiCall, ShownForMinerId, Cleared
    <2>5. QED
      BY <2>2, <2>3, <2>4 DEF WInv
  <1>3. CASE PageStep(SetClientModel)
    BY <1>3, PageSlotOK DEF PageStep
  <1>4. CASE \E B \in SUBSET Addrs : PageStep(BookChanged(B))
    BY <1>4, PageSlotOK DEF PageStep
  <1>5. CASE \E a \in Addrs : PageStep(UserSelect(a))
    BY <1>5, PageSlotOK DEF PageStep
  <1>6. CASE \E x \in Addrs \cup {NoAddr} : PageStep(UserEdit(x))
    BY <1>6, PageSlotOK DEF PageStep
  <1>7. CASE RefreshStep(ClickRefresh)
    <2>1. cur \in Addrs \cup {NoAddr} /\ (cur = NoAddr => text \in Addrs \cup {NoAddr})
      BY DEF WInv, PageOK
    <2>2. QED
      BY <1>7, <2>1, RefreshOK DEF RefreshStep, ClickRefresh
  <1>8. CASE RefreshStep(ReturnPressed)
    <2> DEFINE c == IF text = NoAddr THEN cur
                    ELSE IF \E a \in items : ItemText[a] = text
                         THEN CHOOSE a \in items : ItemText[a] = text
                         ELSE NoAddr
    <2>1. c \in Addrs \cup {NoAddr} /\ (c = NoAddr => text \in Addrs \cup {NoAddr})
      BY DEF WInv, PageOK
    <2>2. QED
      BY <1>8, <2>1, RefreshOK DEF RefreshStep, ReturnPressed
  <1>9. CASE ReplyStep
    <2>1. /\ gui_pc = "rpc" /\ miner_id \in Addrs
          /\ rpc[Gui].tag = AddrTag[miner_id] /\ rpc[Gui] \in RpcState
      BY <1>9 DEF ReplyStep, ApplyReply, WInv, GuiCall, TypeOK
    <2>2. pol'.tag = rpc[Gui].tag /\ gui_pc' = "idle" /\ miner_id' = miner_id
      BY <1>9, <2>1, ReplyTag DEF ReplyStep, ApplyReply
    <2>3. rpc' = [rpc EXCEPT ![Gui] = RpcIdle] /\ chain' = chain
      BY <1>9 DEF ReplyStep
    <2>4. TypeOK' /\ Tip' \in 0..MaxHeight
      BY <1>9, <2>3, RpcIdleType DEF ReplyStep, WInv, TypeOK, Tip
    <2>5. rpc'[Gui].pc = "idle"
      BY <2>3 DEF RpcIdle, RpcRecord, WInv, TypeOK
    <2>6. PageOK'
      BY <1>9 DEF ReplyStep, ApplyReply, WInv, PageOK
    <2>7. QED
      BY <2>1, <2>2, <2>4, <2>5, <2>6 DEF WInv, GuiCall, ShownForMinerId
  <1>10. CASE UNCHANGED all_vars
    BY <1>10 DEF all_vars, vars, page_vars, WInv, TypeOK, Tip, PageOK, GuiCall,
                 ShownForMinerId
  <1>11. QED
    BY <1>1, <1>2, <1>3, <1>4, <1>5, <1>6, <1>7, <1>8, <1>9, <1>10
       DEF WalletNext

(* Whenever the loyalty page is idle, the status it shows is that of the *)
(* tag of m_pol_miner_id: through every interleaving of the page's slots *)
(* with the node's connects, reorganisations, restarts and other RPC     *)
(* clients, for every address book and every bound.                       *)
THEOREM MinerIdShown == WalletSpec => []ShownForMinerId
  <1>1. WalletInit => WInv
    BY WInvInit
  <1>2. WInv /\ [WalletNext]_all_vars => WInv'
    BY WInvStep
  <1>3. WInv => ShownForMinerId
    BY DEF WInv
  <1>4. QED
    BY <1>1, <1>2, <1>3, PTL DEF WalletSpec


-----------------------------------------------------------------------------
(* The level the page shows.                                                *)

(* Every finished getpoladdressstatus call carries the level of the       *)
(* points of its own status snapshot, and the page shows a level that is  *)
(* the spec's level of the points it shows.                               *)
CallsLevel ==
    \A r \in Readers :
        rpc[r].pc = "done" =>
            rpc[r].level = PolLevelFromPoints(rpc[r].seen, rpc[r].points)

ShownLevel ==
    pol.have => /\ pol.seen \in BOOLEAN /\ pol.points \in Int
                /\ pol.level = SpecLevel(pol.seen, pol.points)

LevelInv == CallsLevel /\ ShownLevel

(* The page reads every field of a finished call from the reply object.   *)
LEMMA ReplyFields ==
    ASSUME NEW c \in RpcState, NEW dflt
    PROVE  /\ PolUnwrapRpcResult(c) = c
           /\ PolGetField(c, "seen", dflt) = c.seen
           /\ PolGetField(c, "points", dflt) = c.points
           /\ PolGetField(c, "level", dflt) = c.level
  BY DEF RpcState, PolGetField, PolUnwrapRpcResult

(* Every step of the node's readers keeps CallsLevel: the level a call    *)
(* reports is computed in the step that finishes it, from the status     *)
(* snapshot the call carries.                                              *)
LEMMA CallsLevelStep ==
    ASSUME TypeOK, CallsLevel,
           \/ rpc' = rpc
           \/ rpc' = [r \in Readers |-> RpcIdle]
           \/ rpc' = [rpc EXCEPT ![Gui] = RpcIdle]
           \/ \E r \in Readers : \E t, h : RpcBegin(r, t, h)
           \/ \E r \in Readers : RpcStatus(r) \/ RpcSubsidy(r)
    PROVE  CallsLevel'
  <1> USE Consts
  <1>1. CASE rpc' = rpc
    BY <1>1 DEF CallsLevel
  <1>2. CASE rpc' = [r \in Readers |-> RpcIdle]
    BY <1>2 DEF CallsLevel, RpcIdle, RpcRecord
  <1>3. CASE rpc' = [rpc EXCEPT ![Gui] = RpcIdle]
    BY <1>3 DEF CallsLevel, RpcIdle, RpcRecord, TypeOK
  <1>4. ASSUME NEW r \in Readers, NEW t, NEW h, RpcBegin(r, t, h)
        PROVE  CallsLevel'
    BY <1>4 DEF RpcBegin, CallsLevel, RpcRecord, TypeOK
  <1>5. ASSUME NEW r \in Readers, RpcStatus(r) PROVE CallsLevel'
    BY <1>5 DEF RpcStatus, CallsLevel, RpcRecord, TypeOK
  <1>6. ASSUME NEW r \in Readers, RpcSubsidy(r) PROVE CallsLevel'
    BY <1>6 DEF RpcSubsidy, CallsLevel, RpcRecord, TypeOK
  <1>7. QED
    BY <1>1, <1>2, <1>3, <1>4, <1>5, <1>6

(* The reply the page applies shows the spec's level of its points.       *)
LEMMA ApplyReplyLevel ==
    ASSUME NEW c \in RpcState, c.pc = "done",
           c.level = PolLevelFromPoints(c.seen, c.points), ApplyReply(c)
    PROVE  ShownLevel'
  <1>1. c.seen \in BOOLEAN /\ c.points \in Int
    BY DEF RpcState
  <1>2. /\ pol'.seen = c.seen /\ pol'.have
        /\ pol'.points = IF c.seen THEN c.points ELSE 0
        /\ pol'.level = IF c.seen THEN c.level ELSE 0
    BY DEF ApplyReply, PolGetField, PolUnwrapRpcResult, RpcState
  <1>3. PolLevelFromPoints(c.seen, c.points) = SpecLevel(c.seen, c.points)
    BY <1>1, LevelsAgree
  <1>4. SpecLevel(FALSE, 0) = 0
    BY DEF SpecLevel
  <1>5. CASE c.seen
    BY <1>1, <1>2, <1>3, <1>5 DEF ShownLevel
  <1>6. CASE ~c.seen
    <2>1. c.seen = FALSE
      BY <1>1, <1>6
    <2>2. pol'.have /\ pol'.seen = FALSE /\ pol'.points = 0 /\ pol'.level = 0
      BY <1>2, <2>1
    <2>3. 0 \in Int /\ FALSE \in BOOLEAN
      OBVIOUS
    <2>4. QED
      BY <1>4, <2>2, <2>3, Zenon DEF ShownLevel
  <1>7. QED
    BY <1>1, <1>5, <1>6

(* Every step of the wallet keeps LevelInv.                                *)
LEMMA LevelStep ==
    ASSUME WInv, LevelInv, [WalletNext]_all_vars
    PROVE  LevelInv'
  <1> USE Consts
  <1>1. TypeOK
    BY DEF WInv
  <1>2. CASE NodeStep
    <2>1. CallsLevel'
      BY <1>1, <1>2, CallsLevelStep
         DEF NodeStep, LevelInv, ConnectBlock, DisconnectTip, RebuildScan, RebuildDone
    <2>2. ShownLevel'
      BY <1>2 DEF NodeStep, page_vars, LevelInv, ShownLevel
    <2>3. QED
      BY <2>1, <2>2 DEF LevelInv
  <1>3. CASE WalletRestart
    <2>1. rpc' = [r \in Readers |-> RpcIdle]
      BY <1>3 DEF WalletRestart, RestartAndRebuild
    <2>2. CallsLevel'
      BY <1>1, <2>1, CallsLevelStep DEF LevelInv
    <2>3. pol' = Cleared
      BY <1>3 DEF WalletRestart, PageRecreated
    <2>4. QED
      BY <2>2, <2>3 DEF LevelInv, ShownLevel, Cleared
  <1>4. CASE \/ PageStep(SetClientModel)
             \/ \E B \in SUBSET Addrs : PageStep(BookChanged(B))
             \/ \E a \in Addrs : PageStep(UserSelect(a))
             \/ \E x \in Addrs \cup {NoAddr} : PageStep(UserEdit(x))
    <2>1. UNCHANGED vars
      BY <1>4 DEF PageStep
    <2>2. pol' = pol \/ pol' = Cleared
      BY <1>4 DEF PageStep, SetClientModel, BookChanged, UserSelect, UserEdit,
                  PolMinerAddressChanged
    <2>3. QED
      BY <2>1, <2>2 DEF vars, LevelInv, CallsLevel, ShownLevel, Cleared
  <1>5. CASE RefreshStep(ClickRefresh) \/ RefreshStep(ReturnPressed)
    <2> DEFINE c == IF text = NoAddr THEN cur
                    ELSE IF \E a \in items : ItemText[a] = text
                         THEN CHOOSE a \in items : ItemText[a] = text
                         ELSE NoAddr
    <2>1. PICK c0 : RefreshStep(RefreshStart(c0) /\ cur' = c0)
      BY <1>5 DEF ClickRefresh, ReturnPressed
    <2>2. pol' = pol \/ pol' = Cleared
      BY <2>1 DEF RefreshStep, RefreshStart
    <2>3. CallsLevel'
      <3>1. CASE gui_pc' = "rpc"
        BY <1>1, <2>1, <3>1, CallsLevelStep, Consts DEF RefreshStep, LevelInv, TypeOK
      <3>2. CASE gui_pc' # "rpc"
        BY <2>1, <3>2 DEF RefreshStep, vars, LevelInv, CallsLevel
      <3>3. QED
        BY <3>1, <3>2
    <2>4. QED
      BY <2>2, <2>3 DEF LevelInv, ShownLevel, Cleared
  <1>6. CASE ReplyStep
    <2>1. rpc[Gui] \in RpcState /\ rpc[Gui].pc = "done"
          /\ rpc[Gui].level = PolLevelFromPoints(rpc[Gui].seen, rpc[Gui].points)
      BY <1>1, <1>6 DEF ReplyStep, TypeOK, LevelInv, CallsLevel
    <2>2. ShownLevel'
      BY <1>6, <2>1, ApplyReplyLevel DEF ReplyStep
    <2>3. CallsLevel'
      BY <1>1, <1>6, CallsLevelStep DEF ReplyStep, LevelInv
    <2>4. QED
      BY <2>2, <2>3 DEF LevelInv
  <1>7. CASE UNCHANGED all_vars
    BY <1>7 DEF all_vars, vars, page_vars, LevelInv, CallsLevel, ShownLevel
  <1>8. QED
    BY <1>2, <1>3, <1>4, <1>5, <1>6, <1>7 DEF WalletNext

(* The level the loyalty page shows is always the spec's level of the    *)
(* points it shows, although getpoladdressstatus reads the ledger twice  *)
(* and a connect may come between the two reads: the RPC computes the    *)
(* level from its first snapshot, the page takes it with the points of   *)
(* that snapshot, and all three copies of PolLevelFromPoints agree with   *)
(* the spec (LevelsAgree).                                                 *)
THEOREM LevelShown == WalletSpec => []ShownLevelMatchesPoints
  <1>1. WalletInit => WInv /\ LevelInv
    BY WInvInit DEF WalletInit, Init, PageStart, LevelInv, CallsLevel, ShownLevel,
                    RpcIdle, RpcRecord, Cleared
  <1>2. WInv /\ LevelInv /\ [WalletNext]_all_vars => WInv' /\ LevelInv'
    BY WInvStep, LevelStep
  <1>3. LevelInv => ShownLevelMatchesPoints
    BY DEF LevelInv, ShownLevel, ShownLevelMatchesPoints
  <1>4. QED
    BY <1>1, <1>2, <1>3, PTL DEF WalletSpec

=============================================================================
