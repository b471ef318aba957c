--------------------------- MODULE PolLoyaltyPage ---------------------------
(***************************************************************************)
(* The Qt loyalty page (src/qt/loyalitypage.cpp): an editable combo box  *)
(* of the wallet's addresses, and the PoL status the page last fetched    *)
(* with getpoladdressstatus.  Every handler runs on the GUI thread, one   *)
(* at a time; refreshPolStatus blocks that thread in executeRpc, so it is *)
(* split at the call: RefreshStart up to the call, ApplyReply after it.   *)
(* The call itself belongs to the module that composes the page with the *)
(* node.                                                                  *)
(*                                                                         *)
(* The combo box is reduced to what the page reads from it: the address  *)
(* data of the current entry (currentData(), NoAddr when the entry has   *)
(* none) and the edit text (currentText()).  An entry's text is its       *)
(* address, or "label - address" for a labelled one (ItemText); labels    *)
(* are fixed, and since they are not modelled the entry the sorted list  *)
(* puts first is any entry.  The user types addresses or clears the box. *)
(* The behaviour of QComboBox relied upon: typing into the line edit     *)
(* changes the text but not the current entry; the first entry added to  *)
(* an empty combo becomes current; Return inserts the typed text as an entry without data, or   *)
(* selects the entry of that text, before the page's own slot runs.       *)
(* Labels, icons and amount formatting are display only and left out.     *)
(***************************************************************************)
EXTENDS Integers, PolLedger, PolLevel

CONSTANTS
    Addrs,     \* payout addresses the user may enter or keep in the book
    NoAddr,    \* the empty (trimmed) string
    ItemText,  \* ItemText[a]: the text of a's entry in the combo
    AddrTag    \* Tag12FromAddressString: SHA256(address)[:12]

(* The texts the box can hold.                                              *)
Texts == Addrs \cup {ItemText[a] : a \in Addrs} \cup {NoAddr}

ASSUME PageAssumption ==
    /\ NoAddr \notin Addrs
    /\ ItemText \in [Addrs -> Texts \ {NoAddr}]
    /\ \A a, b \in Addrs : ItemText[a] = ItemText[b] => a = b
    /\ \A a, b \in Addrs : ItemText[a] = b => a = b
    /\ AddrTag \in [Addrs -> Tags]

(* The m_pol_* fields of the page that a property reads.                   *)
PolFields == [seen : BOOLEAN, tag : Tags \cup {NoTag}, points : Int,
              level : Int, allowed : Int, base : Int, have : BOOLEAN]

(* The fields after clearPolUi.                                            *)
Cleared == [seen |-> FALSE, tag |-> NoTag, points |-> 0, level |-> 0,
            allowed |-> 0, base |-> 0, have |-> FALSE]

VARIABLES
    book,      \* the wallet's address book (AddressTableModel)
    items,     \* the addresses of the combo's entries
    cur,       \* currentData() of the combo
    text,      \* currentText() of the combo
    miner_id,  \* m_pol_miner_id
    pol,       \* the m_pol_* status fields
    client,    \* clientModel has been set
    gui_pc     \* "rpc" while refreshPolStatus is blocked in executeRpc

page_vars == <<book, items, cur, text, miner_id, pol, client, gui_pc>>

(* updatePolMinerAddressDropdown, with the combo's signals blocked: the  *)
(* entries are rebuilt from the book, the first one becomes current, and *)
(* the preserved address is re-selected, or only put back as edit text.  *)
Dropdown(B) ==
    LET preserve == IF cur # NoAddr THEN cur ELSE text IN
    /\ items' = B
    /\ \/ /\ B = {}
          /\ cur' = NoAddr
          /\ text' = IF preserve # NoAddr THEN preserve ELSE NoAddr
       \/ \E first \in B :
          /\ cur' = IF preserve \in B THEN preserve ELSE first
          /\ text' = IF preserve \in B THEN ItemText[preserve]
                     ELSE IF preserve # NoAddr THEN preserve ELSE ItemText[first]

(* The page once constructed and given its wallet model: setWalletModel  *)
(* fills the combo from the book; nothing is shown yet.                   *)
PageStart ==
    /\ book \in SUBSET Addrs
    /\ items = book
    /\ \/ book = {} /\ cur = NoAddr /\ text = NoAddr
       \/ \E first \in book : cur = first /\ text = ItemText[first]
    /\ miner_id = NoAddr
    /\ pol = Cleared
    /\ client = FALSE
    /\ gui_pc = "idle"

(* The page built again in a new process, over the same address book.    *)
PageRecreated ==
    /\ items' = book
    /\ \/ book = {} /\ cur' = NoAddr /\ text' = NoAddr
       \/ \E first \in book : cur' = first /\ text' = ItemText[first]
    /\ miner_id' = NoAddr
    /\ pol' = Cleared
    /\ client' = FALSE
    /\ gui_pc' = "idle"
    /\ UNCHANGED book

(* setClientModel.                                                          *)
SetClientModel ==
    /\ ~client
    /\ client' = TRUE
    /\ UNCHANGED <<book, items, cur, text, miner_id, pol, gui_pc>>

(* The address book changes; its signals run the dropdown rebuild.        *)
BookChanged(B) ==
    /\ gui_pc = "idle"
    /\ book' = B
    /\ Dropdown(B)
    /\ UNCHANGED <<miner_id, pol, client, gui_pc>>

(* polMinerAddressChanged: the text signals record the new miner id and   *)
(* clear the status.                                                        *)
PolMinerAddressChanged(x) ==
    /\ miner_id' = x
    /\ pol' = Cleared

(* The user picks an entry from the list; a new text emits the signals.   *)
UserSelect(a) ==
    /\ gui_pc = "idle"
    /\ a \in items
    /\ cur' = a
    /\ text' = ItemText[a]
    /\ IF ItemText[a] # text THEN PolMinerAddressChanged(ItemText[a])
                            ELSE UNCHANGED <<miner_id, pol>>
    /\ UNCHANGED <<book, items, client, gui_pc>>

(* Mutant: the text signal no longer clears the status.                   *)
UserEditNoClear(x) ==
    /\ gui_pc = "idle"
    /\ x # text
    /\ text' = x
    /\ miner_id' = x
    /\ UNCHANGED <<book, items, cur, client, gui_pc, pol>>

(* The user edits the text; the current entry stays as it was.            *)
UserEdit(x) ==
    /\ gui_pc = "idle"
    /\ x # text
    /\ text' = x
    /\ PolMinerAddressChanged(x)
    /\ UNCHANGED <<book, items, cur, client, gui_pc>>

(* refreshPolStatus up to executeRpc, for the current entry c: without a *)
(* client model, or without an address, the page is cleared; otherwise   *)
(* the queried address is the entry's data, or the text when it has none,*)
(* and the call starts.                                                   *)
RefreshStart(c) ==
    LET q == IF c # NoAddr THEN c ELSE text IN
    /\ gui_pc = "idle"
    /\ \/ /\ ~client
          /\ pol' = Cleared
          /\ UNCHANGED <<miner_id, gui_pc>>
       \/ /\ client
          /\ miner_id' = q
          /\ IF q = NoAddr THEN pol' = Cleared /\ UNCHANGED gui_pc
                           ELSE gui_pc' = "rpc" /\ UNCHANGED pol
    /\ UNCHANGED <<book, items, client, text>>

(* The Refresh button.                                                      *)
ClickRefresh ==
    /\ RefreshStart(cur)
    /\ cur' = cur

(* Return in the line edit: the combo selects or inserts the typed text   *)
(* (an inserted entry has no data), then the page refreshes.              *)
ReturnPressed ==
    LET c == IF text = NoAddr THEN cur
             ELSE IF \E a \in items : ItemText[a] = text
                  THEN CHOOSE a \in items : ItemText[a] = text
                  ELSE NoAddr IN
    /\ RefreshStart(c)
    /\ cur' = c

(* PolGetNumField and its kin: the field of the reply object, or the     *)
(* default the caller left in place when the field is missing.           *)
PolGetField(obj, key, default) == IF key \in DOMAIN obj THEN obj[key] ELSE default

(* PolUnwrapRpcResult: the "result" member of a wrapper object, else the  *)
(* object itself.                                                          *)
PolUnwrapRpcResult(obj) ==
    IF "result" \in DOMAIN obj THEN obj["result"] ELSE obj

(* refreshPolStatus after executeRpc returns the reply: it is unwrapped,  *)
(* the fields are parsed, the RPC's level is preferred to the page's own, and an unseen *)
(* tag is shown with no points and no level.                              *)
ApplyReply(raw) ==
    LET reply  == PolUnwrapRpcResult(raw)
        seen   == PolGetField(reply, "seen", FALSE)
        points == PolGetField(reply, "points", 0)
        level  == PolGetField(reply, "level", QtLevelFromPoints(points, seen)) IN
    /\ gui_pc = "rpc"
    /\ gui_pc' = "idle"
    /\ pol' = [seen    |-> seen,
               tag     |-> PolGetField(reply, "tag", NoTag),
               points  |-> IF seen THEN points ELSE 0,
               level   |-> IF seen THEN level ELSE 0,
               allowed |-> PolGetField(reply, "allowed", 0),
               base    |-> PolGetField(reply, "base", 0),
               have    |-> TRUE]
    /\ UNCHANGED <<book, items, cur, text, miner_id, client>>

=============================================================================
