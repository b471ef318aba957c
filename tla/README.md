# Formal models of the Proof-of-Loyalty engine

This directory holds TLA+ models of the Proof-of-Loyalty (PoL) engine of
Multiflex Core. The engine lives in `src/pol/pol.cpp` and `src/pol/pol.h`. The
RPC handlers that read it are in `src/rpc/pol.cpp`, and the Qt pages that
display it are in `src/qt/loyalitypage.cpp` and the overview page. Alongside
the models are TLC configurations that check them on small instances and
TLAPS proofs that hold for every value of the constants.

## 1. The system

| Part | Code | State | Operations |
|---|---|---|---|
| Tag extractor | `ExtractMinerTagFromBlock`, `Tag12FromScriptPubKey`, `CoinbaseValueToTagScript` | none (pure) | parses the coinbase `OP_RETURN "MFLEXID"+tag` |
| Loyalty ledger | `g_tag_state` under `g_pol_mutex`, `MinerTagStatus` | one record per tag | `OnConnectBlock` (writer), `GetMinerTagStatus` (snapshot reader) |
| Subsidy calculator | `GetAllowedSubsidy`, `GetBaseSubsidy` | none; reads the ledger | `base + loyal*points/24` in integer arithmetic |
| Rebuilder | `RebuildFromActiveChain` | loop over heights under `cs_main` | clears the ledger, replays every readable block through `OnConnectBlock` |
| Configuration | `GetPolStartHeight`, `GetPolMonthBlocks`, ... | `gArgs` | read on every call |
| RPC | `getpoladdressstatus`, `getpolallowedtag` | request threads | read the tip, the status and the subsidy |
| GUI | `LoyaltyPage` (loyalitypage.cpp), overview page | the combo box and the `m_pol_*` fields, on the GUI thread | Refresh button or Return runs `getpoladdressstatus` through `executeRpc`; edits clear the page; address-book changes rebuild the combo |

How the parts interact:
- **Writer path.** The validation pipeline connects a block under `cs_main`
  and calls `OnConnectBlock`. That extracts the tag and updates its record
  while holding `g_pol_mutex`.
- **Reader path.** RPC threads take `g_pol_mutex` for each read, and never
  `cs_main`. `getpoladdressstatus` takes it twice: once in
  `GetMinerTagStatus` (rpc/pol.cpp:205) and once inside `GetAllowedSubsidy`
  (rpc/pol.cpp:208).
- **Startup.** `RebuildFromActiveChain` takes `cs_main`, clears the table and
  scans heights `max(0,start)..tip`. A failed `ReadBlock` skips its height.
- **Disconnects.** There is no disconnect hook. pol.h declares only
  `OnConnectBlock`.
- **The GUI.** `LoyaltyPage::refreshPolStatus` takes the address from the
  combo box (`currentData()`, else `currentText()`) and blocks the GUI
  thread in `executeRpc("getpoladdressstatus")`, which runs the handler
  against the same ledger. Every text change of the combo clears the shown
  status (`polMinerAddressChanged`); the address-book rebuild
  (`updatePolMinerAddressDropdown`) runs with signals blocked.
- **`getpolallowedtag`** reads the tip under `cs_main`, then the ledger
  under `g_pol_mutex`.

What makes this code hard to test:
- the interleaving of a connect with the two reads of an RPC call;
- a reorganisation, which disconnects blocks the ledger has already counted;
- a restart followed by a rebuild that must produce exactly the live ledger,
  including when a read fails;
- the month arithmetic at its edges: many missed months, the clamps to 0 and
  24, and a month length of 0 or less;
- on the page, sequences of edits, selections, address-book rebuilds and
  refreshes after which the current entry and the text disagree;
- string parameters at the edges of the `int` and `long long` ranges,
  negative ones included.

## 2. Modules

| Module | Models | Used by |
|---|---|---|
| `PolLedger` | `MinerTagStatus`, `MonthIndex`, the whole body of `OnConnectBlock` as a function of the table | everything |
| `PolSubsidy` | `GetBaseSubsidy`, `GetAllowedSubsidy`'s arithmetic; `GetBlockSubsidy` is a constant operator | `PolEngine` |
| `PolEngine` | the node: active chain, ledger, restart and rebuild loop, RPC readers; properties | runs and proofs |
| `PolReplay` | the spec's closed-form ledger of a chain (`Replay`), `LedgerMatchesChain`; TLC only (recursive function, `FiniteSetsExt`) | MC |
| `MCPolEngine` | model values, small sets and a halving schedule `MCBlockSubsidy` | all runs |
| `PolEngineProofs` | type correctness, well-formedness and no accrual within a month of the engine, checked by TLAPS | - |
| `PolTagExtract`, `MCPolTagExtract` | `ExtractMinerTagFromBlock` as its loop over abstract scriptPubKeys, and the spec's contract `SpecExtract` | run `extract` |
| `PolTagExtractProofs` | the extractor meets its contract for every coinbase | - |
| `PolSubsidyProofs` | the bounds, endpoints and monotonicity of `GetAllowedSubsidy` | - |
| `PolTagContract` | the abstract scripts and coinbase, the optional tag, and the spec's contract `SpecExtract` | `PolTagExtract` |
| `PolLevel` | the three copies of `PolLevelFromPoints` (RPC, loyalty page, overview page) and the spec's level | `PolEngine`, `PolLoyaltyPage` |
| `PolLevelProofs` | the three copies equal the spec's level | - |
| `PolRpc` | `ParseHeightFlexible`, `ParseMinerTagHex` over abstract JSON parameters; `int` and `long long` scaled to `IntMax`, `LLongMax` | `PolAllowedTag` |
| `PolAllowedTag`, `MCPolAllowedTag` | `getpolallowedtag` (two steps) and `getpoladdressstatus` with its parameter, over `PolEngine` | run `allowed_tag` |
| `PolLoyaltyPage` | the Qt loyalty page: combo box, `m_pol_*` fields, every slot that changes them | `PolWallet` |
| `PolWallet`, `MCPolWallet` | the page composed with the node: Refresh drives the engine's reader `Gui` | runs `wallet`, `stale_selection` |
| `PolWalletProofs` | `ShownForMinerId` and `ShownLevelMatchesPoints` for every instance, checked by TLAPS | - |
| `PolAllowedTagProofs` | `AllowedTagHeightValid` for every instance, checked by TLAPS | - |
| `PolLedgerAbstract` | the ledger spec.md promises: connect through the update operation, crash, recover to the replay of the chain with some heights left out; the update is a parameter | `ImplementsLedger` in `PolEngine` |
| `PolReplayProofs` | `RebuildIsReplay` and the refinement of `PolLedgerAbstract`, checked by TLAPS | - |

How the model corresponds to the code:
- **The table.** `g_tag_state` is a total function `Tags -> Status`. An absent
  key is the default record. `OnConnectBlock` creates a key and sets
  `seen = TRUE` in the same locked region, so "present" and "seen" coincide.
  `HexStr` is injective, so the key is simply the tag.
- **Blocks.** A block is reduced to what the engine reads from it: the
  extracted tag (`NoTag` for none) and its time.
- **Connects.** `OnConnectBlock` holds `g_pol_mutex` for the whole update, so
  it is one step (`ConnectBlock`).
- **The rebuild.** It holds `cs_main` across the scan but takes
  `g_pol_mutex` per block. It is therefore one step per height
  (`RebuildScan`): either the block is replayed or the read fails and the
  height is added to the history variable `skipped`, which the code does
  not have and no action reads. The scan ends with a closing step
  (`RebuildDone`).
- **Restarts.** `RestartAndRebuild` empties the ledger, ends the in-flight RPCs
  and starts the scan at `max(0, StartHeight)`.
- **Reorganisations.** `DisconnectTip` shortens the chain and leaves the
  ledger unchanged, as the code does.
- **`getpoladdressstatus`.** It is three steps: `RpcBegin` (tip, height and
  tag), `RpcStatus` (the snapshot at line 205) and `RpcSubsidy` (the second
  locked read at line 208). Connects may interleave between them.
- **The extractor.** `PolTagExtract` is a loop state machine. A script is
  reduced to what the loop reads from it:
  - the outcome of the first `GetOp`: nothing, `OP_RETURN`, or another opcode;
  - the outcome of the second `GetOp` and the push size;
  - whether the push begins with `MFLEXID`;
  - which bytes follow the prefix.

  `Start` holds the two early returns. `ScanOutput` is one iteration, either
  a `continue` or the `return` of the tag. `NoneFound` is the fall-through
  `std::nullopt`.
- **The RPC parameters.** Both handlers declare `height` as
  `RPCArg::Type::STR` (rpc/pol.cpp:112, 156). `RPCHelpMan`, which is outside
  this repository, checks each argument's JSON type against its declaration
  before the handler runs, so a JSON number never reaches
  `ParseHeightFlexible`. `AllowedTagAssumption` therefore restricts the
  height parameters to strings and null. `ParseHeightFlexible` keeps its
  number branch, as the code has it, but no run reaches that branch.
  A JSON parameter is its type, the shape of its
  text (integral, fractional, trailing characters, garbage, empty) and the
  integer it denotes. `getInt<int>` accepts any integral number an `int`
  holds; the string branch needs a whole decimal within `long long` and
  then `0..INT_MAX`. The widths are scaled down (`IntMax`, `LLongMax`) with
  their order kept. `getpolallowedtag` is `AllowedTagBegin` (tag, tip,
  height: the parameter or `tip+1`) and `AllowedTagSubsidy` (the ledger
  read); a parse error ends the call before it reads anything.
  `getpoladdressstatus`'s parameter path (`AddressStatusBegin`: tip when
  omitted or null, else the parse, clamped at 0) starts the engine's
  `RpcBegin`.
- **The loyalty page.** The combo box is the two things the page reads:
  the current entry's address (`cur`, `NoAddr` for an entry without data)
  and the text (`text`). An entry's text is its address or, for a
  labelled address, `label - address` (`ItemText`). The user picks an entry
  (`UserSelect`), types an address or clears the box (`UserEdit`), clicks
  Refresh (`ClickRefresh`) or presses Return (`ReturnPressed`); the address
  book changes (`BookChanged`, the rebuild `Dropdown`). `refreshPolStatus`
  is split at `executeRpc`: `RefreshStart` (the guards, the queried address,
  `m_pol_miner_id`) and `ApplyReply` (unwrap, field getters with their
  defaults, the level fallback, the zeroing of an unseen tag). The GUI
  thread is blocked in between (`gui_pc = "rpc"`), so no other slot runs.
  Labels, icons and amounts are display only and left out.
- **Qt behaviour relied on.** Typing into an editable combo changes
  `currentText()` but not `currentIndex()`/`currentData()`. The first item
  added to an empty combo becomes current (so after a rebuild the first
  sorted entry is current, and `setEditText` only changes the text). Return
  in the line edit is handled by the combo before the page's slot: it
  selects the entry whose text matches, or inserts the text as an entry
  without data (never an empty text). `blockSignals` on the combo and its
  line edit suppresses `textChanged` and `currentTextChanged`. The sorted
  order depends on the labels, which are not modelled, so the first entry
  is any entry.
- **Composition.** In `PolWallet` the page's Refresh starts the call of the
  engine reader `Gui` at the tip height with `AddrTag[address]`
  (`Tag12FromAddressString`); `ReplyStep` hands the finished call to the
  page. A restart rebuilds the ledger and re-creates the page over the same
  address book (`PageRecreated`). Page slots run only outside the startup
  rebuild.

## 3. Runs

The engine runs use two tags (one in `decay`), `StartHeight = 1`, at most one
restart, and a halving schedule with interval 3, so that the subsidy changes
within the bound. The wallet and `allowed_tag` runs reuse that engine
instance.

| Run | Bounds | Checks | Result |
|---|---|---|---|
| `engine` | MaxHeight 4, 2-block months, times {1,2}, one reader, no reorg | `StatusWellFormed`, `LedgerMatchesChain`, `RebuildIsReplay`, `SamePeriodNoAccrual` | pass, about 1.9M states |
| `decay` | one tag, MaxHeight 7, 1-block months | `TypeOK`, `LedgerMatchesChain`, `ImplementsLedger` | pass, about 1.7M states |
| `extract` | coinbases of 0 to 3 outputs from 9 scripts, with or without a coinbase | `ExtractsFirstQualifying` | pass, about 5k states |
| `reorg_drift` | two disconnects, no reader | `LedgerMatchesChain` | violation |
| `reorg_repair` | MaxHeight 3, times {1}, two disconnects, one restart, one reader | `RebuildRepairsLedger` | pass, about 450k states |
| `torn_reply` | MaxHeight 3, one reader | `ReplyConsistent` | violation |
| `wallet` | addresses a1 (labelled) and a2, two tags, MaxHeight 3, one restart, one disconnect, the GUI as the only reader | `ShownForMinerId`, `ShownLevelMatchesPoints` | pass, about 2.8M states |
| `stale_selection` | as `wallet`, MaxHeight 1, no restart | `ShownForBoxAddress` | violation |
| `allowed_tag` | one caller, one reader, 4 tag and 8 height parameters, `int` = 2, `long long` = 4, MaxHeight 2, one restart, one disconnect | `AllowedTagHeightValid` | pass, about 200k states |

Why these bounds are enough:
- **`engine`.** With two-block months, height 4 reaches months 0, 1 and 2.
  That covers the first sighting, a repeat within a month, a new month, and
  one missed month. Two tags make both the updated and the untouched branch of
  `OnConnectBlock` happen. The restart can come at any height, and each
  scanned height may fail to read.
- **`extract`.** The nine scripts are an empty script, a payout script, a
  bare `OP_RETURN`, and the 36-byte witness commitment. They also include
  `MFLEXID` followed by 12, 4, 8, 5 or 2 bytes. Every order of up to three of
  them puts each kind of rejected output before, between and after
  qualifying ones.
- **`decay`.** With one-block months and seven heights, a tag can be absent
  for five months. Its score then falls to the lower clamp, which the spec's
  `Accrual` reference checks against.

What the runs show:
- **`LedgerMatchesChain`.** `Replay` is written from the spec's closed forms:
  the first and last sighting, the count, and the accrual over active months.
  It is not written by calling `OnConnectBlock`. So the property says that the
  live ledger is the spec's ledger of the chain, and that the rebuilt ledger
  is the same whenever no read failed. Together these mean a restarted node
  and a running node compute the same subsidy.
- **`RebuildIsReplay`** says which ledger a rebuild with failed reads
  leaves, which `LedgerMatchesChain` leaves open.
  `LedgerReplay(chain, S)` applies `OnConnectBlock` to heights `1..n` in
  order and skips the heights in `S`. `ScannedTo` is the last height the
  ledger has taken in: the tip, or the one below the scan's `height`.
  The property is that the ledger is always
  `LedgerReplay(chain, skipped)[ScannedTo]`, where `skipped` holds exactly
  the heights whose read failed. So a failed read loses that block and
  nothing else, and the scan goes on. The mutant `RebuildScanBreak` stops
  the loop at a failed read (`break` for `continue`). It breaks this
  property and not `LedgerMatchesChain`, which says nothing once a read
  has failed. TLAPS proves the property (section 4).
- **`ImplementsLedger`** is the refinement of `PolLedgerAbstract`, the
  ledger spec.md promises. The mapping exposes `g_tag_state` while the
  node runs and the empty table while the rebuild holds `cs_main`.
  `ConnectBlock` is the abstract `Connect` and a restart is a `Crash`.
  The end of the rebuild is `Recover`, which may leave out any set of
  heights: section 4.6 makes a failed `ReadBlock` a gap, not an error.
  Scans and RPC steps are stutters. The mutant `RestartKeepLedger` (no
  `g_tag_state.clear()`) breaks it. Finishing the loop one height early
  (`RebuildDoneEarly`) does not, because to a reader a block never scanned
  looks like a failed read. `LedgerMatchesChain` and `RebuildIsReplay`
  catch that bug.
- **`RebuildRepairsLedger`** is an action property checked with
  disconnects allowed. Whenever `RebuildFromActiveChain` returns with no
  failed read, the ledger is the spec's ledger of the active chain,
  whatever blocks were disconnected before the restart. So the drift of
  finding 2 lasts only until the next restart. The mutant
  `RestartKeepLedger` (no `g_tag_state.clear()`) breaks it.
- **`SamePeriodNoAccrual`** is an action property: points move only when a
  record's month changes.

No liveness property is checked. The one candidate, that a started rebuild
finishes, holds by the shape of the code: it is a counted loop under
`cs_main`.

- **`wallet`.** Two addresses, one with a label, make the entry text
  differ from the address, and the address book can be any subset, so a
  rebuild can drop the current address, empty the combo or re-select it.
  Three heights give a tag 2 and then 4 points, so the level changes
  between refreshes. The page's call interleaves with connects, the
  disconnect and the restart.
- **`allowed_tag`.** The height parameters cover each branch of
  `ParseHeightFlexible` that the framework lets through: null, and a string
  that is negative, in range, above `INT_MAX`, beyond `stoll`, with trailing
  characters, unparseable, or empty. The tag parameters cover 12- and 4-byte tags, a wrong length and
  a non-hex string.

What the new runs show:
- **`ShownForMinerId`.** Whenever the page is idle, the status it shows is
  that of `m_pol_miner_id`. This holds through edits, selections and rebuilds
  with blocked signals.
- **`ShownLevelMatchesPoints`.** The shown level is the spec's level of the
  shown points. This holds even though the reply's allowed subsidy may be
  torn, because the RPC computes the level from the same snapshot as the
  points.

Each property has a mutant in PROJECT.json that TLC must catch: a stale
month, an early loop exit, a `break` for a `continue`, a non-strict month
test, or a missing clamp.

### Findings

1. **Torn reply** (`torn_reply`, rpc/pol.cpp:208). Take a reader that has its
   status snapshot with 0 points. A block of that tag then connects, and the
   reader's `GetAllowedSubsidy` sees 2 points. The reply reports `points: 0`
   together with the allowed subsidy for 2 points. Spec §8 says concurrent
   queries never observe a torn state.
2. **No disconnect hook** (`reorg_drift`, pol.h:51). Connect a block of tag
   t1 at height 1, then disconnect it. The ledger still says t1 was seen at
   height 1 while the chain has no block there. The live ledger then differs
   from the one a restart rebuilds. Later reconnects at the same height count
   that height twice.
3. **Stale selection** (`stale_selection`, loyalitypage.cpp:254).
   `refreshPolStatus` prefers `currentData()` to the text in the box. TLC's
   shortest trace: a1 is current; the address book drops a1 and gains a2.
   The rebuild (signals blocked) makes a2 current and puts "a1" back as
   edit text. Refresh then queries a2 and shows a2's status while the box
   says a1. The same happens when the user selects an entry and then types
   another address: typing does not change the current entry. The page
   clears itself on every text change precisely so that it never shows a
   status for another address.

## 4. Proofs (TLAPS)

The proofs assume:
- `LedgerAssumption`: `NoTag` is not a tag, and the month length and start
  height are integers of any sign.
- `EngineAssumption`: times are integers, the bounds are naturals, and the
  emission schedule is a natural at every height.

| Theorem | Statement |
|---|---|
| `TypeCorrect` | `Spec => []TypeOK`: every score stays in `0..24` and every reader reads a real tag. |
| `WellFormed` | if `MaxReorgs = 0`, `Spec => []StatusWellFormed`. |

What `WellFormed` says: every record is either the default or satisfies
`StartHeight <= first <= last`, `1 <= blocks_seen <= last-first+1`, and
`last_seen_month = MonthIndex(last)`.

`StatusWellFormed` alone is not inductive. A step of `OnConnectBlock` at a
height no greater than a recorded `last_seen_height` would break it. The
inductive invariant is therefore `IInv == TypeOK /\ StatusWellFormed /\
SeenBelowNext`. `SeenBelowNext` says every recorded sighting lies at or below
the tip, and during a rebuild below the scan's height. With it, every height
`OnConnectBlock` receives is above every recorded one. This holds for live
connects (`Tip+1`) and for the rebuild (`rb_height`, after the clear).
TLC checked `IInv` as an invariant of the `engine` and `decay` settings before
it was proved.

The proof rests on these lemmas:
- `SightStatusOK` and `OnConnectOK`: one sighting above the last one keeps a
  record well formed.
- `MonthIndexMonotone`: `MonthIndex` is monotone, for any month length.
- `ClampRange`: the clamp's range.

There is one step per action. `DisconnectTip` is excluded by `MaxReorgs = 0`,
and it must be: with a disconnect theorem is false (finding 2).

`PolTagExtractProofs` proves `ExtractCorrect`:
`Spec => []ExtractsFirstQualifying` for every set of scripts and every bound
on the outputs. It uses the loop invariant `LoopInv`. While the loop runs, the
coinbase exists, the index is at most one past the last output, and no
earlier output qualifies. `QualifiesIff` shows that the code's tests, in
their order, are the spec's qualification. `ExtractFirst` and `ExtractNone`
compute the spec's result from that.

`PolSubsidyProofs` proves two theorems for every emission value
`S = GetBlockSubsidy(h)` in `Nat`.
- **`SubsidyEndpoints`.** 0 points give exactly `GetBaseSubsidy`. 24 points
  give exactly `S`, with no rounding loss, because the loyal half is the
  remainder `S - S/2`.
- **`SubsidyBoundedMonotone`.** The allowed subsidy lies between the base and
  `S`, and it never falls as points rise.

These rest on the Euclidean division facts `DivFacts` and `DivMonotone`.

`PolLevelProofs` proves `LevelsAgree`. For every `seen` and every integer
score, the RPC's, the loyalty page's and the overview page's
`PolLevelFromPoints` all equal the spec's level, in `0..12`. The proof
splits three cases: unseen or no points, `1..24`, and above 24. It rests on
two facts about rounding up by half, `HalfUpPositive` and `HalfUpAbove24`.

`PolWalletProofs` proves `MinerIdShown`: `WalletSpec => []ShownForMinerId`.
It holds for every address book, every labelling of the entries and every
bound of the node. It assumes `WalletAssumption` (`Gui` is a reader) and
`PageAssumption` (`NoAddr` is no address, and entry texts are non-empty and
identify their address).

`ShownForMinerId` is not inductive. A refresh starts a call for the address
it records, and the reply later becomes the shown status. So the proof needs
to know that the call in flight asks for the right tag, and that the address
the refresh takes is a real one. The inductive invariant `WInv` is the
conjunction of these parts:
- `TypeOK`, and the tip within `MaxHeight`, because the page's call is made
  at the tip height.
- `PageOK`: the combo's entries and current entry are addresses, and its
  text is an address, an entry's text, or empty. An entry without data
  holds a typed address or nothing. This is what makes the address the
  refresh takes (data, else text) an address. Return's data-less entry and
  the rebuild's restored text are the cases it covers.
- `GuiCall`: the `Gui` reader's call is in flight exactly while the page
  waits, and it asks for `AddrTag[m_pol_miner_id]`.
- `ShownForMinerId` itself.

TLC checked `WInv` as an invariant of the `wallet` instance (2.8M states)
before the proof. The lemmas are:
- `DropdownOK`: the rebuild keeps `PageOK`.
- `RefreshOK`: a refresh keeps `WInv`.
- `PageSlotOK`: the other slots keep `WInv`.
- `NodeStepGui`: the node's steps keep the Gui call's tag, and whether it
  is in flight.
- `TipStep`: the node keeps the tip bound. It rests on `LenFront` and
  `IntervalEq`.
- `ReplyTag`: the reply's tag field survives `PolUnwrapRpcResult` and
  `PolGetField`.

Engine steps reuse `TypeStep` of `PolEngineProofs`.

`PolEngineProofs` also proves `NoAccrualInPeriod`:
`Spec => SamePeriodNoAccrual`. A record's points change only in a step that
changes its `last_seen_month`. It holds with reorgs, restarts and rebuilds,
and for every month length and start height (`MonthBlocks <= 0` included).
The action property follows from the state invariant `MonthsKept`:
- a record never sighted has month `-1` and no points;
- a sighted record has a month of 0 or more.

This is what rules out a change of points in the same month. A sighting of
a never-sighted record moves its month from `-1` to `MonthIndex(h) >= 0`.
A sighting of a sighted record in a month no later than its own keeps both
the month and the points (`MonthPoints`). A restart resets a record to month
`-1` with 0 points, which changes the month unless the record was already the
default. TLC checked `MonthsKept` on a setting with one disconnect and with
`MonthBlocks = 0` before the proof. The lemmas are:
- `MonthIndexNat`;
- `SightMonth` and `OnConnectMonth`: one sighting, and `OnConnectBlock`;
- `EmptyTableMonth`;
- `MonthStep`.

`PolWalletProofs` also proves `LevelShown`:
`WalletSpec => []ShownLevelMatchesPoints`. The shown level is computed by
`applyPolStatusFromRpcResult` from the reply's `level` field. That field was
filled by the node's `PolLevelFromPoints` when the call read the ledger,
possibly much earlier. So the invariant `LevelInv` adds `CallsLevel`: every
finished call's `level` is the RPC's level of the `seen` and `points` it
read. It also adds `ShownLevel`: the page's level is the spec's level of
what it shows, with the types the page's fields need.
- `CallsLevelStep`: the reader's steps keep `CallsLevel`.
- `ApplyReplyLevel`: applying a reply keeps `ShownLevel`. Both branches
  (seen or not) rest on `LevelsAgree`.
- `LevelStep`: every step keeps `LevelInv`.

TLC checked `LevelInv` on the `wallet` instance before the proof.

`PolAllowedTagProofs` proves `HeightValid`:
`AtagSpec => []AllowedTagHeightValid`. It holds for every `IntMax`,
`LLongMax`, chain and set of string or null height parameters. These are
all the parameters the RPC framework's type check lets through
(`AllowedTagAssumption`). Every way to a height is covered:
- the string branch of `ParseHeightFlexible` checks `0..INT_MAX`;
- null is rejected;
- the default `tip + 1` is positive;
- the reply keeps the height it parsed.

The inductive invariant `AtagHeights` says:
- the chain is a sequence, so the tip is a natural;
- every call past its parsing step holds a height in `Nat`.

TLC checked it on the `allowed_tag` setting (200k states). The lemmas are:
- `ParseNonNegative`: the parser's range;
- `ChainSeq`: every engine step keeps the chain a sequence, including
  `getpoladdressstatus`'s begin at any clamped height;
- `HeightsInit` and `HeightsStep`.

`PolReplayProofs` proves two theorems about the rebuild. Both assume
`MaxReorgs = 0`, because run `reorg_drift` shows that a disconnect breaks
them (finding 2).

| Theorem | Statement |
|---|---|
| `LedgerIsReplay` | `Spec => []RebuildIsReplay`: the live and the rebuilt ledger are the replay of the chain through `OnConnectBlock`, with exactly the failed reads left out. |
| `EngineImplementsLedger` | `Spec => ImplementsLedger`: the engine refines `PolLedgerAbstract`. |

Both rest on the inductive invariant
`RInv == TypeOK /\ skipped \subseteq 0..ScannedTo /\ RebuildIsReplay`.
`RebuildIsReplay` alone is not inductive. A connect at height `Tip+1` is
a replay step only if `Tip+1` is not in `skipped`, so the invariant must
say that every skipped height has already been scanned. TLC checked `RInv`
on the `engine` setting before it was proved. There is one step per
action:
- A connect is the replay's next step. The skipped heights all lie below
  the new tip, and the replay of the old chain is unchanged by the append.
- A restart clears the ledger and `skipped`. The heights below
  `max(0, StartHeight)` replay to the empty table.
- A successful scan is a replay step. A failed one adds the height to
  `skipped`, and the replay skips it (`ReplayNewGap`). Genesis (height 0)
  carries no tag, whether or not its read fails.
- The end of the rebuild, the RPC steps and stutters change nothing
  `RInv` reads.

The refinement's step proof (`RefineStep`) gives the abstract `Recover`
the witness `skipped \ {0}`, when the rebuild ends and `ScannedTo = Tip`.
Leaving out height 0 changes nothing (`ReplayIgnoresZero`). The abstract
ledger only says that some heights are left out. `LedgerIsReplay` says
which ones.

`LedgerReplay` is a recursive function, and there are two tools for it:
- Its defining equation comes from `FiniteNatInductiveDef` of
  `NaturalsInduction` (`ReplayUnfold`, `ReplayZero`, `ReplayStep`,
  `ReplaySkip`).
- Facts that need induction on the height are proved by least
  counterexample. `LeastElement` follows from `NatLessThanWellFounded` and
  `WFMin`. A least height where the fact fails would have the fact at the
  height below, and one replay step then gives it there too. This avoids
  the library's induction rules, whose operator parameter the installed
  provers cannot instantiate.

The lemmas proved this way are:
- `ReplayPrefix`: the replay up to `k` reads only the blocks at `1..k` and
  whether they are skipped;
- `ReplayBelowStart`: heights below the start height leave the table empty;
- `ReplayAppend`, `ReplayNewGap` and `ReplayIgnoresZero`, which follow
  from `ReplayPrefix`.

`AbsReplay` shows that the abstract `Replay`, instantiated with
`OnConnectBlock`, is `LedgerReplay`.

What only TLC checks:
- **Liveness.** None is stated: see section 3. TLAPS would not handle
  fairness or `ENABLED` in any case.
- **`LedgerMatchesChain`**, the closed form of the spec: the first and
  last sightings, the counts and the accrual over active months. It needs
  the recursive `Accrual` and `FiniteSetsExt`, and a module with theorems
  may not reach either. What is proved is the replay form
  (`LedgerIsReplay`). That the replay equals the closed form is checked by
  TLC only, on `engine` and `decay`.
- **Anything with reorganisations.** The theorems about the ledger assume
  `MaxReorgs = 0`, because with a disconnect they are false (finding 2).
- **The emission schedule.** `GetBlockSubsidy` is a parameter. The
  proofs only assume it is natural.

## 5. Not modelled, and the plan

Not modelled:
- **`Tag12FromScriptPubKey`, `CoinbaseValueToTagScript`,
  `Tag12FromAddressString` and `StripWorkerSuffix`.** They are SHA256 and a
  value sum. The address-to-tag map is the constant `AddrTag`. Nothing in
  this snapshot calls the sum.
- **The link between the extractor and the engine.** The engine takes the
  extractor's result as a block's tag.
- **Display-only parts of the pages.** `updatePolUiAmounts`,
  `updateLevelIcon`, `resizeEvent`, `updateDisplayUnit` and the overview
  page's labels. The overview page's level function is in `PolLevel`.
- **`executeRpc` throwing.** `getpoladdressstatus` throws for no string
  address, and the page is shown only after startup, so the catch branch of
  `refreshPolStatus` is unreachable. The reply's informational fields
  (`miner_tag_u32`, `extranonce1_size`, coin amounts, last seen) are
  display only.
- **`getpolallowedtag`'s stale tip.** The reply can pair tip T with a ledger
  that already counts block T+1. The two reads are separate steps in the
  model, but the spec states no relation to check (hazard with a note).
- **Chain parameters**, which are static data.
- **RPC reads during the startup rebuild.** The rebuild's call site is not
  in this snapshot, so whether RPC is already served then is unknown.
- **Label changes.** Labels are fixed per address. A label change is one
  more `dataChanged` rebuild.

Planned next:
1. A proof that `LedgerReplay` equals the spec's closed form, written with
   recursive functions in place of `FiniteSetsExt` and the `RECURSIVE`
   `Accrual`.
2. A TLAPS proof that `ParseMinerTagHex` accepts exactly the 8- and
   24-character hex parameters.
