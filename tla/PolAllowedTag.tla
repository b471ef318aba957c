---------------------------- MODULE PolAllowedTag ----------------------------
(***************************************************************************)
(* The two RPC handlers of src/rpc/pol.cpp with their parameters, over the *)
(* engine.  getpolallowedtag parses a hex tag, reads the tip under        *)
(* cs_main, takes the height from its parameter or as tip + 1, and then   *)
(* GetAllowedSubsidy reads the ledger under g_pol_mutex: two steps, with  *)
(* connects in between.  getpoladdressstatus is the engine's three-step   *)
(* reader, started here with its height parameter parsed and clamped.    *)
(* A thrown parse error ends a call before it reads the ledger.           *)
(***************************************************************************)
EXTENDS PolEngine, PolRpc

CONSTANTS
    Callers,       \* request threads calling getpolallowedtag
    TagParams,     \* miner_tag_hex parameters clients send
    HeightParams,  \* height parameters clients send
    Absent         \* the height parameter omitted

(* Both handlers declare height as RPCArg::Type::STR (rpc/pol.cpp:112,   *)
(* 156), and RPCHelpMan checks each argument's JSON type against its      *)
(* declaration before the handler runs: a JSON number is refused there,   *)
(* so only strings and null reach ParseHeightFlexible.                     *)
ASSUME AllowedTagAssumption ==
    /\ TagParams \subseteq TagHexParam(Tags)
    /\ HeightParams \subseteq {p \in HeightParam : p.type \in {"str", "null"}}
    /\ Absent \notin HeightParam

(* A caller's getpolallowedtag call and the fields of its reply.           *)
AtagRecord(pc, tag, tip, height, allowed) ==
    [pc |-> pc, tag |-> tag, tip |-> tip, height |-> height, allowed |-> allowed]

AtagIdle == AtagRecord("idle", NoTag, 0, 0, 0)

VARIABLE atag   \* atag[c]: the state of caller c's getpolallowedtag call

at_vars == <<vars, atag>>

AtagInit == Init /\ atag = [c \in Callers |-> AtagIdle]

(* getpolallowedtag up to GetAllowedSubsidy: ParseMinerTagHex, then        *)
(* GetTipHeight, then the height: the parameter when one is passed        *)
(* (ParseHeightFlexible, no clamp), else tip + 1.                          *)
AllowedTagBegin(c, s, hp) ==
    LET pt == ParseMinerTagHex(s)
        ph == IF hp = Absent THEN Ok(Tip + 1) ELSE ParseHeightFlexible(hp) IN
    /\ atag[c].pc # "subsidy"
    /\ phase = "running"
    /\ atag' = [atag EXCEPT ![c] =
                  IF pt.ok /\ ph.ok THEN AtagRecord("subsidy", pt.val, Tip, ph.val, 0)
                  ELSE AtagRecord("error", NoTag, 0, 0, 0)]
    /\ UNCHANGED vars

(* pol::GetAllowedSubsidy(tag, height) and the reply.                      *)
AllowedTagSubsidy(c) ==
    LET a == atag[c] IN
    /\ a.pc = "subsidy"
    /\ atag' = [atag EXCEPT ![c] =
                  AtagRecord("done", a.tag, a.tip, a.height,
                             AllowedForPoints(tag_state[a.tag].points, a.height))]
    /\ UNCHANGED vars

(* getpoladdressstatus up to GetMinerTagStatus: the height is the tip     *)
(* when the parameter is omitted or null, else ParseHeightFlexible of it, *)
(* clamped below at 0; a parse error throws and nothing is read.          *)
AddressStatusBegin(r, t, hp) ==
    LET ph == IF hp = Absent \/ hp.type = "null" THEN Ok(Tip)
              ELSE ParseHeightFlexible(hp) IN
    /\ ph.ok
    /\ RpcBegin(r, t, IF ph.val < 0 THEN 0 ELSE ph.val)
    /\ UNCHANGED atag

(* A restart ends every call in flight.                                    *)
AtagRestart ==
    /\ RestartAndRebuild
    /\ atag' = [c \in Callers |-> AtagIdle]

AtagNext ==
    \/ /\ \/ \E b \in Block : ConnectBlock(b)
          \/ DisconnectTip
          \/ RebuildScan
          \/ RebuildDone
          \/ \E r \in Readers : RpcStatus(r) \/ RpcSubsidy(r)
       /\ UNCHANGED atag
    \/ AtagRestart
    \/ \E r \in Readers, t \in Tags, hp \in HeightParams \cup {Absent} :
          AddressStatusBegin(r, t, hp)
    \/ \E c \in Callers, s \in TagParams, hp \in HeightParams \cup {Absent} :
          AllowedTagBegin(c, s, hp)
    \/ \E c \in Callers : AllowedTagSubsidy(c)

AtagSpec == AtagInit /\ [][AtagNext]_at_vars

-----------------------------------------------------------------------------
(* getpolallowedtag only ever answers for a chain height: a height below  *)
(* 0, as a number or as a string, is malformed input the handler must    *)
(* reject as an invalid parameter (spec sections 3 and 7), as the string *)
(* branch of ParseHeightFlexible does and getpoladdressstatus's clamp    *)
(* ensures for that handler.                                              *)
AllowedTagHeightValid ==
    \A c \in Callers : atag[c].pc = "done" => atag[c].height >= 0

=============================================================================
