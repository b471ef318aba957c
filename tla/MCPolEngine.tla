---------------------------- MODULE MCPolEngine ----------------------------
(* Small instances of the PoL engine for TLC.                              *)
EXTENDS PolReplay

CONSTANTS t1, t2, r1

MCTags == {t1, t2}
MCReaders == {r1}
MCNoReaders == {}
MCOneTag == {t1}

(* GetBlockSubsidy of the Bitcoin lineage (validation.cpp, outside this    *)
(* snapshot): the reward halves every interval, nothing after 64 halvings. *)
(* A 100-satoshi reward and an interval of 3 blocks make the halving fall *)
(* inside the bounded chains.                                             *)
MCInitialSubsidy == 100
MCHalvingInterval == 3
MCBlockSubsidy(height) ==
    LET halvings == height \div MCHalvingInterval IN
    IF halvings >= 64 THEN 0 ELSE MCInitialSubsidy \div (2 ^ halvings)

=============================================================================
