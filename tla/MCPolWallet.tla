---------------------------- MODULE MCPolWallet ----------------------------
(* Small instances of the wallet page composed with the node, for TLC.    *)
EXTENDS PolWallet

CONSTANTS t1, t2, r1, a1, a2, d1, none

MCTags == {t1, t2}
MCAddrs == {a1, a2}
(* a1 has a label, so its entry reads d1 ("label - a1"); a2 has none.       *)
MCItemText == [a \in MCAddrs |-> IF a = a1 THEN d1 ELSE a]
MCAddrTag == [a \in MCAddrs |-> IF a = a1 THEN t1 ELSE t2]
MCReaders == {r1}

(* The halving schedule of MCPolEngine.                                     *)
MCBlockSubsidy(height) ==
    LET halvings == height \div 3 IN
    IF halvings >= 64 THEN 0 ELSE 100 \div (2 ^ halvings)

=============================================================================
