-------------------------- MODULE PolLedgerAbstract --------------------------
(***************************************************************************)
(* The ledger as spec.md promises it to its readers.  While the node runs, *)
(* every block connected in chain order goes through the one update        *)
(* operation (section 3, lifecycle).  The ledger lives in memory only, so *)
(* a crash loses it; recovery rebuilds it from the chain, and the rebuilt  *)
(* ledger is the replay of the chain except for the blocks whose read     *)
(* failed, which are gaps and not errors (section 4.6).  With no gap it   *)
(* is exactly the ledger the live path builds (section 5).  The update is *)
(* a parameter: what it computes is PolLedger's business.                  *)
(***************************************************************************)
EXTENDS Naturals, Sequences

CONSTANTS
    Block,         \* the blocks a chain is made of
    EmptyLedger,   \* the ledger before any block
    Apply(_, _, _) \* Apply(l, b, h): the ledger l updated with block b at height h

VARIABLES
    chain,    \* the chain the ledger is about
    running,  \* the ledger is serving (FALSE between a crash and recovery)
    ledger    \* the table readers see

avars == <<chain, running, ledger>>

(* The ledger built by applying the blocks of c at heights 1..n in order, *)
(* leaving out those at the heights in gaps.                               *)
Replay(c, gaps) ==
    LET led[n \in 0..Len(c)] ==
            IF n = 0 THEN EmptyLedger
            ELSE IF n \in gaps THEN led[n - 1]
            ELSE Apply(led[n - 1], c[n], n)
    IN  led

Init ==
    /\ chain = << >>
    /\ running = TRUE
    /\ ledger = EmptyLedger

(* A block is connected on top of the chain and applied to the ledger.    *)
Connect(b) ==
    /\ running = TRUE
    /\ chain' = Append(chain, b)
    /\ ledger' = Apply(ledger, b, Len(chain) + 1)
    /\ UNCHANGED running

(* The process stops: the in-memory ledger is gone.                        *)
Crash ==
    /\ running' = FALSE
    /\ ledger' = EmptyLedger
    /\ UNCHANGED chain

(* The ledger is rebuilt from the whole chain, with some blocks lost.      *)
Recover ==
    /\ running = FALSE
    /\ running' = TRUE
    /\ \E gaps \in SUBSET (1..Len(chain)) : ledger' = Replay(chain, gaps)[Len(chain)]
    /\ UNCHANGED chain

Next == (\E b \in Block : Connect(b)) \/ Crash \/ Recover

Spec == Init /\ [][Next]_avars

=============================================================================
