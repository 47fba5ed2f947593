------------------------------ MODULE SignalLedger -----------------------------
(***************************************************************************)
(* What the candidate pipeline promises about the table of signals, with   *)
(* no runs, workers or LLM calls: a pair of an article and a market is put *)
(* forward once, decided once, and traded at most once, and only then, by  *)
(* the decision to act.  CandidatePipeline implements it while no two runs *)
(* overlap.                                                                *)
(***************************************************************************)
EXTENDS Naturals

CONSTANTS
  Ids,      \* identifiers of signals
  Pairs     \* <<article, market>>

VARIABLE
  ledger    \* id -> [pair, action, trades]

States    == {"FREE", "CANDIDATE", "ABSTAIN", "NO_TRADE", "ACT"}
Decisions == States \ {"FREE", "CANDIDATE"}

Unused(i)  == ledger[i].action = "FREE"
Listed     == {ledger[i].pair : i \in {j \in Ids : ~Unused(j)}}

Init == \A i \in Ids : Unused(i) /\ ledger[i].trades = 0

\* Any number of pairs nobody has put forward become candidates, under unused ids.
Offer ==
  \E new \in SUBSET {i \in Ids : Unused(i)} :
    /\ \A i \in new : /\ ledger'[i].pair \in Pairs \ Listed
                      /\ ledger'[i].action = "CANDIDATE"
                      /\ ledger'[i].trades = 0
    /\ \A i, j \in new : ledger'[i].pair = ledger'[j].pair => i = j
    /\ \A i \in Ids \ new : ledger'[i] = ledger[i]

\* A candidate is decided; only the decision to act may bring a trade with it.
Decide(i) ==
  /\ ledger[i].action = "CANDIDATE"
  /\ \E a \in Decisions, n \in {0, 1} :
       /\ n = 1 => a = "ACT"
       /\ ledger'[i] = [pair |-> ledger[i].pair, action |-> a, trades |-> n]
  /\ \A j \in Ids \ {i} : ledger'[j] = ledger[j]

Next == Offer \/ \E i \in Ids : Decide(i)

Spec == Init /\ [][Next]_ledger
================================================================================
