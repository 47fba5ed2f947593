--------------------------- MODULE MCCandidatePipeline -------------------------
(* Small instances of CandidatePipeline for TLC.                             *)
EXTENDS CandidatePipeline, TLC

CONSTANTS a1, a2, m1, m2

\* a1 speaks of both markets, a2 of one of them.
MCKeyworded == a1 :> {m1, m2} @@ a2 :> {m1}
OneArticle  == a1 :> {m1}

\* An answer that leads to a trade, one that passes the gate without an outcome
\* to bet on, and one that the gate turns down.
Convinced == [outcome |-> "YES", strong |-> TRUE, sure |-> TRUE,
              agrees |-> TRUE, verifierSure |-> TRUE, answered |-> TRUE]
Vague     == [Convinced EXCEPT !.outcome = "UNKNOWN"]
Doubtful  == [Convinced EXCEPT !.sure = FALSE]

MCAnswers == {Convinced, Vague, Doubtful}
================================================================================
