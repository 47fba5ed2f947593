------------------------------- MODULE MCNewsPoll ------------------------------
(* An instance of NewsPoll for TLC: two feeds of overlapping domains, one of    *)
(* which lists an article already, two items read of each feed, and a link that *)
(* no poll can read.                                                            *)
EXTENDS NewsPoll

CONSTANTS s1, s2, u1, u2, u3

MCDomainOf == [s \in Sources |-> IF s = s1 THEN {u1, u2} ELSE {u1}]
MCFirstFeeds ==
  [s \in Sources |-> IF s = s1 THEN <<[url |-> u2, date |-> 0]>> ELSE <<>>]
=================================================================================
