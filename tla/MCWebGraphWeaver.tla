-------------------------- MODULE MCWebGraphWeaver --------------------------
(* Small webs for TLC: a and b are pages of host H that link to each other, b  *)
(* is where a redirects and what robots.txt forbids; s and t are arXiv         *)
(* searches on host X.                                                         *)
EXTENDS WebGraphWeaver, TLC

CONSTANTS a, b, s, t, H, X

MCHostOf   == [u \in URLs |-> IF u \in {s, t} THEN X ELSE H]
OneHost    == [u \in URLs |-> X]
MCSearches == URLs \cap {s, t}
MCLinks    == [u \in URLs |-> (IF u \in {s, t} THEN {s, t} ELSE {a, b} \ {u}) \cap URLs]
MCMentions == [u \in URLs |-> {b} \cap URLs]
MCRedirect == [u \in URLs |-> IF u = a /\ b \in URLs THEN b ELSE u]
MCDisallowed == {b} \cap URLs
MCRobotsDelay == [h \in Hosts |-> IF h = H THEN 2 ELSE 0]
ShortDelay    == [h \in Hosts |-> 1]
MCSeeds    == {URLs}

SlotSymmetry == Permutations(Workers)

Wide   == [depth |-> 1, nodes |-> 2, conc |-> 2, perHost |-> 2]
Narrow == [depth |-> 1, nodes |-> 2, conc |-> 2, perHost |-> 1]
Tight  == [depth |-> 0, nodes |-> 1, conc |-> 1, perHost |-> 1]
WideConf   == {Wide}
Flat   == [depth |-> 0, nodes |-> 2, conc |-> 2, perHost |-> 2]
FlatConf   == {Flat}
TwoConfs   == {Narrow, Tight}
=============================================================================
