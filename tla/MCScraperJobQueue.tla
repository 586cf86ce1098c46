---- MODULE MCScraperJobQueue ----
(* Two sites with a job each, two pollers. *)
EXTENDS ScraperJobQueue

CONSTANTS j1, j2, s1, s2

MCSites == {s1, s2}
MCSiteOf == [j \in {j1, j2} |-> IF j = j1 THEN s1 ELSE s2]
MCPriorities == {1, 5}
====
