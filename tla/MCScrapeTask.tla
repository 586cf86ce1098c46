---- MODULE MCScrapeTask ----
(* Jobs of one site; every message of a schedule re-runs the first of them. *)
EXTENDS ScrapeTask

CONSTANT j1

MCResendOf == [m \in Resends |-> j1]
====
