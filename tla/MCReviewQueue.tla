---- MODULE MCReviewQueue ----
(* Two items, two admins: every pair of operations races. *)
EXTENDS ReviewQueue
====
