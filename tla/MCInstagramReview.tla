---- MODULE MCInstagramReview ----
(* Three admins and two posts: two race for a post while a third claims. *)
EXTENDS InstagramReview
====
