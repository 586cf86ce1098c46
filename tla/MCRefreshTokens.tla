---- MODULE MCRefreshTokens ----
(* Two browsers of one user, two requests in flight, up to three tokens. *)
EXTENDS RefreshTokens, TLC

\* Browsers are alike, and so are request slots; no liveness is checked.
MCSymmetry == Permutations(Browsers) \cup Permutations(Requests)
====
