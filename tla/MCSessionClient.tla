---- MODULE MCSessionClient ----
(***************************************************************************)
(* Three calls of the pages beside AuthProvider's two requests: one        *)
(* request refreshes while others wait, and a third has settled.           *)
(***************************************************************************)
EXTENDS SessionClient

CONSTANTS c1, c2, c3
MCCalls == {c1, c2, c3}
====
