--------------------------- MODULE MCOplogResize ---------------------------
(* Small replica sets for OplogResize. *)
EXTENDS OplogResize

CONSTANTS h1, h2, h3

\* The arbiter sits between the data-bearing members.
MCMemberList == <<h1, h3, h2>>
MCArbiters == {h3}
MCSizes == {1, 2}
MCConfigs == {Unset, 1, 2}
=============================================================================
