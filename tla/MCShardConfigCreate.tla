------------------------ MODULE MCShardConfigCreate ------------------------
(* Small deployments for ShardConfigCreate. *)
EXTENDS ShardConfigCreate

CONSTANTS h1, h2, router

MCHosts == {h1, h2}
=============================================================================
