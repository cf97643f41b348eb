------------------------ MODULE MCShardConfigRivals ------------------------
(* Instances of ShardConfigRivals for TLC. *)
EXTENDS MCShardConfigApply, ShardConfigRivals

\* A set of one member and a plan that adds another.
MCOneAdd == {<<Voter(h1), Voter(h2)>>}
MCOneMember == {ConfigWith({M(0, Voter(h1))})}
=============================================================================
