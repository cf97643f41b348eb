------------------------- MODULE ShardConfigRivals -------------------------
(***************************************************************************)
(* The apply of ShardConfigApply beside a second operator, who adds        *)
(* members to the same set with rs.add() while the apply runs.  What the   *)
(* specification says of the apply's removals (SHARD-019) is stated here;  *)
(* the properties of ShardConfigApply that survive the second operator are *)
(* checked under RivalSpec.                                                *)
(***************************************************************************)
EXTENDS ShardConfigApply

\* rs.add() of a non-voting member: a read of the configuration and a
\* reconfig of its own.
RivalAdds(h) ==
    /\ h \notin HostsOf(installed.members) /\ Charge
    /\ installed' = [installed EXCEPT
          !.version = @ + 1,
          !.members = @ \cup {[id |-> NextMemberID(@), host |-> h, votes |-> 0,
                               priority |-> 0, arbiter |-> FALSE]}]
    /\ UNCHANGED <<node, data, pc, blocks, work, interrupted, result, history,
                   applies, timeouts>>

RivalNext == Next \/ \E h \in Hosts : RivalAdds(h)

RivalSpec == Init /\ [][RivalNext]_vars

---------------------------------------------------------------------------

Leaving == HostsOf(installed.members) \ HostsOf(installed'.members)

\* What the apply reports and records stays true beside another operator, and
\* its votes follow what it saw.  (SHARD-018, SHARD-021, SHARD-022)
OutlivesRivals == [](SuccessMeansDone /\ NoHiddenWork) /\ VotesFollowSync

\* Nothing but the rollback removes a live member.  (SHARD-019)
\* After code 103 SetReplSetConfigWithRetry reads the version again and
\* nothing else: the members it resends are those of the first read.
OnlyRollbackRemoves == [][~(pc = "send" /\ op = "remove") => Leaving = {}]_vars
=============================================================================
