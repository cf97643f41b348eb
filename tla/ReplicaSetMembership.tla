----------------------- MODULE ReplicaSetMembership -----------------------
(***************************************************************************)
(* What an apply of mongodb_shard_config promises about the membership of  *)
(* a replica set, whatever fails on the way: members arrive one at a time  *)
(* and without a vote (arbiters excepted), a vote is given to one member   *)
(* at a time and only once the member has been seen synced, votes are      *)
(* taken only from members that had one, and a member leaves only if the   *)
(* same apply brought it in and never saw it synced.                       *)
(* ShardConfigApply implements this specification.                         *)
(***************************************************************************)
CONSTANT Hosts

VARIABLES
  role,    \* of each host: out of the set, or its part in it
  synced,  \* hosts seen synced in the current apply
  mine     \* hosts the current apply brought in

membershipVars == <<role, synced, mine>>

Roles == {"out", "nonvoter", "voter", "arbiter"}

MembershipInit ==
    /\ role \in [Hosts -> Roles]
    /\ synced = {} /\ mine = {}

StartApply == synced' = {} /\ mine' = {} /\ UNCHANGED role

SeeSynced(h) ==
    /\ role[h] # "out"
    /\ synced' = synced \cup {h} /\ UNCHANGED <<role, mine>>

Join(h) ==
    /\ role[h] = "out"
    /\ \E r \in {"nonvoter", "arbiter"} : role' = [role EXCEPT ![h] = r]
    /\ mine' = mine \cup {h} /\ UNCHANGED synced

GetVote(h) ==
    /\ role[h] = "nonvoter" /\ h \in synced
    /\ role' = [role EXCEPT ![h] = "voter"] /\ UNCHANGED <<synced, mine>>

LoseVotes(S) ==
    /\ \A h \in S : role[h] = "voter"
    /\ role' = [h \in Hosts |-> IF h \in S THEN "nonvoter" ELSE role[h]]
    /\ UNCHANGED <<synced, mine>>

RollBack(h) ==
    /\ role[h] # "out" /\ h \in mine /\ h \notin synced
    /\ role' = [role EXCEPT ![h] = "out"] /\ UNCHANGED <<synced, mine>>

MembershipNext ==
    \/ StartApply
    \/ \E h \in Hosts : SeeSynced(h) \/ Join(h) \/ GetVote(h) \/ RollBack(h)
    \/ \E S \in SUBSET Hosts : LoseVotes(S)

MembershipSpec == MembershipInit /\ [][MembershipNext]_membershipVars
=============================================================================
