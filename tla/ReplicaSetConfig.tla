------------------------- MODULE ReplicaSetConfig -------------------------
(***************************************************************************)
(* The replica set configuration and the pure functions the provider       *)
(* computes on it: partition of the member blocks, staging of new members, *)
(* held promotions, the merge, the state read-back and the two             *)
(* classifications (a node's row of replSetGetStatus, a candidate's        *)
(* isMaster).  Source: shard_members.go, resource_shard_config.go.         *)
(* A definition called F_Name is a faulty variant of Name, which follows   *)
(* it: with it in Name's place a property of the project fails.            *)
(*                                                                         *)
(* A member list is a set of records, so a duplicated host is possible, as *)
(* it is in the slice the provider sends.  Votes are 0 or 1 (the server    *)
(* admits no other value), a priority is zero or not, and the fields that  *)
(* are copied like the priority but that nothing depends on (hidden,       *)
(* build_indexes, tags) are left out.                                      *)
(***************************************************************************)
EXTENDS Integers, FiniteSets, FiniteSetsExt, Sequences

CONSTANTS Hosts,          \* the host:port strings of the blocks and of the set
          SettingsValues  \* the replica set settings a plan may ask for

ASSUME HostsFinite == IsFiniteSet(Hosts)

\* One entry of rs.conf().members.
Member == [id : Nat, host : Hosts, votes : {0, 1}, priority : {0, 1}, arbiter : BOOLEAN]

\* A member block of the Terraform configuration; also a row of the member
\* list in Terraform state, which has the same fields.
Block == [host : Hosts, votes : {0, 1}, priority : {0, 1}, arbiter : BOOLEAN]

Config == [version : Nat, settings : SettingsValues, members : SUBSET Member]

HostsOf(rows) == {r.host : r \in rows}
Rows(blocks) == {blocks[i] : i \in DOMAIN blocks}

---------------------------------------------------------------------------
(* The member blocks *)

\* SHARD-024: an arbiter's priority is sent as 0 whatever the block says.
F_ExtractOverride(b) == b
ExtractOverride(b) == IF b.arbiter THEN [b EXCEPT !.priority = 0] ELSE b

ExtractMemberOverrides(blocks) == [i \in DOMAIN blocks |-> ExtractOverride(blocks[i])]

\* SHARD-026: two blocks may not name the same host.
ValidateMemberOverrides(blocks) ==
    \A i, j \in DOMAIN blocks : blocks[i].host = blocks[j].host => i = j

\* The blocks whose host is not in the set, as indices into the block list:
\* block order is the order of the indices.  SHARD-012
F_MissingBlocks(members, blocks) ==
    {i - 1 : i \in {j \in DOMAIN blocks : blocks[j].host \notin HostsOf(members)}}
MissingBlocks(members, blocks) ==
    {i \in DOMAIN blocks : blocks[i].host \notin HostsOf(members)}

\* The blocks that raise the votes of a live member.  SHARD-023
PromotingBlocks(members, blocks) ==
    {i \in DOMAIN blocks :
        \E m \in members : m.host = blocks[i].host /\ blocks[i].votes > m.votes}

\* A promoting block is pinned to the member's live votes and priority.
F_HoldPromotion(m, b) == b
HoldPromotion(m, b) ==
    IF b.votes > m.votes
    THEN [b EXCEPT !.votes = m.votes, !.priority = m.priority]
    ELSE b

MergeMember(m, b) ==
    [m EXCEPT !.votes = b.votes, !.priority = b.priority, !.arbiter = b.arbiter]

BlockOf(blocks, host) == blocks[CHOOSE i \in DOMAIN blocks : blocks[i].host = host]

\* Members without a block are left unchanged.  SHARD-005, SHARD-006
MergeMembers(members, blocks) ==
    {IF m.host \in HostsOf(Rows(blocks))
     THEN LET b == BlockOf(blocks, m.host) IN MergeMember(m, HoldPromotion(m, b))
     ELSE m : m \in members}

---------------------------------------------------------------------------
(* Adding a member *)

\* SHARD-014: one more than the highest _id in use, 0 for an empty set.
F_NextMemberID(members) == Cardinality(members)
NextMemberID(members) ==
    IF members = {} THEN 0 ELSE Max({m.id : m \in members}) + 1

BuildConfigMember(b, id) ==
    [id |-> id, host |-> b.host, votes |-> b.votes, priority |-> b.priority,
     arbiter |-> b.arbiter]

\* SHARD-022: votes and priority start at 0, except for an arbiter.
F_StagedMember(b, id) == BuildConfigMember(b, id)
StagedMember(b, id) ==
    BuildConfigMember(IF b.arbiter THEN b ELSE [b EXCEPT !.votes = 0, !.priority = 0], id)

NeedsPromotion(b) == ~b.arbiter /\ (b.votes # 0 \/ b.priority # 0)

F_WaitTargetFor(b) == IF b.arbiter THEN "arbiter" ELSE "reachable"
WaitTargetFor(b) ==
    IF b.arbiter THEN "arbiter"
    ELSE IF NeedsPromotion(b) THEN "secondary" ELSE "reachable"

---------------------------------------------------------------------------
(* What the primary's replSetGetStatus says of a host *)

\* health 0; health 1 and still starting up or syncing; the settled states.
NodeStates == {"down", "syncing", "secondary", "primary", "arbiter"}

\* A host that is not a member of the set has no row.  SHARD-016
Reachable(members, host, state) == host \in HostsOf(members) /\ state # "down"

TargetMet(target, state) ==
    CASE target = "secondary" -> state \in {"secondary", "primary"}
      [] target = "arbiter"   -> state = "arbiter"
      [] OTHER                -> TRUE

---------------------------------------------------------------------------
(* What a candidate host answers to isMaster before it is added *)

\* "none" stands for every way of getting no answer.
ProbeAnswers == {"none", "mongos", "thisSet", "otherSet", "uninitiated", "standalone"}

\* SHARD-027
CheckAddTarget(answer) ==
    CASE answer = "none"        -> "unknown"
      [] answer = "uninitiated" -> "ok"
      [] OTHER                  -> "refused"

\* Whether the block may be added: an arbiter needs an answer.  SHARD-028
PreflightPasses(b, answer) ==
    \/ CheckAddTarget(answer) = "ok"
    \/ CheckAddTarget(answer) = "unknown" /\ ~b.arbiter

---------------------------------------------------------------------------
(* Terraform state *)

\* The member rows of state: the managed hosts that are in the set.  The
\* list follows the block order, so as a set it carries the same information.
MemberView(m) ==
    [host |-> m.host, votes |-> m.votes, priority |-> m.priority, arbiter |-> m.arbiter]

MembersToState(members, managedHosts) ==
    {MemberView(m) : m \in {k \in members : k.host \in managedHosts}}

---------------------------------------------------------------------------
(* The command preview of a plan: the reconfigs of members it shows *)

\* What a plan takes for the live members: the rows of state or, before the
\* set is initiated, its first member as replSetInitiate makes it.
PreviewState(inState, rows, blocks) ==
    IF inState THEN rows
    ELSE {[blocks[i] EXCEPT !.votes = 1, !.priority = 1] : i \in DOMAIN blocks \cap {1}}

\* A block that repeats the host of an earlier one is skipped.
FirstOfHost(blocks) ==
    {i \in DOMAIN blocks : \A j \in DOMAIN blocks : blocks[j].host = blocks[i].host => i <= j}

PreviewedAdds(rows, blocks) == {i \in FirstOfHost(blocks) : blocks[i].host \notin HostsOf(rows)}

F_PreviewedPromotions(rows, blocks) ==
    {i \in PreviewedAdds(rows, blocks) : NeedsPromotion(blocks[i])}
PreviewedPromotions(rows, blocks) ==
    {i \in PreviewedAdds(rows, blocks) : NeedsPromotion(blocks[i])}
      \cup {i \in FirstOfHost(blocks) :
               \E r \in rows : r.host = blocks[i].host /\ blocks[i].votes > r.votes}

---------------------------------------------------------------------------
(* The server (external): what replSetReconfig validates *)

UniqueHostsAndIds(members) ==
    \A m, k \in members : (m.host = k.host \/ m.id = k.id) => m = k

Voters(members) == {m.host : m \in {k \in members : k.votes = 1}}

\* A member list that can elect a primary and whose flags agree.
WellFormedMembers(members) ==
    /\ UniqueHostsAndIds(members)
    /\ \E m \in members : m.priority = 1
    /\ \A m \in members : (m.votes = 0 => m.priority = 0) /\ (m.arbiter => m.votes = 1 /\ m.priority = 0)

\* A host keeps its _id and its arbiter flag from one configuration to the next.
KeepsIdentity(old, new) ==
    \A m \in old, k \in new : m.host = k.host => m.id = k.id /\ m.arbiter = k.arbiter

\* MongoDB 4.4 and later change at most one voting member per reconfig.
VoterChange(old, new) ==
    Cardinality((Voters(old) \ Voters(new)) \cup (Voters(new) \ Voters(old)))
=============================================================================
