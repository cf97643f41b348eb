--------------------------- MODULE ClusterShards ---------------------------
(***************************************************************************)
(* A shard of a cluster, its assignment to a zone and a range of keys of   *)
(* that zone, as the resources mongodb_shard (resource_shard.go),          *)
(* mongodb_shard_zone (resource_shard_zone.go) and mongodb_zone_key_range  *)
(* (resource_zone_key_range.go): addShard retried while mongos has not     *)
(* found the shard's primary, removeShard polled until the data has left,  *)
(* the zone's tag in the shard's document, the range's document, and what  *)
(* Terraform remembers.                                                    *)
(*                                                                         *)
(* One plan holds all three resources or none (wanted).  The zone depends  *)
(* on the shard and the range on the zone: each is added after what it     *)
(* depends on and removed before it.                                       *)
(***************************************************************************)
EXTENDS Naturals, Sequences

CONSTANT MaxFaults   \* failed calls, interruptions and acts of other operators

ASSUME FaultsAssumption == MaxFaults \in Nat

VARIABLES
  listed,      \* the shard in listShards
  emptied,     \* no data is left on the draining shard
  tag,         \* the shard's document carries the zone
  assigned,    \* the zone the range of keys belongs to in config.tags
  discovered,  \* mongos knows the primary of the shard's replica set
  shard,       \* mongodb_shard in Terraform state
  zone,        \* mongodb_shard_zone in Terraform state
  range,       \* mongodb_zone_key_range in Terraform state
  wanted,      \* the configuration has the three resources
  pc,          \* the call about to be made, or the pause between two
  todo,        \* the operations of this apply or refresh still to run
  creating,    \* the read about to be made is the end of a Create
  expired,     \* the deadline of the running operation has passed
  result,
  faults

cluster == <<listed, emptied, tag, assigned, discovered>>
state   == <<shard, zone, range>>
control == <<pc, todo, creating, expired, result>>
vars    == <<cluster, state, wanted, control, faults>>

Operations == {"addShard", "removeShard", "readShard", "addZone", "removeZone", "readZone",
               "addRange", "removeRange", "readRange"}
Pauses     == {"addPause", "removePause"}
Known      == {"none", "tracked", "tainted"}

TypeOK ==
    /\ listed \in {"absent", "present", "draining"}
    /\ emptied \in BOOLEAN /\ (emptied => listed = "draining")
    /\ tag \in BOOLEAN /\ (tag => listed # "absent")
    /\ assigned \in {"none", "zone", "other"} /\ discovered \in BOOLEAN
    /\ shard \in Known /\ zone \in Known /\ wanted \in BOOLEAN
    /\ range \in Known \cup {"foreign"}
    /\ pc \in Operations \cup Pauses \cup {"idle"} /\ todo \in Seq(Operations)
    /\ creating \in BOOLEAN /\ (creating => pc \in {"readShard", "readZone", "readRange"})
    /\ expired \in BOOLEAN /\ result \in {"none", "ok", "failed"}
    /\ faults \in 0 .. MaxFaults

Init ==
    /\ listed \in {"absent", "present"} /\ emptied = FALSE
    /\ tag \in {FALSE, listed = "present"} /\ discovered \in BOOLEAN
    /\ assigned \in {"none"} \cup (IF tag THEN {"zone"} ELSE {})
    /\ shard = "none" /\ zone = "none" /\ range = "none" /\ wanted \in BOOLEAN
    /\ pc = "idle" /\ todo = <<>> /\ creating = FALSE /\ expired = FALSE
    /\ result = "none" /\ faults = 0

Charge == faults < MaxFaults /\ faults' = faults + 1

\* Terraform goes on with the next operation; each sets its own deadline.
Run(ops) ==
    /\ pc' = IF ops = <<>> THEN "idle" ELSE Head(ops)
    /\ todo' = IF ops = <<>> THEN <<>> ELSE Tail(ops)
    /\ result' = IF ops = <<>> THEN "ok" ELSE "none"
    /\ creating' = FALSE /\ expired' = FALSE

\* An operation returns an error: what depends on it is not run.
F_Fail ==
    /\ pc' = "idle" /\ todo' = <<>> /\ result' = "failed"
    /\ UNCHANGED <<creating, expired>>
Fail ==
    /\ pc' = "idle" /\ todo' = <<>> /\ result' = "failed"
    /\ creating' = FALSE /\ expired' = FALSE

GoTo(place) == pc' = place /\ UNCHANGED <<todo, expired, result>>

---------------------------------------------------------------------------
(* Terraform (external) *)

\* A resource that is not wanted, or tainted, is destroyed; one that is
\* wanted and not there, or tainted, is created.
Destroyed(known) == known # "none" /\ (~wanted \/ known = "tainted")
Created(known)   == wanted /\ known # "tracked"

Due(op, condition) == IF condition THEN <<op>> ELSE <<>>

\* The zone of a range cannot be changed: a range that state knows in another
\* zone stops the plan, for all resources.  ZONE-026
PlanRefused == wanted /\ range = "foreign"

BeginApply ==
    /\ pc = "idle" /\ ~PlanRefused
    /\ LET plan == Due("removeRange", Destroyed(range)) \o Due("removeZone", Destroyed(zone))
                   \o Due("removeShard", Destroyed(shard)) \o Due("addShard", Created(shard))
                   \o Due("addZone", Created(zone)) \o Due("addRange", Created(range))
       IN  plan # <<>> /\ Run(plan)
    /\ UNCHANGED <<cluster, state, wanted, faults>>

Refresh ==
    /\ pc = "idle"
    /\ LET reads == Due("readShard", shard # "none") \o Due("readZone", zone # "none")
                    \o Due("readRange", range # "none")
       IN  reads # <<>> /\ Run(reads)
    /\ UNCHANGED <<cluster, state, wanted, faults>>

\* The range as Read finds it.
RangeSeen == CASE assigned = "none" -> "none"
               [] assigned = "zone" -> "tracked"
               [] OTHER             -> "foreign"

\* The shard exists and is taken into state by its name, the zone and the range
\* with it.
Import ==
    /\ pc = "idle" /\ wanted /\ shard = "none" /\ listed # "absent"
    /\ shard' = "tracked" /\ zone' = IF tag THEN "tracked" ELSE zone
    /\ range' = IF assigned = "none" THEN range ELSE RangeSeen
    /\ UNCHANGED <<cluster, wanted, control, faults>>

\* The resources are taken out of the configuration, or put back.
Reconsider ==
    /\ pc = "idle" /\ wanted' = ~wanted
    /\ UNCHANGED <<cluster, state, control, faults>>

---------------------------------------------------------------------------
(* The commands, as mongos carries them out (external) *)

\* A shard of that name that is already listed, draining or not, is an answer.
ShardAdded ==
    /\ listed' = IF listed = "absent" THEN "present" ELSE listed
    /\ UNCHANGED <<emptied, tag, assigned, discovered>>

\* The first call starts the draining; the one that finds no data left takes
\* the shard out of the list, and its tags with it.
ShardRemoved ==
    /\ listed' = CASE listed = "present" -> "draining"
                   [] listed = "draining" /\ emptied -> "absent"
                   [] OTHER -> listed
    /\ emptied' = (emptied /\ listed' = "draining")
    /\ tag' = (tag /\ listed' # "absent")
    /\ UNCHANGED <<assigned, discovered>>

\* The only shard of a zone that has a range stays in it.
Required == tag /\ assigned = "zone"
Tagged(there) ==
    /\ listed # "absent" /\ (~there => ~Required)
    /\ tag' = there /\ UNCHANGED <<listed, emptied, assigned, discovered>>

\* updateZoneKeyRange: the zone must be that of a shard, and the range not that
\* of another zone; without a zone it takes the range away.
Assigned(to) ==
    /\ to = "zone" => tag /\ assigned # "other"
    /\ assigned' = to /\ UNCHANGED <<listed, emptied, tag, discovered>>

\* A command that failed, or whose answer was lost, may have been carried out.
Unanswered(effect) == (effect \/ UNCHANGED cluster) /\ Charge /\ Fail

---------------------------------------------------------------------------
(* mongodb_shard *)

\* Create: the ID is set once addShard succeeds, then the shard is read.
\* CLUS-002, CLUS-003
AddShard ==
    /\ pc = "addShard" /\ discovered
    /\ ShardAdded
    /\ GoTo("readShard") /\ creating' = TRUE
    /\ UNCHANGED <<state, wanted, faults>>

\* Code 133: mongos has not found the primary.  CLUS-011, CLUS-012
AddShardUndiscovered ==
    /\ pc = "addShard" /\ ~discovered
    /\ IF expired THEN Fail ELSE GoTo("addPause") /\ UNCHANGED creating
    /\ UNCHANGED <<cluster, state, wanted, faults>>

AddShardFails ==
    /\ pc = "addShard" /\ Unanswered(ShardAdded)
    /\ UNCHANGED <<state, wanted>>

\* The next round of the loop of Create, or of Delete.
Resume ==
    /\ pc \in Pauses
    /\ GoTo(IF pc = "addPause" THEN "addShard" ELSE "removeShard") /\ UNCHANGED creating
    /\ UNCHANGED <<cluster, state, wanted, faults>>

\* Read clears the ID of a shard that is not listed, draining shards are.  A
\* Create that ends without an ID is an error to Terraform.  CLUS-004, CLUS-005
F_ReadShard ==
    /\ pc = "readShard"
    /\ shard' = IF listed # "present" THEN "none" ELSE IF creating THEN "tracked" ELSE shard
    /\ IF creating /\ listed # "present" THEN Fail ELSE Run(todo)
    /\ UNCHANGED <<cluster, zone, range, wanted, faults>>
ReadShard ==
    /\ pc = "readShard"
    /\ shard' = IF listed = "absent" THEN "none" ELSE IF creating THEN "tracked" ELSE shard
    /\ IF creating /\ listed = "absent" THEN Fail ELSE Run(todo)
    /\ UNCHANGED <<cluster, zone, range, wanted, faults>>

\* A Create that set the ID and fails leaves a tainted resource.
ReadShardFails ==
    /\ pc = "readShard" /\ Charge /\ Fail
    /\ shard' = IF creating THEN "tainted" ELSE shard
    /\ UNCHANGED <<cluster, zone, range, wanted>>

\* Delete looks at its deadline before each call.
F_RemoveShardOverdue ==
    /\ pc = "removeShard" /\ expired /\ GoTo("removePause") /\ UNCHANGED creating
    /\ UNCHANGED <<cluster, state, wanted, faults>>
RemoveShardOverdue ==
    /\ pc = "removeShard" /\ expired /\ Fail
    /\ UNCHANGED <<cluster, state, wanted, faults>>

\* removeShard answers that the shard does not exist, that the draining has
\* started or goes on, or that the removal is completed.  CLUS-006, CLUS-008
F_RemoveShard ==
    /\ pc = "removeShard" /\ ~expired
    /\ ShardRemoved
    /\ IF listed = "absent" THEN Fail /\ UNCHANGED shard
       ELSE shard' = "none" /\ Run(todo)
    /\ UNCHANGED <<zone, range, wanted, faults>>
RemoveShard ==
    /\ pc = "removeShard" /\ ~expired
    /\ ShardRemoved
    /\ IF listed = "absent" THEN Fail /\ UNCHANGED shard
       ELSE IF listed' = "absent" THEN shard' = "none" /\ Run(todo)
       ELSE GoTo("removePause") /\ UNCHANGED <<shard, creating>>
    /\ UNCHANGED <<zone, range, wanted, faults>>

RemoveShardFails ==
    /\ pc = "removeShard" /\ ~expired /\ Unanswered(ShardRemoved)
    /\ UNCHANGED <<state, wanted>>

\* Both pauses watch the context.
PauseInterrupted ==
    /\ pc \in Pauses /\ Charge /\ Fail
    /\ UNCHANGED <<cluster, state, wanted>>

---------------------------------------------------------------------------
(* mongodb_shard_zone *)

\* mongos refuses to tag a shard it does not know.  ZONE-002, ZONE-003
AddZone ==
    /\ pc = "addZone"
    /\ IF listed = "absent" THEN Fail /\ UNCHANGED cluster
       ELSE Tagged(TRUE) /\ GoTo("readZone") /\ creating' = TRUE
    /\ UNCHANGED <<state, wanted, faults>>

AddZoneFails ==
    /\ pc = "addZone" /\ Unanswered(Tagged(TRUE))
    /\ UNCHANGED <<state, wanted>>

\* ZONE-004, ZONE-005
F_ReadZone ==
    /\ pc = "readZone"
    /\ zone' = IF listed = "absent" THEN "none" ELSE IF creating THEN "tracked" ELSE zone
    /\ IF creating /\ ~tag THEN Fail ELSE Run(todo)
    /\ UNCHANGED <<cluster, shard, range, wanted, faults>>
ReadZone ==
    /\ pc = "readZone"
    /\ zone' = IF ~tag THEN "none" ELSE IF creating THEN "tracked" ELSE zone
    /\ IF creating /\ ~tag THEN Fail ELSE Run(todo)
    /\ UNCHANGED <<cluster, shard, range, wanted, faults>>

\* Whatever error the query returns is taken for a shard that is not there.
ReadZoneMistaken ==
    /\ pc = "readZone" /\ Charge
    /\ zone' = "none"
    /\ IF creating THEN Fail ELSE Run(todo)
    /\ UNCHANGED <<cluster, shard, range, wanted>>

\* No connection: Read returns the error.
ReadZoneFails ==
    /\ pc = "readZone" /\ Charge /\ Fail
    /\ zone' = IF creating THEN "tainted" ELSE zone
    /\ UNCHANGED <<cluster, shard, range, wanted>>

\* ZONE-007
RemoveZone ==
    /\ pc = "removeZone"
    /\ IF listed = "absent" \/ Required THEN Fail /\ UNCHANGED <<cluster, zone>>
       ELSE Tagged(FALSE) /\ zone' = "none" /\ Run(todo)
    /\ UNCHANGED <<shard, range, wanted, faults>>

RemoveZoneFails ==
    /\ pc = "removeZone" /\ Unanswered(Tagged(FALSE))
    /\ UNCHANGED <<state, wanted>>

---------------------------------------------------------------------------
(* mongodb_zone_key_range *)

\* ZONE-017, ZONE-018
AddRange ==
    /\ pc = "addRange"
    /\ IF tag /\ assigned # "other"
       THEN Assigned("zone") /\ GoTo("readRange") /\ creating' = TRUE
       ELSE Fail /\ UNCHANGED cluster
    /\ UNCHANGED <<state, wanted, faults>>

AddRangeFails ==
    /\ pc = "addRange" /\ Unanswered(Assigned("zone"))
    /\ UNCHANGED <<state, wanted>>

\* The range keeps its place in state only if its document is there; the zone
\* read from it replaces the one in state.  ZONE-019, ZONE-020
F_ReadRange ==
    /\ pc = "readRange"
    /\ range' = IF assigned # "zone" THEN "none"
                ELSE IF creating \/ range # "tainted" THEN RangeSeen ELSE range
    /\ IF creating /\ assigned = "none" THEN Fail ELSE Run(todo)
    /\ UNCHANGED <<cluster, shard, zone, wanted, faults>>
ReadRange ==
    /\ pc = "readRange"
    /\ range' = IF assigned = "none" THEN "none"
                ELSE IF creating \/ range # "tainted" THEN RangeSeen ELSE range
    /\ IF creating /\ assigned = "none" THEN Fail ELSE Run(todo)
    /\ UNCHANGED <<cluster, shard, zone, wanted, faults>>

\* Unlike the zone's, its Read returns every error of its query.
ReadRangeFails ==
    /\ pc = "readRange" /\ Charge /\ Fail
    /\ range' = IF creating THEN "tainted" ELSE range
    /\ UNCHANGED <<cluster, shard, zone, wanted>>

\* The range is taken away from whatever zone it is in.  ZONE-022
RemoveRange ==
    /\ pc = "removeRange"
    /\ Assigned("none") /\ range' = "none" /\ Run(todo)
    /\ UNCHANGED <<shard, zone, wanted, faults>>

RemoveRangeFails ==
    /\ pc = "removeRange" /\ Unanswered(Assigned("none"))
    /\ UNCHANGED <<state, wanted>>

---------------------------------------------------------------------------
(* The world around *)

\* The provider is killed: Terraform state is as before the operation.
Killed ==
    /\ pc # "idle" /\ Charge /\ Fail
    /\ UNCHANGED <<cluster, state, wanted>>

\* add_timeout_secs or remove_timeout_secs have passed.
Expire ==
    /\ pc \in {"addShard", "removeShard"} \cup Pauses /\ ~expired /\ expired' = TRUE
    /\ UNCHANGED <<cluster, state, wanted, pc, todo, creating, result, faults>>

ClusterOnly == UNCHANGED <<state, wanted, control>>

Drained ==
    /\ listed = "draining" /\ ~emptied /\ emptied' = TRUE
    /\ ClusterOnly /\ UNCHANGED <<listed, tag, assigned, discovered, faults>>

Discover ==
    /\ ~discovered /\ discovered' = TRUE
    /\ ClusterOnly /\ UNCHANGED <<listed, emptied, tag, assigned, faults>>

\* The shard loses its primary.
Undiscover ==
    /\ discovered /\ discovered' = FALSE /\ Charge
    /\ ClusterOnly /\ UNCHANGED <<listed, emptied, tag, assigned>>

\* Somebody else adds, drains, removes or tags the shard, or gives the range to
\* another zone or to none.
Outsider ==
    /\ Charge /\ ClusterOnly
    /\ \/ ShardAdded
       \/ ShardRemoved
       \/ Tagged(~tag)
       \/ \E to \in {"none", "zone", "other"} \ {assigned} : Assigned(to)

---------------------------------------------------------------------------
ShardOps ==
    \/ AddShard \/ AddShardUndiscovered \/ AddShardFails \/ Resume
    \/ ReadShard \/ ReadShardFails
    \/ RemoveShardOverdue \/ RemoveShard \/ RemoveShardFails \/ PauseInterrupted

ZoneOps ==
    \/ AddZone \/ AddZoneFails \/ ReadZone \/ ReadZoneMistaken \/ ReadZoneFails
    \/ RemoveZone \/ RemoveZoneFails

RangeOps ==
    AddRange \/ AddRangeFails \/ ReadRange \/ ReadRangeFails \/ RemoveRange \/ RemoveRangeFails

Provider == ShardOps \/ ZoneOps \/ RangeOps

Terraform == BeginApply \/ Refresh \/ Import \/ Reconsider

Surroundings == Killed \/ Expire \/ Drained \/ Discover \/ Undiscover \/ Outsider

Next == Terraform \/ Provider \/ Surroundings

Spec == Init /\ [][Next]_vars

\* The provider runs and time passes; nothing is said of users or servers.
LiveSpec == Spec /\ WF_vars(Provider) /\ WF_vars(Expire)

\* Data moves, primaries are elected and found, the user refreshes and applies
\* while there is something to do, and not every removal is out of time
\* before its first call.
Helpful ==
    /\ WF_vars(Drained) /\ WF_vars(Discover)
    /\ SF_vars(Refresh) /\ SF_vars(BeginApply) /\ SF_vars(RemoveShard)

---------------------------------------------------------------------------
(* Properties *)

\* Terraform forgets something only in the step that learns that it is not
\* there, and begins to vouch for something only when it has seen it there: a
\* removal that is still draining, was given up, or whose answer was lost
\* leaves its resource in state.  A zone is forgotten also when its query
\* failed, and a range that stops the plan has been seen in another zone.
\* (CLUS-005, CLUS-006, ZONE-003, ZONE-005, ZONE-018, ZONE-020)
StateFollowsCluster ==
    [][/\ shard # "none" /\ shard' = "none" => listed' = "absent"
       /\ shard # "tracked" /\ shard' = "tracked" => listed' # "absent"
       /\ zone # "none" /\ zone' = "none" => ~tag' \/ faults' # faults
       /\ zone # "tracked" /\ zone' = "tracked" => tag'
       /\ range # "none" /\ range' = "none" => assigned' = "none"
       /\ range # "tracked" /\ range' = "tracked" => assigned' = "zone"
       /\ range # "foreign" /\ range' = "foreign" => assigned' = "other"]_vars

\* Every apply and every refresh ends, whether or not the data ever moves or
\* the primary is ever found.  (CLUS-008, CLUS-012)
ApplyEnds == pc # "idle" ~> pc = "idle"

\* A range that is in its zone and not in state: a create whose answer was lost.
Stray == Required /\ range = "none"

\* A shard that state knows and the configuration no longer has leaves the
\* cluster, over as many removals as it takes, unless a stray range holds its
\* zone fast: then nothing of the three can be removed any more.  (CLUS-006,
\* ZONE-007, ZONE-022)
DestroyCompletes ==
    Helpful => ((shard # "none" /\ []~wanted) ~> (listed = "absent" \/ Stray))

\* What the configuration keeps asking for is there in the end and in state,
\* whatever was lost, killed, replaced or undone on the way, unless the range
\* is another zone's, or holds a tainted zone fast: its replacement begins with
\* a removal that is refused every time.  (CLUS-002, CLUS-011, ZONE-002,
\* ZONE-017)
CreateCompletes ==
    Helpful => (<>[]wanted =>
        <>[](\/ assigned = "other" \/ (zone = "tainted" /\ Required)
             \/ /\ shard = "tracked" /\ listed # "absent" /\ zone = "tracked" /\ tag
                /\ range = "tracked" /\ assigned = "zone"))

\* Removals and creations both complete over repeated applies.
AppliesComplete == DestroyCompletes /\ CreateCompletes
=============================================================================
