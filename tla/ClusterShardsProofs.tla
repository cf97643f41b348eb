------------------------ MODULE ClusterShardsProofs ------------------------
(***************************************************************************)
(* Theorems about ClusterShards, for any number of failed calls,           *)
(* interruptions and acts of other operators.                              *)
(***************************************************************************)
EXTENDS ClusterShards, TLAPS

---------------------------------------------------------------------------
(* Types, one part for each group of variables *)

ClusterTyped ==
    /\ listed \in {"absent", "present", "draining"}
    /\ emptied \in BOOLEAN /\ (emptied => listed = "draining")
    /\ tag \in BOOLEAN /\ (tag => listed # "absent")
    /\ assigned \in {"none", "zone", "other"} /\ discovered \in BOOLEAN
StateTyped ==
    /\ shard \in Known /\ zone \in Known /\ range \in Known \cup {"foreign"}
    /\ wanted \in BOOLEAN
Places == Operations \cup Pauses \cup {"idle"}
ControlTyped ==
    /\ pc \in Places /\ todo \in Seq(Operations)
    /\ creating \in BOOLEAN /\ (creating => pc \in {"readShard", "readZone", "readRange"})
    /\ expired \in BOOLEAN /\ result \in {"none", "ok", "failed"}
FaultsTyped == faults \in 0 .. MaxFaults

LEMMA Parts == TypeOK <=> ClusterTyped /\ StateTyped /\ ControlTyped /\ FaultsTyped
BY DEF TypeOK, ClusterTyped, StateTyped, ControlTyped, FaultsTyped, Places

LEMMA PartsNext == TypeOK' <=> ClusterTyped' /\ StateTyped' /\ ControlTyped' /\ FaultsTyped'
BY DEF TypeOK, ClusterTyped, StateTyped, ControlTyped, FaultsTyped, Places

\* What is due is a list of at most one operation.
LEMMA DueTyped ==
    ASSUME NEW op \in Operations, NEW condition PROVE Due(op, condition) \in Seq(Operations)
<1>1. <<op>> \in Seq(Operations) /\ <<>> \in Seq(Operations)
  OBVIOUS
<1> QED BY <1>1 DEF Due

LEMMA RunTyped == ASSUME NEW ops \in Seq(Operations), Run(ops) PROVE ControlTyped'
<1>1. CASE ops = <<>>
  <2>1. pc' = "idle" /\ todo' = <<>> /\ result' = "ok" /\ creating' = FALSE /\ expired' = FALSE
    BY <1>1 DEF Run
  <2>2. <<>> \in Seq(Operations)
    OBVIOUS
  <2> QED BY <2>1, <2>2 DEF ControlTyped, Places
<1>2. CASE ops # <<>>
  <2>1. Head(ops) \in Operations /\ Tail(ops) \in Seq(Operations)
    BY <1>2
  <2>2. /\ pc' = Head(ops) /\ todo' = Tail(ops) /\ result' = "none"
        /\ creating' = FALSE /\ expired' = FALSE
    BY <1>2 DEF Run
  <2>3. pc' \in Places /\ todo' \in Seq(Operations)
    BY <2>1, <2>2 DEF Places
  <2> QED BY <2>2, <2>3 DEF ControlTyped
<1> QED BY <1>1, <1>2

LEMMA FailTyped == ASSUME Fail PROVE ControlTyped'
<1>1. <<>> \in Seq(Operations)
  OBVIOUS
<1> QED BY <1>1 DEF Fail, ControlTyped, Places

LEMMA ControlKept == ASSUME ControlTyped, UNCHANGED control PROVE ControlTyped'
BY DEF ControlTyped, control

\* A call goes on with a pause or, the ID set, with the read.
LEMMA GoToTyped ==
    ASSUME ControlTyped, NEW place \in Places, GoTo(place),
           \/ creating' = FALSE
           \/ creating' = TRUE /\ place \in {"readShard", "readZone", "readRange"}
    PROVE  ControlTyped'
BY DEF GoTo, ControlTyped

---------------------------------------------------------------------------
(* The commands and the cluster *)

LEMMA ShardAddedTyped == ASSUME ClusterTyped, ShardAdded PROVE ClusterTyped'
BY DEF ClusterTyped, ShardAdded

\* Nothing is left behind of a shard that leaves the list.
LEMMA ShardRemovedTyped == ASSUME ClusterTyped, ShardRemoved PROVE ClusterTyped'
<1>1. listed' \in {"absent", "present", "draining"}
  BY DEF ClusterTyped, ShardRemoved
<1>2. emptied' \in BOOLEAN /\ (emptied' => listed' = "draining")
  BY DEF ClusterTyped, ShardRemoved
<1>3. tag' \in BOOLEAN /\ (tag' => listed' # "absent")
  BY DEF ClusterTyped, ShardRemoved
<1> QED BY <1>1, <1>2, <1>3 DEF ClusterTyped, ShardRemoved

LEMMA TaggedTyped ==
    ASSUME ClusterTyped, NEW there \in BOOLEAN, Tagged(there) PROVE ClusterTyped'
BY DEF ClusterTyped, Tagged

LEMMA AssignedTyped ==
    ASSUME ClusterTyped, NEW to \in {"none", "zone", "other"}, Assigned(to) PROVE ClusterTyped'
BY DEF ClusterTyped, Assigned

LEMMA ClusterKept == ASSUME ClusterTyped, UNCHANGED cluster PROVE ClusterTyped'
BY DEF ClusterTyped, cluster

LEMMA ClusterStep == ASSUME TypeOK, [Next]_vars PROVE ClusterTyped'
<1>1. ClusterTyped
  BY Parts
<1>2. CASE UNCHANGED cluster
  BY <1>1, <1>2, ClusterKept
<1>3. CASE ShardAdded \/ ShardRemoved
  BY <1>1, <1>3, ShardAddedTyped, ShardRemovedTyped
<1>4. CASE Tagged(TRUE) \/ Tagged(FALSE) \/ Tagged(~tag)
  <2>1. CASE Tagged(TRUE)
    BY <1>1, <2>1, TaggedTyped
  <2>2. CASE Tagged(FALSE)
    BY <1>1, <2>2, TaggedTyped
  <2>3. CASE Tagged(~tag)
    BY <1>1, <2>3, TaggedTyped
  <2> QED BY <1>4, <2>1, <2>2, <2>3
<1>5. CASE \E to \in {"none", "zone", "other"} : Assigned(to)
  BY <1>1, <1>5, AssignedTyped
<1>6. CASE Terraform
  BY <1>2, <1>6 DEF Terraform, BeginApply, Refresh, Import, Reconsider
<1>7. CASE ShardOps
  BY <1>2, <1>3, <1>7 DEF ShardOps, AddShard, AddShardUndiscovered, AddShardFails, Resume,
     ReadShard, ReadShardFails, RemoveShardOverdue, RemoveShard, RemoveShardFails,
     PauseInterrupted, Unanswered
<1>8. CASE ZoneOps
  BY <1>2, <1>4, <1>8 DEF ZoneOps, AddZone, AddZoneFails, ReadZone, ReadZoneMistaken,
     ReadZoneFails, RemoveZone, RemoveZoneFails, Unanswered
<1>9. CASE RangeOps
  BY <1>2, <1>5, <1>9 DEF RangeOps, AddRange, AddRangeFails, ReadRange, ReadRangeFails,
     RemoveRange, RemoveRangeFails, Unanswered
<1>10. CASE Surroundings
  <2>1. CASE Outsider
    BY <2>1, <1>3, <1>4, <1>5 DEF Outsider
  <2>2. CASE Drained
    BY <1>1, <2>2 DEF ClusterTyped, Drained
  <2>3. CASE Discover \/ Undiscover
    <3>1. UNCHANGED <<listed, emptied, tag, assigned>> /\ discovered' \in BOOLEAN
      BY <2>3 DEF Discover, Undiscover
    <3> QED BY <1>1, <3>1 DEF ClusterTyped
  <2> QED BY <1>2, <1>10, <2>1, <2>2, <2>3 DEF Surroundings, Killed, Expire
<1>11. CASE UNCHANGED vars
  BY <1>2, <1>11 DEF vars
<1> QED BY <1>6, <1>7, <1>8, <1>9, <1>10, <1>11 DEF Next, Provider

---------------------------------------------------------------------------
(* Terraform state, the control of an operation and the faults *)

LEMMA StateStep == ASSUME TypeOK, [Next]_vars PROVE StateTyped'
<1>1. StateTyped
  BY Parts
<1>2. CASE UNCHANGED <<state, wanted>>
  BY <1>1, <1>2 DEF StateTyped, state
<1>3. CASE BeginApply \/ Refresh
  BY <1>2, <1>3 DEF BeginApply, Refresh
<1>4. CASE Import
  BY <1>1, <1>4 DEF StateTyped, Known, Import, RangeSeen
<1>5. CASE Reconsider
  BY <1>1, <1>5 DEF StateTyped, Reconsider, state
<1>6. CASE ShardOps
  <2>1. CASE ReadShard \/ ReadShardFails \/ RemoveShard
    BY <1>1, <2>1 DEF StateTyped, Known, ReadShard, ReadShardFails, RemoveShard
  <2> QED BY <1>2, <1>6, <2>1 DEF ShardOps, AddShard, AddShardUndiscovered, AddShardFails,
     Resume, RemoveShardOverdue, RemoveShardFails, PauseInterrupted
<1>7. CASE ZoneOps
  <2>1. CASE ReadZone \/ ReadZoneMistaken \/ ReadZoneFails \/ RemoveZone
    BY <1>1, <2>1 DEF StateTyped, Known, ReadZone, ReadZoneMistaken, ReadZoneFails, RemoveZone
  <2> QED BY <1>2, <1>7, <2>1 DEF ZoneOps, AddZone, AddZoneFails, RemoveZoneFails
<1>8. CASE RangeOps
  <2>1. CASE ReadRange \/ ReadRangeFails \/ RemoveRange
    BY <1>1, <2>1 DEF StateTyped, Known, ReadRange, ReadRangeFails, RemoveRange, RangeSeen
  <2> QED BY <1>2, <1>8, <2>1 DEF RangeOps, AddRange, AddRangeFails, RemoveRangeFails
<1>9. CASE Surroundings
  BY <1>2, <1>9 DEF Surroundings, Killed, Expire, Drained, Discover, Undiscover, Outsider,
     ClusterOnly
<1>10. CASE UNCHANGED vars
  BY <1>2, <1>10 DEF vars
<1> QED BY <1>3, <1>4, <1>5, <1>6, <1>7, <1>8, <1>9, <1>10 DEF Next, Provider, Terraform

LEMMA BeginTyped == ASSUME BeginApply \/ Refresh PROVE ControlTyped'
<1>1. CASE BeginApply
  <2>1. PICK plan :
          /\ plan = Due("removeRange", Destroyed(range)) \o Due("removeZone", Destroyed(zone))
                    \o Due("removeShard", Destroyed(shard)) \o Due("addShard", Created(shard))
                    \o Due("addZone", Created(zone)) \o Due("addRange", Created(range))
          /\ Run(plan)
    BY <1>1 DEF BeginApply
  <2>2. \A s, t \in Seq(Operations) : s \o t \in Seq(Operations)
    OBVIOUS
  <2>3. {"removeRange", "removeZone", "removeShard", "addShard", "addZone", "addRange"}
            \subseteq Operations
    BY DEF Operations
  <2>4. plan \in Seq(Operations)
    BY <2>1, <2>2, <2>3, DueTyped, Zenon
  <2> QED BY <2>1, <2>4, RunTyped
<1>2. CASE Refresh
  <2>1. PICK reads :
          /\ reads = Due("readShard", shard # "none") \o Due("readZone", zone # "none")
                     \o Due("readRange", range # "none")
          /\ Run(reads)
    BY <1>2 DEF Refresh
  <2>2. \A s, t \in Seq(Operations) : s \o t \in Seq(Operations)
    OBVIOUS
  <2>3. {"readShard", "readZone", "readRange"} \subseteq Operations
    BY DEF Operations
  <2>4. reads \in Seq(Operations)
    BY <2>1, <2>2, <2>3, DueTyped, Zenon
  <2> QED BY <2>1, <2>4, RunTyped
<1> QED BY <1>1, <1>2

\* A pause is never taken by an operation that is at its last read.
LEMMA ControlStep == ASSUME TypeOK, [Next]_vars PROVE ControlTyped'
<1>1. ControlTyped
  BY Parts
<1>2. todo \in Seq(Operations)
  BY <1>1 DEF ControlTyped
<1>3. CASE Fail \/ Run(todo)
  BY <1>2, <1>3, FailTyped, RunTyped
<1>4. CASE UNCHANGED control
  BY <1>1, <1>4, ControlKept
<1>5. Operations \cup Pauses \subseteq Places /\ "addPause" \in Places /\ "removePause" \in Places
      /\ "addShard" \in Places /\ "removeShard" \in Places /\ "readShard" \in Places
      /\ "readZone" \in Places /\ "readRange" \in Places
  BY DEF Places, Operations, Pauses
<1>6. CASE \E place \in {"readShard", "readZone", "readRange"} : GoTo(place) /\ creating' = TRUE
  BY <1>1, <1>5, <1>6, GoToTyped
<1>7. CASE /\ pc \in {"addShard", "removeShard", "addPause", "removePause"}
           /\ \E place \in {"addShard", "removeShard", "addPause", "removePause"} : GoTo(place)
           /\ UNCHANGED creating
  <2>1. creating' = FALSE
    BY <1>1, <1>7 DEF ControlTyped
  <2> QED BY <1>1, <1>5, <1>7, <2>1, GoToTyped
<1>8. CASE Terraform
  BY <1>4, <1>8, BeginTyped DEF Terraform, Import, Reconsider
<1>9. CASE ShardOps
  <2>1. CASE AddShard \/ AddShardUndiscovered \/ AddShardFails
    BY <1>3, <1>6, <1>7, <2>1 DEF AddShard, AddShardUndiscovered, AddShardFails, Unanswered
  <2>2. CASE Resume
    BY <1>7, <2>2 DEF Resume, Pauses
  <2>3. CASE ReadShard \/ ReadShardFails \/ RemoveShardOverdue \/ RemoveShardFails
             \/ PauseInterrupted
    BY <1>3, <2>3 DEF ReadShard, ReadShardFails, RemoveShardOverdue, RemoveShardFails,
       PauseInterrupted, Unanswered
  <2>4. CASE RemoveShard
    BY <1>3, <1>7, <2>4 DEF RemoveShard
  <2> QED BY <1>9, <2>1, <2>2, <2>3, <2>4 DEF ShardOps
<1>10. CASE ZoneOps
  BY <1>3, <1>6, <1>10 DEF ZoneOps, AddZone, AddZoneFails, ReadZone, ReadZoneMistaken,
     ReadZoneFails, RemoveZone, RemoveZoneFails, Unanswered
<1>11. CASE RangeOps
  BY <1>3, <1>6, <1>11 DEF RangeOps, AddRange, AddRangeFails, ReadRange, ReadRangeFails,
     RemoveRange, RemoveRangeFails, Unanswered
<1>12. CASE Surroundings
  <2>1. CASE Expire
    BY <1>1, <2>1 DEF Expire, ControlTyped
  <2> QED BY <1>3, <1>4, <1>12, <2>1 DEF Surroundings, Killed, Drained, Discover, Undiscover,
     Outsider, ClusterOnly
<1>13. CASE UNCHANGED vars
  BY <1>4, <1>13 DEF vars
<1> QED BY <1>8, <1>9, <1>10, <1>11, <1>12, <1>13 DEF Next, Provider

LEMMA FaultsStep == ASSUME TypeOK, [Next]_vars PROVE FaultsTyped'
<1>1. UNCHANGED faults \/ Charge
  <2>1. CASE Terraform
    BY <2>1 DEF Terraform, BeginApply, Refresh, Import, Reconsider
  <2>2. CASE ShardOps
    BY <2>2 DEF ShardOps, AddShard, AddShardUndiscovered, AddShardFails, Resume, ReadShard,
       ReadShardFails, RemoveShardOverdue, RemoveShard, RemoveShardFails, PauseInterrupted,
       Unanswered
  <2>3. CASE ZoneOps
    BY <2>3 DEF ZoneOps, AddZone, AddZoneFails, ReadZone, ReadZoneMistaken, ReadZoneFails,
       RemoveZone, RemoveZoneFails, Unanswered
  <2>4. CASE RangeOps
    BY <2>4 DEF RangeOps, AddRange, AddRangeFails, ReadRange, ReadRangeFails, RemoveRange,
       RemoveRangeFails, Unanswered
  <2>5. CASE Surroundings
    BY <2>5 DEF Surroundings, Killed, Expire, Drained, Discover, Undiscover, Outsider
  <2>6. CASE UNCHANGED vars
    BY <2>6 DEF vars
  <2> QED BY <2>1, <2>2, <2>3, <2>4, <2>5, <2>6 DEF Next, Provider
<1>2. faults \in 0 .. MaxFaults
  BY DEF TypeOK
<1> QED BY <1>1, <1>2, FaultsAssumption DEF FaultsTyped, Charge

LEMMA TypedInit == Init => TypeOK
<1> SUFFICES ASSUME Init PROVE TypeOK
  OBVIOUS
<1>1. ClusterTyped
  BY DEF Init, ClusterTyped
<1>2. StateTyped
  BY DEF Init, StateTyped, Known
<1>3. ControlTyped
  <2>1. <<>> \in Seq(Operations)
    OBVIOUS
  <2> QED BY <2>1 DEF Init, ControlTyped, Places
<1>4. FaultsTyped
  BY FaultsAssumption DEF Init, FaultsTyped
<1> QED BY <1>1, <1>2, <1>3, <1>4, Parts

\* The type invariant is inductive: a draining shard is the only one that can be
\* empty, a tag belongs to a listed shard, and only a read can be the end of a
\* Create.
THEOREM ClusterShardsTyped == Spec => []TypeOK
<1>1. TypeOK /\ [Next]_vars => TypeOK'
  BY ClusterStep, StateStep, ControlStep, FaultsStep, PartsNext
<1> QED BY <1>1, TypedInit, PTL DEF Spec

---------------------------------------------------------------------------
(* What the steps rest on *)

\* A query that fails raises the count of faults, and a range is in one of
\* three places.
Counted == faults \in Nat
Placed  == assigned \in {"none", "zone", "other"}

(* What a step may do to state, one part for each resource *)

ShardFollows ==
    /\ shard # "none" /\ shard' = "none" => listed' = "absent"
    /\ shard # "tracked" /\ shard' = "tracked" => listed' # "absent"
ZoneFollows ==
    /\ zone # "none" /\ zone' = "none" => ~tag' \/ faults' # faults
    /\ zone # "tracked" /\ zone' = "tracked" => tag'
RangeFollows ==
    /\ range # "none" /\ range' = "none" => assigned' = "none"
    /\ range # "tracked" /\ range' = "tracked" => assigned' = "zone"
    /\ range # "foreign" /\ range' = "foreign" => assigned' = "other"
Follows == ShardFollows /\ ZoneFollows /\ RangeFollows

LEMMA Unchanged == ASSUME UNCHANGED state PROVE Follows
BY DEF state, Follows, ShardFollows, ZoneFollows, RangeFollows

\* Most steps leave state alone: whatever they do to the cluster, nothing is
\* learned or forgotten.
LEMMA SilentSteps ==
    ASSUME \/ BeginApply \/ Refresh \/ Reconsider
           \/ AddShard \/ AddShardUndiscovered \/ AddShardFails \/ Resume
           \/ RemoveShardOverdue \/ RemoveShardFails \/ PauseInterrupted
           \/ AddZone \/ AddZoneFails \/ RemoveZoneFails
           \/ AddRange \/ AddRangeFails \/ RemoveRangeFails
           \/ Surroundings
    PROVE  UNCHANGED state
<1>1. CASE BeginApply \/ Refresh \/ Reconsider
  BY <1>1 DEF BeginApply, Refresh, Reconsider
<1>2. CASE AddShard \/ AddShardUndiscovered \/ AddShardFails \/ Resume
  BY <1>2 DEF AddShard, AddShardUndiscovered, AddShardFails, Resume
<1>3. CASE RemoveShardOverdue \/ RemoveShardFails \/ PauseInterrupted
  BY <1>3 DEF RemoveShardOverdue, RemoveShardFails, PauseInterrupted
<1>4. CASE AddZone \/ AddZoneFails \/ RemoveZoneFails \/ AddRange \/ AddRangeFails
           \/ RemoveRangeFails
  BY <1>4 DEF AddZone, AddZoneFails, RemoveZoneFails, AddRange, AddRangeFails, RemoveRangeFails
<1>5. CASE Surroundings
  BY <1>5 DEF Surroundings, Killed, Expire, Drained, Discover, Undiscover, Outsider, ClusterOnly
<1> QED BY <1>1, <1>2, <1>3, <1>4, <1>5

---------------------------------------------------------------------------
(* The steps that learn something *)

\* A shard enters state with whatever else mongos knows of it.
LEMMA ImportStep == ASSUME Placed, Import PROVE Follows
<1>1. listed # "absent" /\ shard' = "tracked" /\ UNCHANGED <<listed, tag, assigned>>
  BY DEF Import, cluster
<1>2. zone' = IF tag THEN "tracked" ELSE zone
  BY DEF Import
<1>3. range' = IF assigned = "none" THEN range ELSE RangeSeen
  BY DEF Import
<1>4. ShardFollows
  BY <1>1 DEF ShardFollows
<1>5. ZoneFollows
  BY <1>1, <1>2 DEF ZoneFollows
<1>6. RangeFollows
  BY <1>1, <1>3 DEF RangeFollows, RangeSeen, Placed
<1> QED BY <1>4, <1>5, <1>6 DEF Follows

LEMMA ReadShardStep == ASSUME ReadShard \/ ReadShardFails PROVE Follows
BY DEF ReadShard, ReadShardFails, cluster, Follows, ShardFollows, ZoneFollows, RangeFollows

\* Only the call that is answered with the end of the removal clears the ID.
LEMMA RemoveShardStep == ASSUME RemoveShard PROVE Follows
<1>1. UNCHANGED <<zone, range>>
  BY DEF RemoveShard
<1>2. UNCHANGED shard \/ (shard' = "none" /\ listed' = "absent")
  BY DEF RemoveShard
<1> QED BY <1>1, <1>2 DEF Follows, ShardFollows, ZoneFollows, RangeFollows

\* The query that fails and is taken for a missing shard counts as a fault.
LEMMA ReadZoneStep ==
    ASSUME Counted, ReadZone \/ ReadZoneMistaken \/ ReadZoneFails PROVE Follows
<1>1. UNCHANGED <<shard, range, tag>>
  BY DEF ReadZone, ReadZoneMistaken, ReadZoneFails, cluster
<1>2. ZoneFollows
  BY <1>1 DEF ReadZone, ReadZoneMistaken, ReadZoneFails, Counted, Charge, ZoneFollows
<1> QED BY <1>1, <1>2 DEF Follows, ShardFollows, RangeFollows

LEMMA RemoveZoneStep == ASSUME RemoveZone PROVE Follows
<1>1. UNCHANGED <<shard, range>>
  BY DEF RemoveZone
<1>2. UNCHANGED zone \/ (zone' = "none" /\ tag' = FALSE)
  BY DEF RemoveZone, Tagged
<1> QED BY <1>1, <1>2 DEF Follows, ShardFollows, ZoneFollows, RangeFollows

LEMMA RangeStep == ASSUME Placed, ReadRange \/ ReadRangeFails \/ RemoveRange PROVE Follows
<1>1. UNCHANGED <<shard, zone>>
  BY DEF ReadRange, ReadRangeFails, RemoveRange
<1>2. CASE ReadRange \/ ReadRangeFails
  <2>1. UNCHANGED assigned
    BY <1>2 DEF ReadRange, ReadRangeFails, cluster
  <2>2. RangeFollows
    BY <1>2, <2>1 DEF ReadRange, ReadRangeFails, RangeSeen, RangeFollows, Placed
  <2> QED BY <1>1, <2>2 DEF Follows, ShardFollows, ZoneFollows
<1>3. CASE RemoveRange
  BY <1>1, <1>3 DEF RemoveRange, Assigned, Follows, ShardFollows, ZoneFollows, RangeFollows
<1> QED BY <1>2, <1>3

---------------------------------------------------------------------------
LEMMA EveryStepFollows == ASSUME Counted, Placed, [Next]_vars PROVE Follows
<1>1. CASE UNCHANGED vars
  BY <1>1, Unchanged DEF vars
<1>2. CASE Terraform
  BY <1>2, SilentSteps, Unchanged, ImportStep DEF Terraform
<1>3. CASE ShardOps
  BY <1>3, SilentSteps, Unchanged, ReadShardStep, RemoveShardStep DEF ShardOps
<1>4. CASE ZoneOps
  BY <1>4, SilentSteps, Unchanged, ReadZoneStep, RemoveZoneStep DEF ZoneOps
<1>5. CASE RangeOps
  BY <1>5, SilentSteps, Unchanged, RangeStep DEF RangeOps
<1>6. CASE Surroundings
  BY <1>6, SilentSteps, Unchanged
<1> QED BY <1>1, <1>2, <1>3, <1>4, <1>5, <1>6 DEF Next, Provider

\* Terraform forgets a shard, a zone or a range only in the step that learns
\* that it is not there, and vouches for one only when it has seen it: for every
\* order of operations, and any number of faults.
THEOREM NothingForgottenEarly == Spec => StateFollowsCluster
<1>1. TypeOK => Counted /\ Placed
  BY FaultsAssumption DEF TypeOK, Counted, Placed
<1>2. Counted /\ Placed /\ [Next]_vars =>
          (/\ shard # "none" /\ shard' = "none" => listed' = "absent"
           /\ shard # "tracked" /\ shard' = "tracked" => listed' # "absent"
           /\ zone # "none" /\ zone' = "none" => ~tag' \/ faults' # faults
           /\ zone # "tracked" /\ zone' = "tracked" => tag'
           /\ range # "none" /\ range' = "none" => assigned' = "none"
           /\ range # "tracked" /\ range' = "tracked" => assigned' = "zone"
           /\ range # "foreign" /\ range' = "foreign" => assigned' = "other")
  BY EveryStepFollows DEF Follows, ShardFollows, ZoneFollows, RangeFollows
<1> QED BY <1>1, <1>2, ClusterShardsTyped, PTL DEF Spec, StateFollowsCluster
=============================================================================
