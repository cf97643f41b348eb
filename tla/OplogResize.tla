---------------------------- MODULE OplogResize ----------------------------
(***************************************************************************)
(* The oplog size of a replica set under mongodb_shard_config: the fan-out *)
(* of replSetResizeOplog at the end of an apply, the concurrent read-back, *)
(* and the one number Terraform state keeps for all members.  Source:      *)
(* applyOplogConfig and readOplogConfig (resource_shard_config.go),        *)
(* ResizeOplogAcrossMembers and OplogSizeAcrossMembers                     *)
(* (replica_set_types.go).                                                 *)
(*                                                                         *)
(* What comes before the fan-out in an apply is the subject of             *)
(* ShardConfigApply and is one step here, which succeeds or fails.  The    *)
(* oplogs belong to the members: a resize that outlives its deadline may   *)
(* still be carried out at any later time (late, one per member).  A fault *)
(* (a failed call, a deadline, a node that goes down, a step-down) costs   *)
(* one of MaxFaults.  F_Name is a faulty variant of Name.                  *)
(***************************************************************************)
EXTENDS Integers, FiniteSets, Sequences, SequencesExt

CONSTANTS
  MemberList,   \* the hosts of rs.conf().members, in order
  Arbiters,     \* those that carry no oplog
  Sizes,        \* the sizes in use, in MB
  Configs,      \* what the configuration may ask for: sizes, or Unset
  MaxFaults

\* What state holds when the attribute has no value, and when the members
\* disagree (OplogSizeMismatch).
Unset == 0
Mismatch == -1

\* The data-bearing members.
Bearing == ToSet(MemberList) \ Arbiters

ASSUME MembersAssumption ==
    /\ MemberList \in Seq(ToSet(MemberList)) /\ IsInjective(MemberList)
    /\ IsFiniteSet(Bearing) /\ Bearing # {}
ASSUME SizesAssumption == Sizes \subseteq Nat \ {0} /\ Configs \subseteq Sizes \cup {Unset}
ASSUME FaultsAssumption == MaxFaults \in Nat

VARIABLES
  oplog,      \* the size of each member's oplog
  node,       \* the state of each member
  late,       \* a resize its caller gave up and that may still happen, or Unset
  data,       \* the resource in state: there at all, tainted, oplog_size_mb
  pc,
  config,     \* what the configuration of this apply asks for
  creating,   \* this apply creates the resource (IsNewResource)
  changed,    \* the plan changes oplog_size_mb (HasChange)
  primary,    \* the primary replSetGetStatus named, as a set
  resizable,  \* the hosts it named PRIMARY or SECONDARY; all if it failed
  todo,       \* the hosts still to visit
  resized,    \* the hosts resized so far
  attempted,  \* the fan-out ran
  readings,   \* what the read-back got of each member
  result,
  landed,     \* history: hosts a late resize landed on since the operation began
  faults

server == <<oplog, node, late>>
fanout == <<primary, resizable, todo, resized, attempted>>
vars   == <<server, data, pc, config, creating, changed, fanout, readings, result, landed, faults>>

NodeStates == {"down", "syncing", "secondary", "primary"}

\* What the read of one member is, besides a size.
Unread == 0
Failed == -1
NoReadings == [h \in Bearing |-> Unread]

TypeOK ==
    /\ oplog \in [Bearing -> Sizes] /\ node \in [Bearing -> NodeStates]
    /\ late \in [Bearing -> Sizes \cup {Unset}]
    /\ data \in [tracked : BOOLEAN, tainted : BOOLEAN, size : Sizes \cup {Unset, Mismatch}]
    /\ pc \in {"idle", "members", "status", "resize", "read"}
    /\ config \in Sizes \cup {Unset} /\ creating \in BOOLEAN /\ changed \in BOOLEAN
    /\ primary \subseteq Bearing /\ resizable \subseteq Bearing
    /\ todo \in Seq(Bearing) /\ resized \subseteq Bearing /\ attempted \in BOOLEAN
    /\ pc = "resize" => data.size \in Sizes
    /\ readings \in [Bearing -> Sizes \cup {Unread, Failed}]
    /\ result \in {"none", "ok", "failed", "refreshed"} /\ landed \subseteq Bearing
    /\ faults \in 0 .. MaxFaults

---------------------------------------------------------------------------
(* The pure parts *)

\* The hosts of a set, in configuration order.
InOrder(hosts) ==
    LET upTo[n \in 0 .. Len(MemberList)] ==
            IF n = 0 THEN <<>>
            ELSE IF MemberList[n] \in hosts THEN Append(upTo[n - 1], MemberList[n]) ELSE upTo[n - 1]
    IN  upTo[Len(MemberList)]

\* Secondaries first and the primary last; configuration order when no
\* primary is known.  OPLOG-010, OPLOG-011
F_OplogMemberHosts(prim) == InOrder(Bearing)
OplogMemberHosts(prim) == InOrder(Bearing \ prim) \o InOrder(Bearing \cap prim)

\* The size all members that could be read have; kept if none could be.
\* OPLOG-008, OPLOG-013
F_CommonSize(sizes, kept) ==
    IF sizes = {} THEN kept ELSE CHOOSE s \in sizes : \A t \in sizes : s >= t
CommonSize(sizes, kept) ==
    IF sizes = {} THEN kept
    ELSE IF Cardinality(sizes) = 1 THEN CHOOSE s \in sizes : TRUE
    ELSE Mismatch

---------------------------------------------------------------------------
\* The resource is not in state, or was imported.
Init ==
    /\ oplog \in [Bearing -> Sizes]
    /\ node \in {n \in [Bearing -> {"syncing", "secondary", "primary"}] :
                    Cardinality({h \in Bearing : n[h] = "primary"}) = 1}
    /\ late = [h \in Bearing |-> Unset]
    /\ data \in {[tracked |-> FALSE, tainted |-> FALSE, size |-> Unset],
                 [tracked |-> TRUE, tainted |-> FALSE,
                  size |-> CommonSize({oplog[h] : h \in Bearing}, Unset)]}
    /\ pc = "idle" /\ config = Unset /\ creating = FALSE /\ changed = FALSE
    /\ primary = {} /\ resizable = {} /\ todo = <<>> /\ resized = {} /\ attempted = FALSE
    /\ readings = NoReadings /\ result = "none" /\ landed = {} /\ faults = 0

Charge == faults < MaxFaults /\ faults' = faults + 1

\* A tainted resource is replaced; its destroy does nothing on the server.
\* The attribute is Computed: without a configured value the plan keeps what
\* state holds, or nothing on create.
BeginApply ==
    /\ pc = "idle"
    /\ \E c \in Configs :
          LET new     == ~data.tracked \/ data.tainted
              planned == IF c # Unset THEN c ELSE IF new THEN Unset ELSE data.size
          IN  /\ config' = c /\ creating' = new
              /\ changed' = (planned # data.size)
              /\ data' = [tracked |-> ~new, tainted |-> FALSE, size |-> planned]
    /\ pc' = "members"
    /\ primary' = {} /\ resizable' = {} /\ todo' = <<>> /\ resized' = {} /\ attempted' = FALSE
    /\ readings' = NoReadings /\ result' = "none" /\ landed' = {}
    /\ UNCHANGED <<server, faults>>

\* An error after the planned values are in state: the SDK keeps them, and
\* taints a resource that was being created.
ApplyFails ==
    /\ pc' = "idle" /\ result' = "failed"
    /\ data' = [data EXCEPT !.tracked = TRUE, !.tainted = creating]

\* Settings and members are done; the ID is set.
MembersDone ==
    /\ pc = "members" /\ pc' = "status"
    /\ data' = [data EXCEPT !.tracked = TRUE]
    /\ UNCHANGED <<server, config, creating, changed, fanout, readings, result, landed, faults>>

\* An error before the settings reconfig (a create leaves no trace in state),
\* or in the member phase.  The oplog is not touched.
MembersFail ==
    /\ pc = "members" /\ Charge
    /\ \/ ApplyFails
       \/ /\ pc' = "idle" /\ result' = "failed"
          /\ data' = IF creating THEN [data EXCEPT !.size = Unset] ELSE data
    /\ UNCHANGED <<server, config, creating, changed, fanout, readings, landed>>

---------------------------------------------------------------------------
(* The fan-out *)

\* GetOk, then IsNewResource and HasChange.  OPLOG-004, OPLOG-014
F_WantsResize == data.size # Unset
WantsResize == data.size # Unset /\ (creating \/ changed)

SkipResize ==
    /\ pc = "status" /\ ~WantsResize /\ pc' = "read"
    /\ UNCHANGED <<server, data, config, creating, changed, fanout, readings, result, landed, faults>>

\* replSetGetStatus is best effort.  OPLOG-010, OPLOG-016
ReadStatus ==
    /\ pc = "status" /\ WantsResize /\ pc' = "resize"
    /\ \/ /\ primary' = {h \in Bearing : node[h] = "primary"}
          /\ resizable' = {h \in Bearing : node[h] \in {"primary", "secondary"}}
          /\ UNCHANGED faults
       \/ primary' = {} /\ resizable' = Bearing /\ Charge
    /\ todo' = OplogMemberHosts(primary')
    /\ attempted' = TRUE
    /\ UNCHANGED <<server, data, config, creating, changed, resized, readings, result, landed>>

SkipMember ==
    /\ pc = "resize" /\ todo # <<>> /\ Head(todo) \notin resizable
    /\ todo' = Tail(todo)
    /\ UNCHANGED <<server, data, pc, config, creating, changed, primary, resizable, resized,
                   attempted, readings, result, landed, faults>>

ResizeMember ==
    /\ pc = "resize" /\ todo # <<>> /\ Head(todo) \in resizable /\ node[Head(todo)] # "down"
    /\ oplog' = [oplog EXCEPT ![Head(todo)] = data.size]
    /\ resized' = resized \cup {Head(todo)}
    /\ todo' = Tail(todo)
    /\ UNCHANGED <<node, late, data, pc, config, creating, changed, primary, resizable,
                   attempted, readings, result, landed, faults>>

\* The first member that cannot be resized ends the apply, before the
\* read-back.  OPLOG-012

ResizeMemberFails ==
    /\ pc = "resize" /\ todo # <<>> /\ Head(todo) \in resizable
    /\ IF node[Head(todo)] \in {"down", "syncing"} THEN UNCHANGED faults ELSE Charge
    /\ ApplyFails
    /\ UNCHANGED <<server, config, creating, changed, fanout, readings, landed>>

\* The member takes the command and does not answer in time (a locked or
\* stalled storage); it may still carry it out.
ResizeMemberTimesOut ==
    /\ pc = "resize" /\ todo # <<>> /\ Head(todo) \in resizable
    /\ node[Head(todo)] # "down" /\ late[Head(todo)] = Unset /\ Charge
    /\ late' = [late EXCEPT ![Head(todo)] = data.size]
    /\ ApplyFails
    /\ UNCHANGED <<oplog, node, config, creating, changed, fanout, readings, landed>>

\* A fan-out that skipped every member is an error.  OPLOG-019

FanOutEnds ==
    /\ pc = "resize" /\ todo = <<>>
    /\ IF resized = {} THEN ApplyFails ELSE pc' = "read" /\ UNCHANGED <<data, result>>
    /\ UNCHANGED <<server, config, creating, changed, fanout, readings, landed, faults>>

---------------------------------------------------------------------------
(* The read-back, at the end of an apply or of a refresh *)

Refresh ==
    /\ pc = "idle" /\ data.tracked
    /\ pc' = "read" /\ result' = "refreshed"
    /\ attempted' = FALSE /\ resized' = {} /\ readings' = NoReadings /\ landed' = {}
    /\ UNCHANGED <<server, data, config, creating, changed, primary, resizable, todo, faults>>

\* The members are read concurrently.  OPLOG-018
ReadMember(h) ==
    /\ pc = "read" /\ readings[h] = Unread /\ node[h] # "down"
    /\ readings' = [readings EXCEPT ![h] = oplog[h]]
    /\ UNCHANGED <<server, data, pc, config, creating, changed, fanout, result, landed, faults>>

ReadMemberFails(h) ==
    /\ pc = "read" /\ readings[h] = Unread
    /\ IF node[h] \in {"down", "syncing"} THEN UNCHANGED faults ELSE Charge
    /\ readings' = [readings EXCEPT ![h] = Failed]
    /\ UNCHANGED <<server, data, pc, config, creating, changed, fanout, result, landed>>

\* The operation is interrupted: every read still running fails.
ReadsCut ==
    /\ pc = "read" /\ Charge
    /\ \E h \in Bearing : readings[h] = Unread
    /\ readings' = [h \in Bearing |-> IF readings[h] = Unread THEN Failed ELSE readings[h]]
    /\ UNCHANGED <<server, data, pc, config, creating, changed, fanout, result, landed>>

\* When nothing could be read after a fan-out, state says so.  OPLOG-020
F_Kept == data.size
Kept == IF attempted THEN Mismatch ELSE data.size

FinishRead ==
    /\ pc = "read" /\ \A h \in Bearing : readings[h] # Unread
    /\ data' = [data EXCEPT !.size =
                    CommonSize({readings[h] : h \in Bearing} \ {Failed}, Kept)]
    /\ pc' = "idle" /\ result' = IF result = "refreshed" THEN "refreshed" ELSE "ok"
    /\ UNCHANGED <<server, config, creating, changed, fanout, readings, landed, faults>>

---------------------------------------------------------------------------
(* The members (external) *)

MembersOnly == UNCHANGED <<data, pc, config, creating, changed, fanout, readings, result>>

Land(h) ==
    /\ late[h] # Unset
    /\ oplog' = [oplog EXCEPT ![h] = late[h]] /\ late' = [late EXCEPT ![h] = Unset]
    /\ landed' = landed \cup {h}
    /\ MembersOnly /\ UNCHANGED <<node, faults>>

\* A node starts, catches up, or wins an election.
NodeRises(h) ==
    /\ \/ node[h] = "down" /\ node' = [node EXCEPT ![h] = "syncing"]
       \/ node[h] = "syncing" /\ node' = [node EXCEPT ![h] = "secondary"]
       \/ /\ node[h] = "secondary" /\ \A g \in Bearing : node[g] # "primary"
          /\ node' = [node EXCEPT ![h] = "primary"]
    /\ MembersOnly /\ UNCHANGED <<oplog, late, landed, faults>>

\* A node steps down, or goes down.
NodeFalls(h) ==
    /\ node[h] # "down" /\ Charge
    /\ \/ node[h] = "primary" /\ node' = [node EXCEPT ![h] = "secondary"]
       \/ node' = [node EXCEPT ![h] = "down"]
    /\ MembersOnly /\ UNCHANGED <<oplog, late, landed>>

---------------------------------------------------------------------------
FanOut ==
    \/ SkipResize \/ ReadStatus \/ SkipMember \/ ResizeMember \/ ResizeMemberFails
    \/ ResizeMemberTimesOut \/ FanOutEnds

ReadBack == (\E h \in Bearing : ReadMember(h) \/ ReadMemberFails(h)) \/ ReadsCut \/ FinishRead

Provider == MembersDone \/ MembersFail \/ FanOut \/ ReadBack

Members == \E h \in Bearing : Land(h) \/ NodeRises(h) \/ NodeFalls(h)

Next == BeginApply \/ Refresh \/ Provider \/ Members

Spec == Init /\ [][Next]_vars

\* The provider runs; nodes recover; the user refreshes, and applies again
\* and again (each plan refreshes first, hence the strong fairness).
HelpfulSpec ==
    /\ Spec /\ WF_vars(Provider) /\ WF_vars(Refresh) /\ SF_vars(BeginApply)
    /\ \A h \in Bearing : WF_vars(NodeRises(h)) /\ WF_vars(Land(h))

---------------------------------------------------------------------------
(* Properties *)

\* When the primary that replSetGetStatus named is resized, every other
\* member that could be resized has been, so a failing secondary leaves the
\* primary alone.  (OPLOG-010, OPLOG-012)
PrimaryLast ==
    [][\A h \in resized' \ resized : h \in primary => resizable \subseteq resized']_vars

\* An apply that resizes and succeeds has resized at least one member, and
\* every member seen PRIMARY or SECONDARY has the configured size, unless a
\* late resize of an earlier apply has landed on it.  (OPLOG-009, OPLOG-019)
SuccessMeansResized ==
    pc = "idle" /\ result = "ok" /\ attempted =>
        resized # {} /\ \A h \in resizable \ landed : oplog[h] = config

\* A fan-out reaches everybody, and the primary last.
FanOutIsOrderly == PrimaryLast /\ []SuccessMeansResized

\* Nothing is resized without a configured size, not even while state holds
\* the mismatch of an unmanaged set, and nothing to any other size than the
\* configured one.  (OPLOG-004, OPLOG-014, OPLOG-021)
UnmanagedUntouched ==
    [][\A h \in resized' \ resized : config # Unset /\ oplog'[h] = config]_vars

\* After a read-back, a size in state is the size of every member that was
\* read; after a fan-out it is there only if a member was read with it.
\* Whoever could not be read is not vouched for.  (OPLOG-013, OPLOG-020)
StateIsConfirmed ==
    pc = "idle" /\ result \in {"ok", "refreshed"} /\ data.size \in Sizes =>
        /\ \A h \in Bearing \ landed : readings[h] \in Sizes => oplog[h] = data.size
        /\ attempted => \E h \in Bearing : readings[h] = data.size

\* Once the configuration asks for one size and no longer changes, refreshes
\* and applies bring every member to it and state with them, after the faults
\* are over and the late resizes have landed.  (OPLOG-012, OPLOG-016)
Converges ==
    \A c \in Sizes :
        <>[](config = c) => <>[](data.size = c /\ \A h \in Bearing : oplog[h] = c)
=============================================================================
