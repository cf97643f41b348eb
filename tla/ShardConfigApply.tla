------------------------- MODULE ShardConfigApply -------------------------
(***************************************************************************)
(* One Terraform resource mongodb_shard_config applied to a replica set    *)
(* that is initialized: updateWithClient (resource_shard_config.go) with   *)
(* the member phase of shard_members.go and the reconfig retry loop of     *)
(* shard_init.go, against a server whose nodes go up and down, whose       *)
(* calls fail, and which reconfigures itself (the version moves).          *)
(*                                                                         *)
(* An apply is sequential, so its place in the code is the variable pc:    *)
(*                                                                         *)
(*   idle -> read -> [preflight] -> send settings                          *)
(*        -> { wait -> [promote -> send] }          for each promotion     *)
(*        -> { add -> send -> wait -> [promote -> send] }  for each add    *)
(*        -> [remove -> send]                       rollback of an add     *)
(*        -> final -> idle                                                 *)
(*                                                                         *)
(* A failed call, an interruption, an automatic reconfig or a node that    *)
(* goes down costs one of MaxFaults; an expired wait costs one of          *)
(* MaxTimeouts.  The bounds only make the model finite.                    *)
(* As in ReplicaSetConfig, F_Name is a faulty variant of Name.             *)
(***************************************************************************)
EXTENDS ReplicaSetConfig

CONSTANTS
  BlockLists,      \* the member block lists a plan may carry
  InitialConfigs,  \* the configurations the set may start with
  HostOverride,    \* host_override is set: candidates are not probed
  OneVoterChange,  \* the server is 4.4+ and enforces one voter per reconfig
  MaxApplies, MaxFaults, MaxTimeouts

ASSUME BlocksAssumption == \A bs \in BlockLists : bs \in Seq(Block)
ASSUME ConfigsAssumption ==
    /\ InitialConfigs \subseteq Config
    /\ \A c \in InitialConfigs : IsFiniteSet(c.members) /\ WellFormedMembers(c.members)
ASSUME FlagsAssumption == HostOverride \in BOOLEAN /\ OneVoterChange \in BOOLEAN
ASSUME BoundsAssumption == MaxApplies \in Nat /\ MaxFaults \in Nat /\ MaxTimeouts \in Nat

VARIABLES
  installed,    \* the configuration the server holds
  node,         \* what the primary reports of each host
  data,         \* the resource in Terraform state: in state at all, settings, member rows
  pc,           \* where the apply is
  blocks,       \* the blocks of this apply, extracted
  op,           \* what the configuration being sent is for
  cfg,          \* the configuration being sent
  promotions,   \* indices of blocks still to promote
  adds,         \* indices of blocks still to add
  cur,          \* index of the block being settled
  wait,         \* Observed and EverReachable of the running wait
  pending,      \* indices of blocks left for the next apply
  failed,       \* the member phase ended with an error
  interrupted,  \* the apply's context is done
  detached,     \* the rollback runs on a context of its own
  result,       \* how the last apply ended
  added,        \* history: hosts this apply put in the set
  seen,         \* history: hosts this apply saw SECONDARY (or ARBITER, PRIMARY)
  inspected,    \* history: hosts whose isMaster this apply accepted
  applies, faults, timeouts

server  == <<installed, node>>
work    == <<op, cfg, promotions, adds, cur, wait, pending, failed, detached>>
history == <<added, seen, inspected>>
bounds  == <<applies, faults, timeouts>>
vars    == <<server, data, pc, blocks, work, interrupted, result, history, bounds>>

Locations == {"idle", "read", "preflight", "send", "wait", "promote", "add", "remove", "final"}
Results == {"none", "aborted", "ok", "failed", "unread"}
NoWait == [observed |-> FALSE, everReachable |-> FALSE]

TypeOK ==
    /\ installed \in Config
    /\ node \in [Hosts -> NodeStates]
    /\ data \in [tracked : BOOLEAN, settings : SettingsValues, members : SUBSET Block]
    /\ pc \in Locations
    /\ blocks \in Seq(Block)
    /\ op \in {"settings", "promote", "add", "remove"}
    /\ cfg \in Config
    /\ promotions \subseteq DOMAIN blocks
    /\ adds \subseteq DOMAIN blocks
    /\ cur \in Nat
    /\ pc \in {"wait", "promote", "add", "remove"} => cur \in DOMAIN blocks
    /\ wait \in [observed : BOOLEAN, everReachable : BOOLEAN]
    /\ pending \subseteq DOMAIN blocks
    /\ failed \in BOOLEAN /\ interrupted \in BOOLEAN /\ detached \in BOOLEAN
    /\ result \in Results
    /\ added \subseteq Hosts /\ seen \subseteq Hosts /\ inspected \subseteq Hosts
    /\ applies \in Nat /\ faults \in Nat /\ timeouts \in Nat

\* Voters have synced; one electable voter is the primary, which the provider
\* talks to (losing it makes calls fail, and that is a fault).
InitialNodes(members) ==
    {n \in [Hosts -> NodeStates] :
        /\ Cardinality({h \in Hosts : n[h] = "primary"}) = 1
        /\ \A m \in members :
              IF m.arbiter THEN n[m.host] = "arbiter"
              ELSE IF m.votes = 1 THEN n[m.host] \in {"primary", "secondary"}
              ELSE n[m.host] \in {"down", "syncing", "secondary"}
        /\ \A h \in Hosts \ HostsOf(members) : n[h] \in {"down", "syncing"}}

Init ==
    /\ installed \in InitialConfigs
    /\ node \in InitialNodes(installed.members)
    /\ data = [tracked |-> FALSE, settings |-> installed.settings, members |-> {}]
    /\ pc = "idle" /\ blocks = <<>> /\ op = "settings" /\ cfg = installed
    /\ promotions = {} /\ adds = {} /\ cur = 0 /\ wait = NoWait /\ pending = {}
    /\ failed = FALSE /\ interrupted = FALSE /\ detached = FALSE /\ result = "none"
    /\ added = {} /\ seen = {} /\ inspected = {}
    /\ applies = 0 /\ faults = 0 /\ timeouts = 0

---------------------------------------------------------------------------
(* Calls, failures, and the ways an apply goes on *)

\* The block being settled, and whether this apply adds it (addedNow).
CurBlock == blocks[cur]
F_AddedNow == TRUE
AddedNow == cur \in adds

\* Every call on a context that is done fails at once.
Dead == interrupted /\ ~detached

Charge == faults < MaxFaults /\ faults' = faults + 1

\* A call fails because the context is done, or because the server, the
\* network or a deadline made it fail.
CallFails == IF Dead THEN UNCHANGED faults ELSE Charge

\* An error before the settings reconfig went through.  The SDK keeps the
\* planned values in state if the resource was there before.
Abort ==
    /\ pc' = "idle" /\ result' = "aborted"
    /\ UNCHANGED <<promotions, adds, cur, wait, failed, data>>

\* A hard error of the member phase; the final read still follows.
MemberError ==
    /\ pc' = "final" /\ failed' = TRUE
    /\ UNCHANGED <<promotions, adds, cur, wait, result, data>>

\* ReconcileMembers: promotions first, then adds, each in block order.
NextMember(ps, as) ==
    /\ promotions' = ps /\ adds' = as /\ wait' = NoWait
    /\ IF ps # {} THEN pc' = "wait" /\ cur' = Min(ps)
       ELSE IF as # {} THEN pc' = "add" /\ cur' = Min(as)
       ELSE pc' = "final" /\ UNCHANGED cur
    /\ UNCHANGED <<failed, result>>

F_MemberSettled == NextMember(promotions, adds) /\ UNCHANGED data
MemberSettled == NextMember(promotions \ {cur}, adds \ {cur}) /\ UNCHANGED data

---------------------------------------------------------------------------
(* The settings reconfig *)

\* Terraform runs Update (or Create) when the plan shows a difference.
PlanHasDiff(bs, s) ==
    ~data.tracked \/ data.settings # s \/ data.members # Rows(bs)

BeginApply ==
    /\ pc = "idle" /\ applies < MaxApplies
    /\ \E list \in BlockLists, s \in SettingsValues :
          LET bs == ExtractMemberOverrides(list) IN
          /\ PlanHasDiff(bs, s)
          /\ blocks' = bs
          /\ data' = [data EXCEPT !.settings = s, !.members = Rows(bs)]
    /\ pc' = "read" /\ applies' = applies + 1
    /\ op' = "settings" /\ promotions' = {} /\ adds' = {} /\ cur' = 0 /\ wait' = NoWait
    /\ pending' = {} /\ failed' = FALSE /\ interrupted' = FALSE /\ detached' = FALSE
    /\ result' = "none" /\ added' = {} /\ seen' = {} /\ inspected' = {}
    /\ UNCHANGED <<server, cfg, faults, timeouts>>

\* Terraform's refresh: Read writes back what the server holds.
Refresh ==
    /\ pc = "idle" /\ data.tracked
    /\ data' = [data EXCEPT
          !.settings = installed.settings,
          !.members = MembersToState(installed.members, HostsOf(data.members))]
    /\ UNCHANGED <<server, pc, blocks, work, interrupted, result, history, bounds>>

\* An import, and the read that follows it: every live member becomes a managed
\* one.  SHARD-030
Import ==
    /\ pc = "idle" /\ ~data.tracked
    /\ data' = [tracked  |-> TRUE, settings |-> installed.settings,
                members  |-> MembersToState(installed.members, HostsOf(installed.members))]
    /\ UNCHANGED <<server, pc, blocks, work, interrupted, result, history, bounds>>

ReadConfig ==
    /\ pc = "read" /\ ~interrupted /\ ValidateMemberOverrides(blocks)
    /\ op' = "settings"
    /\ cfg' = [version  |-> installed.version + 1,
               settings |-> data.settings,
               members  |-> MergeMembers(installed.members, blocks)]
    /\ promotions' = PromotingBlocks(installed.members, blocks)
    /\ adds' = MissingBlocks(installed.members, blocks)
    /\ pc' = IF adds' # {} THEN "preflight" ELSE "send"
    /\ UNCHANGED <<server, data, blocks, cur, wait, pending, failed, detached,
                   interrupted, result, history, bounds>>

\* The configuration cannot be read, or two blocks name the same host.
ReadConfigFails ==
    /\ pc = "read"
    /\ IF ValidateMemberOverrides(blocks) THEN CallFails ELSE UNCHANGED faults
    /\ Abort
    /\ UNCHANGED <<server, blocks, op, cfg, pending, detached, interrupted, history,
                   applies, timeouts>>

\* WaitForAddTargets returns once every candidate accepts connections, and
\* PreflightAddTargets then asks each of them.  SHARD-027, SHARD-029
PossibleAnswers == IF HostOverride THEN {"none"} ELSE ProbeAnswers

Preflight ==
    /\ pc = "preflight" /\ ~interrupted
    /\ HostOverride \/ \A i \in adds : node[blocks[i].host] # "down"
    /\ \E answers \in [adds -> PossibleAnswers] :
          /\ IF HostOverride \/ \A i \in adds : answers[i] = "uninitiated"
             THEN UNCHANGED faults ELSE Charge
          /\ inspected' = {blocks[i].host : i \in {j \in adds : CheckAddTarget(answers[j]) = "ok"}}
          /\ IF \A i \in adds : PreflightPasses(blocks[i], answers[i])
             THEN pc' = "send" /\ UNCHANGED <<promotions, adds, cur, wait, failed, data, result>>
             ELSE Abort
    /\ UNCHANGED <<server, blocks, op, cfg, pending, detached, interrupted,
                   added, seen, applies, timeouts>>

PreflightInterrupted ==
    /\ pc = "preflight" /\ interrupted
    /\ Abort
    /\ UNCHANGED <<server, blocks, op, cfg, pending, detached, interrupted, history, bounds>>

---------------------------------------------------------------------------
(* SetReplSetConfigWithRetry: the configuration cfg is on its way *)

Acceptable(old, new) ==
    /\ WellFormedMembers(new)
    /\ KeepsIdentity(old, new)
    /\ OneVoterChange => VoterChange(old, new) <= 1

\* The settings are recorded before the member phase starts.  SHARD-021
RecordSettings == data' = [data EXCEPT !.tracked = TRUE, !.settings = cfg.settings]

\* What the caller does when the call returns.  A failed add is looked up
\* and removed, for the configuration may have gone in (SHARD-017).
ReconfigReturns(ok) ==
    \/ op = "settings" /\ ok /\ RecordSettings /\ NextMember(promotions, adds)
    \/ op = "settings" /\ ~ok /\ Abort
    \/ op = "promote" /\ ok /\ MemberSettled
    \/ op = "promote" /\ ~ok /\ MemberError
    \/ op = "add" /\ ok /\ pc' = "wait"
       /\ UNCHANGED <<promotions, adds, cur, wait, failed, result, data>>
    \/ op = "add" /\ ~ok /\ pc' = "remove" /\ failed' = TRUE
       /\ UNCHANGED <<promotions, adds, cur, wait, result, data>>
    \/ op = "remove" /\ pc' = "final"
       /\ UNCHANGED <<promotions, adds, cur, wait, failed, result, data>>

Install ==
    /\ cfg.version > installed.version /\ Acceptable(installed.members, cfg.members)
    /\ installed' = cfg
    /\ added' = IF op = "add" THEN added \cup {CurBlock.host} ELSE added

ReconfigSucceeds ==
    /\ pc = "send" /\ ~Dead
    /\ Install /\ ReconfigReturns(TRUE)
    /\ UNCHANGED <<node, blocks, op, cfg, pending, detached, interrupted, seen, inspected, bounds>>

\* The server installed the configuration and the command still failed.
ReconfigLost ==
    /\ pc = "send" /\ CallFails
    /\ Install /\ ReconfigReturns(FALSE)
    /\ UNCHANGED <<node, blocks, op, cfg, pending, detached, interrupted, seen, inspected,
                   applies, timeouts>>

\* Nothing was installed: the deadline passed on retryable errors, the
\* context ended, or the error was not retryable.
ReconfigFails ==
    /\ pc = "send" /\ CallFails
    /\ ReconfigReturns(FALSE)
    /\ UNCHANGED <<server, blocks, op, cfg, pending, detached, interrupted, history,
                   applies, timeouts>>

\* The server will not take this member list, however often it is sent.
ReconfigRefused ==
    /\ pc = "send" /\ ~Dead /\ ~Acceptable(installed.members, cfg.members)
    /\ ReconfigReturns(FALSE)
    /\ UNCHANGED <<server, blocks, op, cfg, pending, detached, interrupted, history, bounds>>

\* Code 103: only the version is read again (INIT-027); the members and
\* settings are sent as they were.  A retry after 17405 or 308 changes
\* nothing and is a stutter.
ReconfigConflict ==
    /\ pc = "send" /\ ~Dead /\ cfg.version <= installed.version
    /\ cfg' = [cfg EXCEPT !.version = installed.version + 1]
    /\ UNCHANGED <<server, data, pc, blocks, op, promotions, adds, cur, wait, pending, failed,
                   detached, interrupted, result, history, bounds>>

---------------------------------------------------------------------------
(* settleMember: the wait for the state a block needs *)

\* One successful replSetGetStatus.  A read that fails changes nothing.
PollStatus ==
    /\ pc = "wait" /\ ~interrupted
    /\ LET up  == Reachable(installed.members, CurBlock.host, node[CurBlock.host])
           met == up /\ TargetMet(WaitTargetFor(CurBlock), node[CurBlock.host])
           settled == node[CurBlock.host] \in {"secondary", "primary", "arbiter"}
       IN  /\ seen' = IF up /\ settled THEN seen \cup {CurBlock.host} ELSE seen
           /\ IF ~met THEN
                 /\ wait' = [observed |-> TRUE, everReachable |-> wait.everReachable \/ up]
                 /\ UNCHANGED <<data, pc, promotions, adds, cur, failed, result>>
              ELSE IF NeedsPromotion(CurBlock) THEN
                 /\ pc' = "promote"
                 /\ wait' = [observed |-> TRUE, everReachable |-> TRUE]
                 /\ UNCHANGED <<data, promotions, adds, cur, failed, result>>
              ELSE MemberSettled
    /\ UNCHANGED <<server, blocks, op, cfg, pending, detached, interrupted, added, inspected, bounds>>

NeverSeenUp == wait.observed /\ ~wait.everReachable

\* The wait's timeout elapsed.  A member never seen up is removed again if
\* this apply added it; one that is up but not yet SECONDARY stays a
\* non-voter for the next apply; anything else is an error.  SHARD-017
WaitTimeout ==
    /\ pc = "wait" /\ ~interrupted
    /\ timeouts < MaxTimeouts /\ timeouts' = timeouts + 1
    /\ IF NeverSeenUp /\ AddedNow THEN
          /\ pc' = "remove" /\ failed' = TRUE
          /\ UNCHANGED <<data, promotions, adds, cur, wait, pending, result>>
       ELSE IF wait.everReachable /\ NeedsPromotion(CurBlock) THEN
          pending' = pending \cup {cur} /\ MemberSettled
       ELSE MemberError /\ UNCHANGED pending
    /\ UNCHANGED <<server, blocks, op, cfg, detached, interrupted, history, applies, faults>>

\* The context ended during the wait.  The rollback gets a context of its own.
WaitInterrupted ==
    /\ pc = "wait" /\ interrupted
    /\ IF NeverSeenUp /\ AddedNow THEN
          /\ pc' = "remove" /\ failed' = TRUE /\ detached' = TRUE
          /\ UNCHANGED <<data, promotions, adds, cur, wait, result>>
       ELSE MemberError /\ UNCHANGED detached
    /\ UNCHANGED <<server, blocks, op, cfg, pending, interrupted, history, bounds>>

---------------------------------------------------------------------------
(* promoteMember, the add, and removeMemberByHost *)

\* The configuration is read again before each of the three.
Send(o, members) ==
    /\ cfg' = [version |-> installed.version + 1, settings |-> installed.settings,
               members |-> members]
    /\ op' = o /\ pc' = "send"
    /\ UNCHANGED <<promotions, adds, cur, wait, failed, result, data>>

F_Promoted(m, b) == [m EXCEPT !.votes = b.votes]
Promoted(m, b) == [m EXCEPT !.votes = b.votes, !.priority = b.priority]

PromoteMember ==
    /\ pc = "promote" /\ ~interrupted
    /\ LET mine == {m \in installed.members : m.host = CurBlock.host}
           new  == {IF m \in mine THEN Promoted(m, CurBlock) ELSE m : m \in installed.members}
       IN  IF mine = {} THEN MemberError /\ UNCHANGED <<op, cfg>>
           ELSE IF new = installed.members THEN MemberSettled /\ UNCHANGED <<op, cfg>>
           ELSE Send("promote", new)
    /\ UNCHANGED <<server, blocks, pending, detached, interrupted, history, bounds>>

AddMember ==
    /\ pc = "add" /\ ~interrupted
    /\ Send("add", installed.members \cup
                      {StagedMember(CurBlock, NextMemberID(installed.members))})
    /\ UNCHANGED <<server, blocks, pending, detached, interrupted, history, bounds>>

\* The removal goes by host name.
RemoveMember ==
    /\ pc = "remove" /\ ~Dead
    /\ IF CurBlock.host \in HostsOf(installed.members)
       THEN Send("remove", {m \in installed.members : m.host # CurBlock.host})
       ELSE /\ pc' = "final"
            /\ UNCHANGED <<op, cfg, promotions, adds, cur, wait, failed, result, data>>
    /\ UNCHANGED <<server, blocks, pending, detached, interrupted, history, bounds>>

\* The read before a promotion, an add or a removal fails.
MemberReadFails ==
    /\ pc \in {"promote", "add", "remove"} /\ CallFails
    /\ MemberError
    /\ UNCHANGED <<server, blocks, op, cfg, pending, detached, interrupted, history,
                   applies, timeouts>>

---------------------------------------------------------------------------
(* The final read, on the apply's own context *)

ReadBack == MembersToState(installed.members, HostsOf(Rows(blocks)))

F_FinalRead ==
    /\ pc = "final" /\ ~interrupted
    /\ data' = IF failed THEN data ELSE [data EXCEPT !.members = ReadBack]
    /\ pc' = "idle" /\ result' = IF failed THEN "failed" ELSE "ok"
    /\ UNCHANGED <<server, blocks, work, interrupted, history, bounds>>

FinalRead ==
    /\ pc = "final" /\ ~interrupted
    /\ data' = [data EXCEPT !.members = ReadBack]
    /\ pc' = "idle" /\ result' = IF failed THEN "failed" ELSE "ok"
    /\ UNCHANGED <<server, blocks, work, interrupted, history, bounds>>

FinalReadFails ==
    /\ pc = "final"
    /\ IF interrupted THEN UNCHANGED faults ELSE Charge
    /\ pc' = "idle" /\ result' = "unread"
    /\ UNCHANGED <<server, data, blocks, work, interrupted, history, applies, timeouts>>

---------------------------------------------------------------------------
(* The environment *)

\* terraform is interrupted, or the create or update timeout is over.
Interrupt ==
    /\ pc # "idle" /\ ~interrupted /\ Charge
    /\ interrupted' = TRUE
    /\ UNCHANGED <<server, data, pc, blocks, work, result, history, applies, timeouts>>

\* The wait for candidates that do not accept connections has no deadline but
\* the context's.  SHARD-029
ContextExpires ==
    /\ pc = "preflight" /\ ~interrupted
    /\ \E i \in adds : node[blocks[i].host] = "down"
    /\ timeouts < MaxTimeouts /\ timeouts' = timeouts + 1
    /\ interrupted' = TRUE
    /\ UNCHANGED <<server, data, pc, blocks, work, result, history, applies, faults>>

\* The server reconfigures itself (4.4+ clears newlyAdded).  Anywhere but
\* here the next read hides it.
AutoReconfig ==
    /\ pc \in {"preflight", "send"} /\ Charge
    /\ installed' = [installed EXCEPT !.version = @ + 1]
    /\ UNCHANGED <<node, data, pc, blocks, work, interrupted, result, history, applies, timeouts>>

NodeOnly == UNCHANGED <<installed, data, pc, blocks, work, interrupted, result, history,
                        applies, timeouts>>

NodeUp(h) ==
    /\ node[h] = "down" /\ node' = [node EXCEPT ![h] = "syncing"]
    /\ NodeOnly /\ UNCHANGED faults

\* A member finishes its initial sync.
NodeCatchesUp(h) ==
    /\ node[h] = "syncing"
    /\ \E m \in installed.members :
          /\ m.host = h
          /\ node' = [node EXCEPT ![h] = IF m.arbiter THEN "arbiter" ELSE "secondary"]
    /\ NodeOnly /\ UNCHANGED faults

NodeDown(h) ==
    /\ node[h] \notin {"down", "primary"} /\ Charge
    /\ node' = [node EXCEPT ![h] = "down"]
    /\ NodeOnly

---------------------------------------------------------------------------
Provider ==
    \/ ReadConfig \/ ReadConfigFails \/ Preflight \/ PreflightInterrupted
    \/ ReconfigSucceeds \/ ReconfigLost \/ ReconfigFails \/ ReconfigRefused \/ ReconfigConflict
    \/ PollStatus \/ WaitTimeout \/ WaitInterrupted
    \/ PromoteMember \/ AddMember \/ RemoveMember \/ MemberReadFails
    \/ FinalRead \/ FinalReadFails

Terraform == BeginApply \/ Refresh \/ Import

Nodes == \E h \in Hosts : NodeUp(h) \/ NodeCatchesUp(h) \/ NodeDown(h)

\* Nobody need apply again.
Rest == pc = "idle" /\ UNCHANGED vars

Next == Provider \/ Terraform \/ Nodes \/ Interrupt \/ ContextExpires \/ AutoReconfig \/ Rest

Spec == Init /\ [][Next]_vars

\* The apply is a running program that does not stop between two steps, and
\* the SDK puts a deadline on its context.
LiveSpec == Spec /\ WF_vars(Provider) /\ WF_vars(ContextExpires)

\* Nodes come up and finish their sync, and the user applies as long as the
\* plan shows a difference.
HelpfulSpec ==
    /\ LiveSpec
    /\ WF_vars(BeginApply) /\ WF_vars(Refresh)
    /\ \A h \in Hosts : WF_vars(NodeUp(h)) /\ WF_vars(NodeCatchesUp(h))

---------------------------------------------------------------------------
(* Properties *)

InMemberPhase ==
    \/ pc \in {"wait", "promote", "add", "remove", "final"}
    \/ pc = "send" /\ op # "settings"

\* The votes a list of members gives to data-bearing members.
DataVoters(members) == {m.host : m \in {k \in members : k.votes = 1 /\ ~k.arbiter}}

\* A data-bearing member gets a vote only after this apply saw it SECONDARY
\* or PRIMARY: the staged add and the held promotions never let a syncing
\* member count toward the majority, whatever is retried or fails between
\* the two reconfigs.  (SHARD-022, SHARD-023)
VotesFollowSync ==
    [][DataVoters(installed'.members) \ Voters(installed.members) \subseteq seen]_vars

\* No request brings in more than one host or gives more than one vote, so
\* a 4.4+ server never has a reason to refuse an add or a promotion and an
\* older one never moves its majority by two.  (SHARD-013)
OneVoterPerRequest ==
    pc = "send" =>
        /\ Cardinality(Voters(cfg.members) \ Voters(installed.members)) <= 1
        /\ Cardinality(HostsOf(cfg.members) \ HostsOf(installed.members)) <= 1

\* An arbiter this apply added had answered the pre-flight.  (SHARD-028)
ArbitersInspected ==
    \A m \in installed.members : m.arbiter /\ m.host \in added => m.host \in inspected

\* Nothing an apply sends or adds moves the majority by more than one live
\* process.
MajorityMovesByOne == OneVoterPerRequest /\ ArbitersInspected

\* A host leaves the set only if this apply put it there and never saw it
\* in a settled state.  (SHARD-017, SHARD-019)
RemovesOnlyOwnAdds ==
    [][\A h \in HostsOf(installed.members) \ HostsOf(installed'.members) :
          h \in added /\ h \notin seen]_vars

\* A request never gives a host another _id, and never gives an _id to
\* another host, over any sequence of adds, rollbacks and repeated applies:
\* the server would refuse it.  (SHARD-014)
RequestKeepsIds ==
    pc = "send" =>
        \A m \in installed.members, k \in cfg.members : m.host = k.host <=> m.id = k.id

\* The members have what block b asks for or, if it is reported as pending,
\* the member without votes and priority to which the block gives some.
DoneIn(members, b, reported) ==
    \E m \in members :
        /\ m.host = b.host
        /\ IF reported THEN m.votes = 0 /\ m.priority = 0 /\ NeedsPromotion(b)
           ELSE MemberView(m) = b

\* An apply that reports success has done everything its blocks ask for,
\* except the votes and the priority of the members it reports as pending.
\* (SHARD-017, SHARD-018)
OkMeansDoneOrPending ==
    pc = "idle" /\ result = "ok" =>
        \A i \in DOMAIN blocks : DoneIn(installed.members, blocks[i], i \in pending)

\* After such an apply the plan of the same blocks is empty unless a member
\* is pending; and if none is, a settings reconfig made for another reason
\* sends the members that are there and leaves nothing to promote or add.
\* (SHARD-018, SHARD-021, SHARD-023)
NextPlanIsQuiet ==
    pc = "idle" /\ result = "ok" =>
        /\ PlanHasDiff(blocks, installed.settings) <=> pending # {}
        /\ pending = {} =>
              /\ MergeMembers(installed.members, blocks) = installed.members
              /\ PromotingBlocks(installed.members, blocks) = {}
              /\ MissingBlocks(installed.members, blocks) = {}

\* A success is the whole of it, now and at the next plan.
SuccessMeansDone == OkMeansDoneOrPending /\ NextPlanIsQuiet

\* When the member phase ends and the server could be read, what the server
\* lacks shows as a difference between state and configuration, without a
\* refresh, whether the apply succeeded or not.  (SHARD-021)
NoHiddenWork ==
    pc = "idle" /\ result \in {"ok", "failed"} /\ data.members = Rows(blocks) =>
        Rows(blocks) \subseteq {MemberView(m) : m \in installed.members}

\* A plan made from rows that are true of the server, however the applies
\* before it ended, previews every add and every promotion of the apply, and
\* no others if the live members it has blocks for are in state.  (A block
\* cannot make an arbiter of a member, or a member of an arbiter.)
\* (PREVIEW-022, PREVIEW-023)
PreviewIsTrue ==
    \A list \in BlockLists :
        LET bs   == ExtractMemberOverrides(list)
            rows == PreviewState(data.tracked, data.members, list)
            toAdd     == MissingBlocks(installed.members, bs)
            toPromote == PromotingBlocks(installed.members, bs)
                           \cup {i \in toAdd : NeedsPromotion(bs[i])}
        IN  /\ pc = "idle" /\ ValidateMemberOverrides(bs)
            /\ rows = MembersToState(installed.members, HostsOf(rows))
            /\ \A i \in DOMAIN bs, m \in installed.members :
                   m.host = bs[i].host => m.arbiter = bs[i].arbiter
            => /\ toAdd \subseteq PreviewedAdds(rows, list)
               /\ toPromote \subseteq PreviewedPromotions(rows, list)
               /\ HostsOf(installed.members) \cap HostsOf(Rows(bs)) \subseteq HostsOf(rows) =>
                      /\ toAdd = PreviewedAdds(rows, list)
                      /\ toPromote = PreviewedPromotions(rows, list)

\* From the settings reconfig on, however the apply ends, the resource is in
\* state with the settings the server holds.  (SHARD-021)
SettingsRecorded ==
    InMemberPhase \/ (pc = "idle" /\ result \in {"ok", "failed", "unread"}) =>
        data.tracked /\ data.settings = installed.settings

\* State claims neither members nor settings that the server lacks.
StateIsHonest == NoHiddenWork /\ SettingsRecorded

\* Every apply ends, even if no node ever comes up: each wait and each retry
\* loop has a deadline, or the context's.  (SHARD-016, SHARD-029, INIT-026)
ApplyEnds == pc # "idle" ~> pc = "idle"

\* Repeated applies of the same blocks bring the server and the state to
\* them and stay there, once the faults are over.  (SHARD-021, SHARD-023)
Converges ==
    <>[](/\ pc = "idle" /\ data.tracked
         /\ \E list \in BlockLists :
               LET bs == ExtractMemberOverrides(list) IN
               /\ data.members = Rows(bs)
               /\ Rows(bs) \subseteq {MemberView(m) : m \in installed.members})

\* The part each host has in the set.
RoleOf(h) ==
    CASE \E m \in installed.members : m.host = h /\ m.arbiter -> "arbiter"
      [] \E m \in installed.members : m.host = h /\ ~m.arbiter /\ m.votes = 1 -> "voter"
      [] \E m \in installed.members : m.host = h /\ ~m.arbiter /\ m.votes = 0 -> "nonvoter"
      [] OTHER -> "out"

Membership == INSTANCE ReplicaSetMembership WITH
    role <- [h \in Hosts |-> RoleOf(h)], synced <- seen, mine <- added

\* The apply implements the membership it promises.
ImplementsMembership == Membership!MembershipSpec
=============================================================================
