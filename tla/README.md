# A TLA+ model of terraform-provider-mongodb

The provider manages MongoDB deployments from Terraform: replica sets and their
members, shards, users and roles, the balancer, zones, server parameters.
Terraform calls one operation of one resource at a time and keeps the result in
its state. What makes the code hard is not parallelism inside it but what
happens around it: every operation is a sequence of calls to servers that
restart, sync, elect and reconfigure themselves; any call can fail or succeed
without saying so; an apply can be interrupted between two calls; and the next
apply starts from whatever the last one left on the servers and in state.

This directory holds TLA+ modules of that behaviour, TLC configurations that
check them on small deployments, and proofs, checked by TLAPS, that the main
safety properties hold for deployments of any size. Source paths below are
relative to `src/`.

## The system

| Component | Source | State | Operations |
|---|---|---|---|
| shard_config: apply | `mongodb/resource_shard_config.go`, `shard_members.go`, `shard_init.go`, `shard_ready.go`, `replica_set_types.go` | the replica set's configuration document and its version; member rows and settings in Terraform state; the place of the running apply | update (settings reconfig, promotions, adds, rollback, final read), read, import, delete (which leaves the server alone) |
| shard_config: create | same files, `shard_discovery.go` | whether a node is in a set; how the connection was opened | wait for the login, probe without credentials, `replSetInitiate`, wait for the primary, hand over to the apply |
| shard_config: oplog | same files | one oplog size per member, one number for all in state | resize every member, read every member |
| shard | `mongodb/resource_shard.go` | the shard list of the cluster, draining | `addShard` with retries, `removeShard` polled to the end, read, import |
| shard_zone, zone_key_range | `mongodb/resource_shard_zone.go`, `resource_zone_key_range.go` | the zone tag in a shard's document; ranges of keys of a zone | add, remove, read, import |
| original_user | `mongodb/resource_original_user.go` | the first user of a deployment | create or adopt, read, a guard on updates; delete leaves the user alone |
| db_user, db_role | `mongodb/resource_db_user.go`, `resource_db_role.go` | users and roles by name | create, update by the name in the ID, read, drop |
| balancer_config | `mongodb/resource_balancer_config.go` | documents of `config.settings`, the balancer's mode | up to five commands per update, read back, three commands on destroy |
| collection balancing, FCV, profiler, server parameter | `mongodb/resource_collection_balancing.go`, `resource_fcv.go`, `resource_profiler.go`, `resource_server_parameter.go` | one to three values each | set, read, reset |
| provider configuration and clients | `mongodb/provider.go`, `config.go`, `resource_registry.go` | none across operations | options, TLS, proxy, feature gates |
| command preview | `mongodb/command_preview.go` | `planned_commands` of a plan | shows at plan time what an apply will send |
| cdktn generator | `cdktn/` | the description of a cluster, the blocks made of it | validate, generate, what Terraform then does with the blocks |
| linter | `linters/` | none | inspects the Go source |

Components meet in two places. Resources of one plan run in dependency order and
meet only on the server: the replica set a `shard_config` builds is what
`shard` adds to the cluster and what `original_user` creates its user in. The
order is what `depends_on` says, which the cdktn generator writes. And
each resource meets itself through Terraform state: what an operation leaves
there decides what the next plan does.

Terraform's part matters to the models, so here it is. Before an update the
planned values are in the resource data; when the operation returns an error
they stay in state (nothing calls `Partial`). A create that fails before
`SetId` leaves nothing; one that fails after it leaves a tainted resource,
which the next plan destroys (a no-op on the server for a `shard_config`) and
creates again. A refresh runs `Read`.

### What is hard, and what would make it correct

- A member that has not synced must not vote, whatever happens between the
  reconfig that adds it and the one that promotes it.
- The rollback of a failed add must remove that member, and nothing else.
- A reconfig retried after a version conflict carries a member list read earlier.
- State must not claim what the server lacks, also after a failure half-way.
- Every wait must end, and repeated applies must reach the configuration.
- A resize must reach every member, the primary last, and one number in state
  must stand for all of them.
- A shard is forgotten only when it is gone, however often its removal is given
  up, killed or answered into the void; and one that is wanted is there in the
  end, although a Create whose last read fails is undone by the next apply.
- A create must not initialize what is initialized, and must find the set that
  an earlier create initiated without learning of it.
- A password must change when the configuration says so and at no other time,
  and what a plan previews must be what the apply sends.
- A setting is written by several commands, some of which fail: an empty plan
  must mean that there is nothing left to do, and a destroy must reset what the
  resource may have written.
- The dependencies the generator writes must be enough for every order
  Terraform may choose, and the apply of the whole must get to its end.

`PROJECT.json` lists these hazards one by one at the lines where they bite.

## The modules

| Module | Models |
|---|---|
| `ReplicaSetConfig` | the data: members, blocks, the pure functions on them, what `replSetReconfig` validates |
| `ShardConfigApply` | one resource applied to an initialized set: `updateWithClient` and all it calls, `Read`, the nodes, faults and interruptions |
| `ReplicaSetMembership` | what an apply promises of each host: out, non-voter, voter, arbiter; implemented by `ShardConfigApply` |
| `ShardConfigRivals` | the same apply while another operator runs `rs.add()` |
| `OplogResize` | the oplog part at the end of the apply, and the read-back |
| `ShardConfigCreate` | what `Create` does before the apply |
| `ClusterShards` | a shard of a cluster, its zone and a range of keys in it, under one plan |
| `Accounts` | a `mongodb_db_user`, `mongodb_db_role` or `mongodb_original_user`, from the plan and its preview to the read-back |
| `Settings` | one of the five settings resources |
| `ClusterPlan` | the cdktn generator, and the apply of what it generates in any order `depends_on` allows |
| `ShardConfigApplyProofs`, `ShardConfigMembershipProofs`, `OplogResizeProofs`, `ShardConfigCreateProofs`, `ClusterShardsProofs`, `AccountsProofs`, `SettingsProofs`, `ClusterPlanProofs` | theorems |
| `MC*` and `*.cfg` | instances for TLC |

In every module `F_Name`, just before `Name`, is a faulty variant of it: a
plausible slip in the code that some property catches. Nothing else uses it.

### ShardConfigApply

`pc` is the place of the apply in the code; the other variables are the
function's locals, the server and the state.

| Code | Model |
|---|---|
| `Update`, SDK diff | `PlanHasDiff`, `BeginApply` |
| `updateWithClient`: read, validate, partition, hold, merge | `ReadConfig`, `ReadConfigFails` |
| `WaitForAddTargets`, `PreflightAddTargets` | `Preflight`, `PreflightInterrupted`, `ContextExpires` |
| `SetReplSetConfigWithRetry` | `ReconfigSucceeds`, `ReconfigLost`, `ReconfigFails`, `ReconfigRefused`, `ReconfigConflict` |
| setting the ID and the settings in state | `RecordSettings`, part of the step in which the settings reconfig returns |
| `settleMember`, `WaitForMemberState` | `PollStatus`, `WaitTimeout`, `WaitInterrupted` |
| `promoteMember`, `AddMembersSequentially`, `removeMemberByHost` | `PromoteMember`, `AddMember`, `RemoveMember`, `MemberReadFails` |
| final read | `FinalRead`, `FinalReadFails` |
| `Read` | `Refresh` |
| `resourceShardConfigImport`, which seeds every live member (SHARD-030) | `Import` |
| `shardConfigCommandPreview`, `previewMemberChanges` | `PreviewState`, `PreviewedAdds`, `PreviewedPromotions` of `ReplicaSetConfig` |

A reconfig is four outcomes: installed and answered, installed and not
answered, not installed, refused for good. The retry loop re-reads only the
version, and so does the model. Fields that behave like `priority` (hidden,
build_indexes, tags) are left out; votes are 0 or 1 as the server requires;
a priority is zero or not. `PlanHasDiff` is the difference of a plan without command
preview: with it, `planned_commands` can be one of its own.

### OplogResize

`BeginApply` is the plan (the attribute is Computed, so without a configured
value the plan keeps what state holds), `MembersDone`/`MembersFail` stand for
everything before `applyOplogConfig`, the fan-out is one action per outcome per
member, the read-back one action per member in any order. A resize that timed
out may land at any later time. `host_override` excludes the attribute and is
left out; the member list is fixed (a member just added is one that is syncing
with a size of its own).

### ShardConfigCreate

One action per outcome of each call. Every set has one member here, and the
update handed over to is one step that needs the primary: the rest is
`ShardConfigApply`. The provider's host, the host of the first block and a
mongos are distinguished because the code connects to each in turn. The model
also reaches, without a property, two cases no document speaks of: the first
block changes between two creates and a second set of the same name is
initiated (`resource_shard_config.go:81`), and after code 23 the update runs on
the provider's host although that host is in no set (`:105`). A mongos that
refuses the login is taken for a fresh node (`shard_ready.go:127`); that is why
`CreateSucceeds` speaks of deployments without access control.

### ClusterShards

`pc` is the call about to be made; `todo` holds the operations of the plan still
to run, in the order of the dependencies (the range is removed before the zone
and the zone before the shard, and they are added in the opposite order).
Terraform state is `shard`, `zone` and `range`, each unknown, tracked or
tainted, or, for the range, found in another zone. The loop of `Create` is
`AddShard`, `AddShardUndiscovered` (code 133), `AddShardFails` and the pause;
that of `Delete` is `RemoveShard`, `RemoveShardOverdue`, `RemoveShardFails` and
the pause. A command that fails may have been carried out. The deadline passes
at any time (`Expire`), so both "before the first call" and "between the last
poll and the completion" occur. mongos is a small state machine: not listed,
listed, draining, and whether data is left on a draining shard; it refuses to
remove a zone that a range needs. `hosts`, the identity guards of the plan and
`Update`, which does nothing, are left out.

What the model shows and no property forbids:

- A shard whose removal was given up and is no longer wanted goes on draining;
  `Read` does not look at draining, so the plan shows no difference.
- `shard_zone` takes every error of its query for a missing shard
  (`ReadZoneMistaken`; ZONE-005 and `resource_zone_key_range.go:252`
  distinguish): a failed read while the resource is being destroyed leaves the
  tag behind. `StateFollowsCluster` allows that step, and only that one, to
  forget a tag that is there.
- A range whose create got in and lost its answer is in no state (`Stray`). The
  zone it is in, and with it the shard, can then not be destroyed until somebody
  removes or imports it; `DestroyCompletes`, a part of `AppliesComplete`, excepts
  this. The same holds of a
  tainted zone in use, which Terraform cannot replace.
- A range found in another zone stops every plan.

### Accounts

`pc` is `idle` or the step of the plan or apply; `plan` is what the plan carried
into the apply, its `planned_commands` included. One action per outcome of each
call, as elsewhere: `Create`, `CreateRefused`, `CreateFails` and so on for read,
update and delete. What Terraform does around them is in `BeginPlan`, `MakePlan`
and `KeepPlanned`: a failed update leaves the planned attributes in state, a
failed read after a create leaves a tainted resource. `IncludesPassword` is the
rule of `includePasswordForUpdate`; `Readable` is the read of an original user,
which logs in as the user in state and, when that is refused, tries without.
Somebody else may change, drop or create accounts, the configuration may be
edited, and access control may be switched on.

What the model shows besides its properties: a `db_role` that is renamed
previews the new name and updates the one in its ID (which `PreviewIsSent`
excepts); a renamed `db_user` takes over a user of the new name and leaves the
old one behind; an original user without roles previews `roles: []` and sends
root; `planned_commands` stays in state, because no `Read` clears it (against
PREVIEW-011), and is computed also for a resource without changes (against
PREVIEW-008); and a `createUser` whose answer is lost can
be mended by an import only.

### Settings

A command is the set of attributes it writes, and an apply is the sequence of
commands `Commands` gives it, of which any may be refused, fail, or be carried
out without an answer. `Values` are opaque except for `Padded`, which is the
text of a number with a leading zero. `fields` are the attributes a behaviour
looks at, any two of a kind; the others do not move. `alone` says that nobody
else wrote to the deployment since the plan began. A version query and the
command that follows it are one step.

`EmptyPlanMeansDone` and `Converges` hold for the attributes in `Upheld`, which names
what the code does not hold to: a throttle, wait or chunk size taken out of the
configuration keeps its value on the server and shows a difference for ever;
`wait_for_delete = false` is never sent (against BAL-007); a setting that somebody else removed is
not noticed; the chunk size of a collection is not read; `ignore_read` keeps a
failed update of a parameter from being tried again; a number with a leading zero
differs for ever from the one that is read. Also: the first set and a re-created
set of the compatibility version need no danger mode, and switching danger mode
alone sends the version again; a destroyed profiler keeps its slow-operation
threshold and sampling rate; below version 6.0 a destroyed collection balancing keeps its chunk
size; the preview does not show the removal of the balancer's window (against
PREVIEW-021), the one command `PreviewShowsCommands` excepts.

### ClusterPlan

`Generate` is `NewMongoShardedCluster`: it rejects the description (`Rejected`),
panics (`Panics`) or leaves blocks, each with its address and the addresses it
depends on (`Blocks`, `Synth`). The rest is Terraform and the servers, external:
`Apply` takes any block whose dependencies are in state and which the servers
can carry out (`Works`); `Edit` takes a range out of the description and
generates again. A name is a sequence of words and a separator, because
`sanitizeName` maps all separators to one.

`Completes` and `DependenciesSuffice` say where they except something, and each
exception is a case the runs reach: names that differ only in separators
("rs-0", "rs_0") get one address, and one of the blocks is lost (`Shared`; against
CDKTN-015); a cluster-level user may name a role of a component, on which it does
not depend (`cluster.go:114`; against CDKTN-013); the roles of the config server
and of mongos are kept in the same place, so the second to create them fails; a
provider alias of a member that is not primary refuses writes (against
CDKTN-011); port 0 is registered as it is given, and one failing registration
holds back zones, ranges, balancer and collections of all shards; a description
whose first mongos group has no members panics at `cluster.go:127`. The index of
a range is part of its address, so that an edit renames the ranges behind it:
`RangesSettle` shows that the ranges come right all the same.

## The runs

| Run | Question | Bounds |
|---|---|---|
| `shard_apply` | all safety properties of the apply, that each apply ends, and that it implements `ReplicaSetMembership` | three hosts, two settings, two applies of six plans, two faults; expired waits as many as two applies can have |
| `shard_converge` | do repeated applies of one plan converge | three hosts, one plan with an arbiter and two voters, five applies, two faults and one expired wait |
| `rivals_survive` | what holds beside another operator | one host may be added from outside at any moment |
| `rival_dropped` | refutes a sentence of the documents, see below | as small as shows it |
| `oplog_resize` | order, completeness, honesty of state, convergence | two data-bearing members and an arbiter, two sizes or none, two faults |
| `shard_create` | termination, success, order | two nodes, two faults, with and without access control, users, an existing set |
| `cluster_shards` | what state forgets and vouches for, termination, completion of removals and creations | one shard, one zone and one range, five faults, applies without bound |
| `accounts` | which passwords change, who is touched, what the preview says, recovery | two names, two passwords, two faults, all three kinds |
| `accounts_blocked`, `accounts_rotation` | refute a sentence of the documents each, see below | the bounds of `accounts` |
| `settings` | what an empty plan, a preview and a destroy mean, convergence | two values and a padded one, any two attributes of each of five kinds, three faults |
| `cluster_plan` | what is generated, whether the dependencies are enough, what comes of it | nineteen descriptions (`MCClusters`), each chosen for one feature of the generator; two members per set |

Three hosts and two faults are small and enough for the interesting orders: an
add, its rollback and the next apply need one host besides the primary, an add
that follows another one needs two; a promotion held over needs two applies; a
lost answer followed by a failing rollback needs two faults. An arbiter and a
data-bearing member are among the plans, and so are a set with a gap in its
`_id`s, a block that names a host twice and a plan that lowers two votes at once.
In `cluster_shards` a Create undone by its own read, whose removal loses an
answer and is killed, needs three faults, and a range besides needs two more. In
`accounts` a lost answer followed by a kill needs two, and two names are what a
rename takes; in `settings` a create that fails half-way, a destroy that fails
half-way and one edit need three. Faults are counted only to keep the state space
finite: TLC tries each at every point where it can occur.

Safety properties need no fairness. The liveness properties assume that the provider
goes on (`WF` of its actions: it is a running program, and each of its loops has
a deadline or the context's), and for convergence also that nodes come up and
catch up, that the user refreshes and applies again while the plan shows a
difference, and that faults stop. Each plan begins with a refresh; an apply
is therefore possible again and again rather than continuously, which is why
`OplogResize` and `ClusterShards` ask strong fairness of it. In `ClusterShards`,
`Accounts` and `Settings` the specification of the run assumes only that the
provider runs and that time passes; what completion needs besides is the premise
of the property (`Helpful`). In `ClusterShards`: data moves, primaries are found,
the user goes on, and not every removal runs out of time before its first call,
which `remove_timeout_secs = 0` would make it do. In `Accounts` and `Settings`:
the user plans again, and imports an account that is there and unknown to
Terraform. In `ClusterPlan` it is Terraform alone: the user applies
until nothing is left to do.

## What the runs show about the documents

Three runs refute a sentence of the repository's documents; `PROJECT.json` quotes
each under "findings".

- `rival_dropped`: the retry after a version conflict sends the member list of
  an earlier read, so it drops a member that another operator added
  (`docs/specs/shard-member-requirements.md:131`).
- `accounts_blocked`: `HasChanges()` without keys is never true
  (`resource_original_user.go:37`), so the plan does not stop a changed original
  user; the apply fails and leaves the planned values in state
  (`docs/specs/dangerous-operations-requirements.md:33`, `:63`).
- `accounts_rotation`: an update of a `db_user` that fails leaves the new
  password in state, and no later plan sends it (`:134` of the same document
  gives this as the thing to avoid).

Three more sentences do not hold. They are exceptions of a property or a part of
the model rather than runs of their own, and all of
`docs/specs/command-preview-requirements.md`:

- PREVIEW-021 (`:101`): the preview of the balancer "SHALL list all commands that
  would execute". A plan without a window unsets the one on the server
  (`resource_balancer_config.go:321`), and its preview does not say so
  (`command_preview.go:200`). `PreviewShowsCommands` is violated without its second
  disjunct.
- PREVIEW-008 (`:48`): a resource without changes keeps its `planned_commands`. The
  preview of a `db_user` or `db_role` is computed on every plan
  (`command_preview.go:45`) and differs from the one in state, which the create
  left; so an account without changes is planned and sent once more (`MakePlan` of
  `Accounts`).
- PREVIEW-011 (`:57`): no `Read` sets `planned_commands` to the empty string
  (`ReadInto` of `Accounts` keeps it).

Less than a contradiction, but worth knowing: the rollback finds its member by
host name, so beside another operator it removes one that it did not add
(`shard_members.go:411`); an apply that is interrupted, and one whose oplog
fan-out fails, leaves planned values in state until the next refresh
(`resource_shard_config.go:772`, `:790`).

## The proofs

All for any set of hosts, names, values, plans, descriptions, initial
configurations and bounds that meet the modules' assumptions. Every type invariant
and every safety property of the passing runs is a theorem; the runs show them on
small instances. `FcvGuarded` alone is proved without a run.

- `ShardConfigApplyProofs`
  - `NextMemberIDIsFresh` and the lemmas about the pure functions: what staging,
    holding and merging keep.
  - `TypeCorrect`: `TypeOK` alone is not inductive: a promotion may only be
    computed from blocks that are in range, and a member list has a highest
    `_id` only if it is finite. `TypeInv` adds both.
  - `StateTellsTheTruth`: `[]StateIsHonest`. Settings are recorded when the
    settings reconfig returns, and the requests that follow must leave them as
    they are (`SettingsInv`); the rows that a final read or a refresh leaves are
    the server's until the next apply begins (`RowsRead`).
  - `SuccessIsTrue`: `[]OkMeansDoneOrPending`, the first half of
    `SuccessMeansDone`. Each block is in exactly one of three
    places: still in a queue, done in the server, or pending and there without a
    vote and without a priority (`Serves`). `OutcomeInv` says this of the request
    on its way (`RequestServes`) and of the server until an error ends the member
    phase (`ServerServes`); success is reported when the queues are empty. What
    the settings reconfig leaves of a promotion that is held (`HeldIn`), the server
    accepts only without a vote and a priority (`StagedIn`).
  - `ApplyGetsShorter`: the safety half of `ApplyEnds`. `StepsLeft` weighs the
    place of the apply and the blocks still queued; it is at most `11 + 9 * n` for
    `n` blocks, and every step of the provider but a poll and a retry after a
    version conflict lowers it. It needs that the block being settled is still
    queued (`QueueInv`), or settling it would leave as much as before.
- `ShardConfigMembershipProofs`, all but the last three about what a request under
  way is compared with what is installed; the version check keeps any other
  configuration from being installed in between:
  - `NoVoteBeforeSync`: `VotesFollowSync`, by `VoteInv`: the request gives a
    data-bearing member a vote only if it was seen in a settled state.
  - `RollbackOnly`: `RemovesOnlyOwnAdds`, by `RemovalInv`: the request lacks an
    installed host only as a rollback, of the block being settled, which this
    apply added and never saw up.
  - `IdsAreKept`: `[]RequestKeepsIds`, by `IdInv`: the request pairs hosts and
    `_id`s as the installed configuration does, which needs that no block still
    to add names an installed host (`StillOut`) except while it is being settled.
  - `OneLiveVoteAtATime`: `[]MajorityMovesByOne`, by `MajorityInv`: the only new
    vote is that of the block being settled, and the arbiters among the blocks to
    add answered the preflight before any request was sent.
  - `MembershipIsImplemented`: `ImplementsMembership`, the refinement of
    `ReplicaSetMembership`. The settings reconfig gives no vote, and every other
    request leaves all hosts but one as they are (`RequestShape`); with the
    invariants above an installed request is `LoseVotes`, `GetVote`, `Join` or
    `RollBack` of the abstract membership; the begin of an apply is `StartApply`, a
    poll that sees a member settled `SeeSynced`, and every other step stutters.
  - `PreviewKeepsItsWord`: `[]PreviewIsTrue`. It needs only that what is installed
    is well formed; the comparison of the two ways of counting adds and promotions
    is the lemma `PreviewMatches`.
  - `SuccessIsWhole`: `[]SuccessMeansDone`. After a success the rows in state are
    what reading the server for the configured hosts gives (`RowsSettled`), and the
    settings are the server's (`HonestInv`). Hosts are there once
    (`UniqueInstalled`), so a member that has what its block asks for is merged into
    itself (`DoneMergesToItself`), and a pending one differs in its row
    (`PendingShows`).
  - `RivalsAreOutlived`: `OutlivesRivals`, of `ShardConfigRivals`. The invariants
    on types, hosts, votes, honesty, rows and outcome survive `RivalAdds` too (`RivalInv`),
    because more members serve no less and a new member has no vote; those on
    removals and `_id`s do not, as `rival_dropped` shows.
- `OplogResizeProofs`
  - `OplogTyped`: `[]TypeOK`, and `NoResizeUnasked`: `UnmanagedUntouched`.
    `PlanInv` carries what the plan made of the configuration to the fan-out:
    where nothing is configured, the size in the plan is unset or unchanged.
  - `SizeIsConfirmed`: `[]StateIsConfirmed`. A reading stays true until a late
    resize lands (`ReadingInv`), and a finished read-back records the one size all
    readings have (`ConfirmedInv`); both need that nothing was read before the
    read-back (`UnreadInv`).
  - `FanOutReachesAll`: `FanOutIsOrderly`. The hosts still to visit hold whoever can
    be resized and has not been, the primary at their end (`Orderly`), and the
    hosts resized have the size (`FanOutInv`). It rests on `OnePrimary`, or two
    primaries in the status could be visited one before the other, and on the
    lemma `InOrderHas`: the list of hosts to visit has each member once.
- `ShardConfigCreateProofs`: `TypeCorrect`, and `OrderIsKept`:
  `[]InitiatesInOrder`, by an invariant on what was granted before each place of
  the create (`Granted`) and what was seen of the primary (`InOrder`).
- `ClusterShardsProofs`: `ClusterShardsTyped`: `TypeOK` is inductive.
  `NothingForgottenEarly`: `StateFollowsCluster`, by cases on the step; what it
  needs of the states is only that faults are counted and that a range is in no
  zone, in its own or in another.
- `AccountsProofs`: one inductive invariant (`Inv`), whose interesting part is
  `PlanMeant`: a plan carries the preview of itself, and an empty password only if
  there was one in state. From it `TypeCorrect`, `NoSilentRotation`
  (`PasswordOnlyOnRotation`), `FirstUserIsSafe` (`OriginalIsNeverTouched`) and
  `WhatIsShownIsSent` (`PreviewIsSent`).
- `SettingsProofs`
  - `SettingsTyped`: `[]TypeOK`.
  - `VersionNeedsDangerMode` (`FcvGuarded`) needs that the version in state is the
    server's as long as nobody interfered (`VersionRead`).
  - `DestroyIsComplete` (`DestroyRestores`) needs that what a delete has yet to
    send is a tail of its commands, and that what the others wrote is reset
    (`DeleteProgress`).
  - `EmptyPlansAreTrue` (`EmptyPlanMeansDone`): an empty plan compares the
    configuration with state, so between the read and the comparison state must be
    what reading the server gives (`SeenInv`: reading twice gives the same,
    `SeenTwice`), and for what is upheld that is what the server has
    (`UpheldIsSeen`).
  - `PreviewsAreTrue` (`PreviewShowsCommands`): every command still to send is one
    of the plan's (`SentInv`), and all but the removal of the window are in its
    preview (`PreviewIsComplete`). Without that exception it is false.
- `ClusterPlanProofs`, by `PlanInv`
  - `ClusterPlanTyped`: `[]TypeOK`. State holds one block for an address although
    edits change the configuration, because an edit moves ranges only and what is
    destroyed goes first (`StateInv`).
  - `OrderIsEnough`: `[]DependenciesSuffice`. A block in state has had its effect on
    the servers and nothing takes it back (`EffectInv`, `Lasts`); an alias belongs
    to one component (`OneComponentPerAlias`), so the roles a user depends on are
    those of its component. For the mongos this needs that the numbers of the
    groups do not overlap, which is what `Offsets` computes (`OffsetsGrow`).

`Offsets` and `InOrder` are defined by recursion. The induction theorems of the
library take an operator as parameter, which the provers cannot instantiate;
what is needed of the two functions is proved by a least counterexample instead
(`LeastExists`, from the well-foundedness of the numbers).

Two properties were corrected by their proofs. `OkMeansDoneOrPending` said of a
pending member only that it lacks a vote or a priority; it lacks both, whatever
the block gives it. `DependenciesSuffice` spoke of a user's roles by name without saying
whose; it now names the level the user is described at, and covers zones and
ranges.

Only model-checked: all liveness (`ApplyEnds`, of which only the bound on its steps
is proved, `CreateEnds`, the convergence and completion properties, and
`RangesSettle`), which TLAPS does not reach; and what `ShardConfigRivals` shows
against the documents.

## Not modelled

Option parsing, TLS and proxy set-up, the registry, the feature gates and the
linter keep no state across steps. Shard discovery finds a host for one call and
keeps nothing: `ShardConfigCreate` sees its outcome, the other models a
connection that works or fails. Of the command preview the wording of the
commands is left out, and the empty preview when only client-side attributes of a
`shard_config` change (SHARD-031); of the generator the attributes nothing depends
on, credentials and the JSON.

## Plan

1. More of what holds beside another operator: which requests keep `_id`s when the
   set changes between the read and the retry.
2. The composition of `ShardConfigCreate` with `ClusterShards`: a shard that is
   registered while its replica set is still being completed.
