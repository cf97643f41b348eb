------------------------- MODULE ShardConfigCreate -------------------------
(***************************************************************************)
(* The create of mongodb_shard_config up to the hand-over to               *)
(* updateWithClient (the subject of ShardConfigApply): the wait for the    *)
(* provider's connection, the probe without credentials, replSetInitiate   *)
(* and the wait for a primary.  Source: Create and initializeReplicaSet    *)
(* (resource_shard_config.go), shard_ready.go, shard_init.go,              *)
(* ResolveShardClient (shard_discovery.go).                                *)
(*                                                                         *)
(* Every set has one member here.  A create that fails is run again: it    *)
(* left nothing in state, or a tainted resource, whose destroy does        *)
(* nothing on the server.  Attempts that end where they began (the host    *)
(* is still down) are stutters.  A fault (a failed or lost call, a node    *)
(* that goes down, a bad plan, access control switched on) costs one of    *)
(* MaxFaults.  F_Name is a faulty variant of Name.                         *)
(***************************************************************************)
EXTENDS Integers, FiniteSets

CONSTANTS
  Hosts,         \* the nodes that may be members
  ProviderHost,  \* the host of the provider configuration
  Mongos,        \* it is a mongos router, and no member of a set
  FirstHosts,    \* the hosts the first member block of a plan may name
  NoHost,        \* no host: a plan with no blocks, or two for one host
  MaxFaults

ASSUME HostsAssumption ==
    /\ FirstHosts \subseteq Hosts /\ NoHost \notin Hosts \cup {ProviderHost}
    /\ Mongos \in BOOLEAN /\ (Mongos <=> ProviderHost \notin Hosts)
ASSUME FaultsAssumption == MaxFaults \in Nat

Nodes == Hosts \cup {ProviderHost}

VARIABLES
  up,        \* nodes that accept connections
  inSet,     \* nodes that are members of a replica set
  elected,   \* those whose set has elected them
  users,     \* nodes where the provider's user can log in
  enforces,  \* access control is on
  pc,
  first,     \* the host of the first block
  client,    \* how the connection in use was opened
  target,    \* the node it goes to
  noAuth,    \* allowNoAuthFallback of the hand-over
  initiated, \* this create sent a replSetInitiate that was accepted
  result,
  strict,    \* history: access control was on when this create began
  faults

server == <<up, inSet, elected, users, enforces>>
vars   == <<server, pc, first, client, target, noAuth, initiated, result, strict, faults>>

TypeOK ==
    /\ up \subseteq Nodes /\ inSet \subseteq Hosts /\ elected \subseteq inSet
    /\ users \subseteq Nodes /\ enforces \in BOOLEAN
    /\ pc \in {"idle", "connect", "probe", "getConfig", "initConnect", "initiate", "already",
               "awaitPrimary", "update"}
    /\ first \in Hosts \cup {NoHost} /\ target \in Nodes \cup {NoHost}
    /\ client \in {"none", "auth", "noauth"}
    /\ pc \in {"getConfig", "initiate", "already", "awaitPrimary", "update"} =>
          client # "none" /\ target \in Hosts
    /\ pc = "getConfig" => client = "auth"
    /\ noAuth \in BOOLEAN /\ initiated \in BOOLEAN
    /\ result \in {"none", "ok", "failed", "notReady"} /\ strict \in BOOLEAN
    /\ faults \in 0 .. MaxFaults

\* Fresh nodes, or a set on one of them.  A user outside a set was made before
\* its node was given a set name.
Init ==
    /\ up \in SUBSET Nodes
    /\ inSet \in {{}} \cup {{h} : h \in Hosts} /\ elected = inSet
    /\ users \in SUBSET Nodes /\ enforces \in BOOLEAN
    /\ pc = "idle" /\ first = NoHost /\ client = "none" /\ target = NoHost
    /\ noAuth = FALSE /\ initiated = FALSE /\ result = "none" /\ strict = FALSE
    /\ faults = 0

Charge == faults < MaxFaults /\ faults' = faults + 1

End(r) == pc' = "idle" /\ result' = r /\ UNCHANGED <<client, target, noAuth>>
Goto(l) == pc' = l /\ UNCHANGED <<result, client, target, noAuth>>

\* A call fails, as it must when the node is down.
CallFails(h) == IF h \in up THEN Charge ELSE UNCHANGED faults

---------------------------------------------------------------------------
(* Create: the provider's connection *)

BeginCreate ==
    /\ pc = "idle" /\ result # "ok"
    /\ \/ first' \in FirstHosts /\ UNCHANGED faults
       \/ first' = NoHost /\ Charge
    /\ pc' = "connect" /\ client' = "none" /\ target' = NoHost
    /\ noAuth' = FALSE /\ initiated' = FALSE /\ result' = "none"
    /\ strict' = enforces
    /\ UNCHANGED server

\* The node a login at the provider's host leads to: itself, or behind a
\* mongos a member of the shard.
Resolved == IF Mongos THEN inSet \cap up ELSE {ProviderHost}

CanLogIn == ProviderHost \in up /\ ProviderHost \in users

LogIn ==
    /\ pc = "connect" /\ CanLogIn
    /\ \E h \in Resolved : target' = h
    /\ pc' = "getConfig" /\ client' = "auth"
    /\ UNCHANGED <<server, first, strict, noAuth, initiated, result, faults>>

LoginRefused ==
    /\ pc = "connect" /\ ProviderHost \in up \ users
    /\ Goto("probe")
    /\ UNCHANGED <<server, first, strict, initiated, faults>>

\* An error that is neither a refused login nor a connection error; behind a
\* mongos also a shard that is not listed.  INIT-036
LoginFails ==
    /\ pc = "connect" /\ ProviderHost \in up
    /\ IF Mongos /\ CanLogIn /\ inSet = {} THEN UNCHANGED faults ELSE Charge
    /\ End("failed")
    /\ UNCHANGED <<server, first, strict, initiated>>

\* replSetGetStatus without credentials.  Refused as Unauthorized: access
\* control is on, go on waiting.  Answered, or refused for another reason
\* (NotYetInitialized; a mongos knows no such command): there is none, the
\* user does not exist, initialize.  INIT-029, INIT-035
F_Probe ==
    /\ pc = "probe" /\ ProviderHost \in up
    /\ Goto("initConnect")
    /\ UNCHANGED <<server, first, strict, initiated, faults>>

Probe ==
    /\ pc = "probe" /\ ProviderHost \in up
    /\ Goto(IF enforces THEN "connect" ELSE "initConnect")
    /\ UNCHANGED <<server, first, strict, initiated, faults>>

ProbeUnanswered ==
    /\ pc = "probe" /\ CallFails(ProviderHost)
    /\ Goto("connect")
    /\ UNCHANGED <<server, first, strict, initiated>>

\* What an open wait waits for has not come.
F_Waiting == pc = "initConnect" /\ first # NoHost /\ first \notin up
Waiting ==
    \/ pc \in {"connect", "probe"} /\ (ProviderHost \notin up \/ (enforces /\ ~CanLogIn))
    \/ pc = "connect" /\ CanLogIn /\ Resolved = {}
    \/ pc = "initConnect" /\ first # NoHost /\ first \notin up

\* The create timeout is over, or terraform is interrupted.  INIT-036
NotReady ==
    /\ Waiting
    /\ End("notReady")
    /\ UNCHANGED <<server, first, strict, initiated, faults>>

\* replSetGetConfig as the provider's user.  INIT-001, INIT-002
GetConfig ==
    /\ pc = "getConfig" /\ target \in up
    /\ Goto(IF target \in inSet THEN "update" ELSE "initConnect")
    /\ UNCHANGED <<server, first, strict, initiated, faults>>

GetConfigFails ==
    /\ pc = "getConfig" /\ CallFails(target)
    /\ End("failed")
    /\ UNCHANGED <<server, first, strict, initiated>>

---------------------------------------------------------------------------
(* initializeReplicaSet, on the host of the first block *)

\* INIT-003, SHARD-026
NoUsableBlocks ==
    /\ pc = "initConnect" /\ first = NoHost
    /\ End("failed")
    /\ UNCHANGED <<server, first, strict, initiated, faults>>

\* ConnectForInit: with credentials, and without when that fails for any
\* reason.  INIT-017, INIT-018
F_InitConnect ==
    /\ pc = "initConnect" /\ first \in up
    /\ client' = (IF first \in users THEN "auth" ELSE "noauth") /\ pc' = "initiate"
    /\ UNCHANGED <<server, first, strict, target, noAuth, initiated, result, faults>>

InitConnect ==
    /\ pc = "initConnect" /\ first \in up
    /\ \/ client' = (IF first \in users THEN "auth" ELSE "noauth") /\ UNCHANGED faults
       \/ client' = "noauth" /\ first \in users /\ Charge
    /\ target' = first /\ pc' = "initiate"
    /\ UNCHANGED <<server, first, strict, noAuth, initiated, result>>

\* The server takes the command from an authenticated client, or from anyone
\* when access control is off.
Permitted == client = "auth" \/ ~enforces

\* INIT-007
Initiate ==
    /\ pc = "initiate" /\ target \in up \ inSet /\ Permitted
    /\ inSet' = inSet \cup {target}
    /\ \/ Goto("awaitPrimary") /\ initiated' = TRUE /\ UNCHANGED faults
       \/ End("failed") /\ UNCHANGED initiated /\ Charge        \* the answer is lost
    /\ UNCHANGED <<up, elected, users, enforces, first, strict>>

\* Code 23.  INIT-015
F_AlreadyInitialized ==
    /\ pc = "initiate" /\ target \in up \cap inSet /\ Permitted
    /\ End("failed")
    /\ UNCHANGED <<server, first, strict, initiated, faults>>

AlreadyInitialized ==
    /\ pc = "initiate" /\ target \in up \cap inSet /\ Permitted
    /\ Goto("already")
    /\ UNCHANGED <<server, first, strict, initiated, faults>>

InitiateFails ==
    /\ pc = "initiate"
    /\ IF Permitted THEN CallFails(target) ELSE UNCHANGED faults
    /\ End("failed")
    /\ UNCHANGED <<server, first, strict, initiated>>

\* The provider's own connection is preferred over the one to the first host,
\* which is used when the login fails, for any reason.
HandOver ==
    /\ pc = "already"
    /\ \/ /\ CanLogIn /\ client' = "auth" /\ target' \in Resolved /\ noAuth' = FALSE
          /\ UNCHANGED faults
       \/ /\ UNCHANGED <<client, target>> /\ noAuth' = TRUE
          /\ IF CanLogIn /\ Resolved # {} THEN Charge ELSE UNCHANGED faults
    /\ pc' = "update"
    /\ UNCHANGED <<server, first, strict, initiated, result>>

\* INIT-008, INIT-010

PrimaryElected ==
    /\ pc = "awaitPrimary" /\ target \in up \cap elected
    /\ pc' = "update" /\ noAuth' = TRUE
    /\ UNCHANGED <<server, first, strict, client, target, initiated, result, faults>>

\* INIT-009
NoPrimary ==
    /\ pc = "awaitPrimary" /\ target \notin up \cap elected
    /\ End("failed")
    /\ UNCHANGED <<server, first, strict, initiated, faults>>

\* updateWithClient: it needs the primary and its consent, and may fail.
UpdateDone ==
    /\ pc = "update" /\ target \in up \cap elected /\ Permitted
    /\ End("ok")
    /\ UNCHANGED <<server, first, strict, initiated, faults>>

UpdateFails ==
    /\ pc = "update"
    /\ IF target \in elected /\ Permitted THEN CallFails(target) ELSE UNCHANGED faults
    /\ End("failed")
    /\ UNCHANGED <<server, first, strict, initiated>>

---------------------------------------------------------------------------
(* The deployment (external) *)

DeploymentOnly == UNCHANGED <<pc, first, client, target, noAuth, initiated, result, strict>>

NodeUp(h) ==
    /\ h \notin up /\ up' = up \cup {h}
    /\ DeploymentOnly /\ UNCHANGED <<inSet, elected, users, enforces, faults>>

NodeDown(h) ==
    /\ h \in up /\ up' = up \ {h} /\ Charge
    /\ DeploymentOnly /\ UNCHANGED <<inSet, elected, users, enforces>>

\* The member of a set elects itself.
Elect(h) ==
    /\ h \in (inSet \cap up) \ elected /\ elected' = elected \cup {h}
    /\ DeploymentOnly /\ UNCHANGED <<up, inSet, users, enforces, faults>>

\* The operator, or another resource, creates the provider's user.
CreateUser(h) ==
    /\ h \in up \ users /\ h \in elected
    /\ users' = users \cup {h}
    /\ DeploymentOnly /\ UNCHANGED <<up, inSet, elected, enforces, faults>>

EnableAccessControl ==
    /\ ~enforces /\ enforces' = TRUE /\ Charge
    /\ DeploymentOnly /\ UNCHANGED <<up, inSet, elected, users>>

---------------------------------------------------------------------------
Provider ==
    \/ LogIn \/ LoginRefused \/ LoginFails \/ Probe \/ ProbeUnanswered \/ NotReady
    \/ GetConfig \/ GetConfigFails
    \/ NoUsableBlocks \/ InitConnect \/ Initiate \/ AlreadyInitialized \/ InitiateFails
    \/ HandOver \/ PrimaryElected \/ NoPrimary \/ UpdateDone \/ UpdateFails

Deployment ==
    \/ \E h \in Nodes : NodeUp(h) \/ NodeDown(h) \/ Elect(h) \/ CreateUser(h)
    \/ EnableAccessControl

\* The resource is in state; nothing is left to create.
Created == pc = "idle" /\ result = "ok" /\ UNCHANGED vars

Next == BeginCreate \/ Provider \/ Deployment \/ Created

Spec == Init /\ [][Next]_vars

\* The provider runs, nodes come up and elect, and the user applies until the
\* resource is there.  Nobody need ever create a user.
HelpfulSpec ==
    /\ Spec /\ WF_vars(Provider) /\ WF_vars(NotReady) /\ WF_vars(BeginCreate)
    /\ \A h \in Nodes : WF_vars(NodeUp(h)) /\ WF_vars(Elect(h))

---------------------------------------------------------------------------
(* Properties *)

\* Every create ends: each of its waits has a deadline, and the loop between
\* the login and the probe cannot go on for ever.  (INIT-033 .. INIT-036)
CreateEnds == pc # "idle" ~> pc = "idle"

\* The set a create initiated has its primary when the update begins, so the
\* first reconfig is not refused by a node that is still electing itself.
\* (INIT-008, INIT-010)
UpdateFindsPrimary == pc = "update" /\ initiated => target \in elected

\* While access control is on and the provider's user cannot log in, a create
\* initiates nothing, not even on a first host that would accept the login:
\* it goes on waiting for the user.  (INIT-035, INIT-036)
WaitsForUser == initiated /\ strict => ProviderHost \in users

\* A set is initiated only for a user who may go on, and is gone on with only
\* when it can be written to.
InitiatesInOrder == UpdateFindsPrimary /\ WaitsForUser

\* Without access control repeated creates end in success, whatever calls
\* failed or were lost on the way, a replSetInitiate included, unless the
\* provider's host takes the login without being in a set: after code 23 from
\* the first block's host the update runs there, and fails.  (INIT-015)
CreateSucceeds ==
    [](~enforces /\ (ProviderHost \in users => ProviderHost \in inSet))
        => <>(pc = "idle" /\ result = "ok")
=============================================================================
