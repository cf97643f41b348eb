---------------------------- MODULE ClusterPlan ----------------------------
(***************************************************************************)
(* The generator of a cluster's Terraform configuration (src/cdktn): the   *)
(* description of a sharded cluster, the resource blocks NewMongo-         *)
(* ShardedCluster makes of it, and the apply of these blocks in any order  *)
(* their depends_on allows, on servers that behave as MongoDB does.        *)
(*                                                                         *)
(* A name is a sequence of words and what separates them.                  *)
(***************************************************************************)
EXTENDS Naturals, Sequences

Name     == [words : Seq(STRING), sep : STRING]
Member   == [host : STRING, port : Nat]
NamedSet == [name : Name, with : SUBSET Name]  \* a role, or a user with its roles
RouterGroup == [members : Seq(Member), users : SUBSET NamedSet, roles : SUBSET NamedSet,
                originals : SUBSET NamedSet]
ReplicaSet  == [name : Name, members : Seq(Member), users : SUBSET NamedSet,
                roles : SUBSET NamedSet, originals : SUBSET NamedSet]

\* MongoShardedClusterProps
Description ==
    [mongos : Seq(RouterGroup), config : ReplicaSet, shards : Seq(ReplicaSet),
     users : SUBSET NamedSet, roles : SUBSET NamedSet, originals : SUBSET NamedSet,
     register : BOOLEAN, zones : SUBSET [name : Name, zone : Name],
     ranges : Seq([namespace : Name, zone : Name, bounds : Nat]), balancer : BOOLEAN,
     collections : SUBSET Name, profilers : SUBSET Name, parameters : SUBSET Name, fcv : BOOLEAN]

CONSTANTS
  Clusters,     \* the descriptions a user may write
  MinMembers,   \* MinReplicaSetMembers
  MaxMembers

ASSUME DescriptionsAssumption == Clusters \subseteq Description
ASSUME SizesAssumption == MinMembers \in Nat \ {0} /\ MaxMembers \in Nat

VARIABLES
  props,      \* the description
  pc,         \* what has become of it
  stack,      \* the blocks of the synthesized configuration
  state,      \* the blocks in Terraform state
  primary,    \* the member of each replica set that takes writes
  accounts,   \* the roles and users that exist, by the servers that keep them
  initiated,  \* the replica sets that are initiated
  listed,     \* the shards of the cluster
  tagged,     \* the zones of each shard
  ranged      \* the ranges of keys that are assigned to a zone

servers == <<accounts, initiated, listed, tagged, ranged>>
vars    == <<props, pc, stack, state, primary, servers>>

---------------------------------------------------------------------------
(* Names and blocks *)

NoName  == [words |-> <<>>, sep |-> ""]
NoAlias == [component |-> "", name |-> NoName, index |-> 0]

\* sanitizeName: every separator becomes an underscore.
Sanitize(name) == name.words

\* ProviderAliasName keeps the separators.  CDKTN-004
ProviderAlias(component, name, index) ==
    [component |-> component, name |-> name, index |-> index]

Block(type, alias, key, index, item, deps) ==
    [type |-> type, alias |-> alias, key |-> key, index |-> index, item |-> item, deps |-> deps]

\* What a block is filed under: type and resource name.
Address(b) == [type |-> b.type, alias |-> b.alias, key |-> b.key, index |-> b.index]

Item(name, with) == [name |-> name, with |-> with]
Plain(name)      == Item(name, {})

---------------------------------------------------------------------------
(* Builders *)

\* A component is a replica set or a group of mongos, its first alias offset.
Aliases(c) ==
    {ProviderAlias(c.component, c.name, i) : i \in {c.offset + m - 1 : m \in 1 .. Len(c.members)}}
FirstAlias(c) == ProviderAlias(c.component, c.name, c.offset)

RoleBlock(alias, role) == Block("role", alias, Sanitize(role.name), 0, role, {})

\* CDKTN-012
F_BuildRoles(aliases, roles) == {RoleBlock(a, r) : a \in {b \in aliases : b.index = 0}, r \in roles}
BuildRoles(aliases, roles) == {RoleBlock(a, r) : a \in aliases, r \in roles}

\* Users wait for the roles they are built with.  CDKTN-011, CDKTN-013
BuildUsers(aliases, users, roles) ==
    {Block("user", a, Sanitize(u.name), 0, u, {Address(RoleBlock(a, r)) : r \in roles}) :
        a \in aliases, u \in users}

\* The provider is that of the first member; the name has no alias in it.
\* CDKTN-015
BuildShardConfig(name) == {Block("config", NoAlias, Sanitize(name), 0, Plain(name), {})}

\* CDKTN-052
BuildOriginalUsers(alias, users) ==
    {Block("original", alias, Sanitize(u.name), 0, u, {}) : u \in users}

BuildProfilers(aliases, databases) ==
    {Block("profiler", a, Sanitize(d), 0, Plain(d), {}) : a \in aliases, d \in databases}
BuildServerParameters(aliases, params) ==
    {Block("parameter", a, Sanitize(p), 0, Plain(p), {}) : a \in aliases, p \in params}
BuildFCV(alias, fcv) ==
    IF fcv THEN {Block("fcv", alias, <<>>, 0, Plain(NoName), {})} ELSE {}

BuildShardRegistrations(names) ==
    {Block("shard", NoAlias, Sanitize(n), 0, Plain(n), {}) : n \in names}
BuildBalancerConfig(wanted, deps) ==
    IF wanted THEN {Block("balancer", NoAlias, <<>>, 0, Plain(NoName), deps)} ELSE {}
BuildShardZones(zones, deps) ==
    {Block("zone", NoAlias, Sanitize(z.name) \o Sanitize(z.zone), 0, Item(z.name, {z.zone}), deps) :
        z \in zones}
\* The place in the list is part of the name.
BuildZoneKeyRanges(ranges, deps) ==
    {Block("range", NoAlias, Sanitize(ranges[i].namespace) \o Sanitize(ranges[i].zone), i - 1,
           Item(ranges[i].zone, {ranges[i].bounds}), deps) : i \in 1 .. Len(ranges)}
BuildCollectionBalancing(namespaces, deps) ==
    {Block("collection", NoAlias, Sanitize(n), 0, Plain(n), deps) : n \in namespaces}

---------------------------------------------------------------------------
(* Components *)

ShardNames(p) == {p.shards[i].name : i \in DOMAIN p.shards}
SetNames(p)   == {p.config.name} \cup ShardNames(p)

\* Cluster-level roles go to every component.
MergeRoles(clusterRoles, componentRoles) == clusterRoles \cup componentRoles

\* Number the mongos through, over all groups.
Offsets(groups) ==
    LET off[i \in 1 .. Len(groups)] ==
            IF i = 1 THEN 0 ELSE off[i - 1] + Len(groups[i - 1].members)
    IN  off

Component(kind, name, offset, p, c) ==
    [component |-> kind, name |-> name, offset |-> offset, members |-> c.members,
     users |-> c.users, roles |-> MergeRoles(p.roles, c.roles), originals |-> c.originals]

ConfigServer(p) == Component("configsvr", p.config.name, 0, p, p.config)
Shards(p)       == {Component("shard", p.shards[i].name, 0, p, p.shards[i]) : i \in DOMAIN p.shards}
Mongos(p)       ==
    {Component("mongos", NoName, Offsets(p.mongos)[i], p, p.mongos[i]) : i \in DOMAIN p.mongos}

\* What all components have: NewMongoMongosWithOffset.  CDKTN-017
NewMongos(c, p) ==
    BuildRoles(Aliases(c), c.roles)
        \cup BuildUsers(Aliases(c), c.users, c.roles)
        \cup BuildOriginalUsers(FirstAlias(c), c.originals)
        \cup BuildProfilers(Aliases(c), p.profilers)
        \cup BuildServerParameters(Aliases(c), p.parameters)

\* NewMongoShard and NewMongoConfigServer
NewReplicaSet(c, p) ==
    NewMongos(c, p)
        \cup BuildShardConfig(c.name)
        \cup BuildFCV(FirstAlias(c), p.fcv)

\* CDKTN-037
ClusterUserTargets(p) ==
    (UNION {Aliases(c) : c \in Mongos(p)}) \cup {FirstAlias(c) : c \in Shards(p)}

\* CDKTN-052
ClusterOriginalUserTargets(p) ==
    {FirstAlias(c) : c \in {d \in Mongos(p) : d.members # <<>>} \cup Shards(p) \cup {ConfigServer(p)}}

\* A cluster-level user waits for the cluster-level roles only.
ClusterUsers(p) ==
    IF p.users = {} THEN {}
    ELSE BuildRoles(ClusterUserTargets(p), p.roles)
             \cup BuildUsers(ClusterUserTargets(p), p.users, p.roles)

\* Everything that goes through the first mongos.
F_ClusterResources(p) ==
    LET shards == IF p.register THEN BuildShardRegistrations(ShardNames(p)) ELSE {}
        shardRefs == {Address(b) : b \in shards}
        zones     == BuildShardZones(p.zones, shardRefs)
    IN  shards \cup zones \cup BuildZoneKeyRanges(p.ranges, shardRefs)
            \cup BuildBalancerConfig(p.balancer, shardRefs)
            \cup BuildCollectionBalancing(p.collections, shardRefs)
ClusterResources(p) ==
    LET shards == IF p.register THEN BuildShardRegistrations(ShardNames(p)) ELSE {}
        shardRefs == {Address(b) : b \in shards}
        zones     == BuildShardZones(p.zones, shardRefs)
        zoneRefs  == {Address(b) : b \in zones}
    IN  shards \cup zones \cup BuildZoneKeyRanges(p.ranges, zoneRefs)
            \cup BuildBalancerConfig(p.balancer, shardRefs)
            \cup BuildCollectionBalancing(p.collections, shardRefs)

Blocks(p) ==
    NewReplicaSet(ConfigServer(p), p)
        \cup (UNION {NewReplicaSet(c, p) : c \in Shards(p)})
        \cup (UNION {NewMongos(c, p) : c \in Mongos(p)})
        \cup ClusterUsers(p)
        \cup (UNION {BuildOriginalUsers(a, p.originals) : a \in ClusterOriginalUserTargets(p)})
        \cup ClusterResources(p)

---------------------------------------------------------------------------
(* Validation *)

AllComponents(p) == Mongos(p) \cup Shards(p) \cup {ConfigServer(p)}

\* CDKTN-021, CDKTN-022, CDKTN-026
BadMemberCount(c) ==
    \/ c.component # "mongos" /\ Len(c.members) < MinMembers
    \/ Len(c.members) > MaxMembers

\* The port is compared as it is given, the default not put in.  CDKTN-025
DuplicateHostPort(c) ==
    \E i, j \in DOMAIN c.members : i # j /\ c.members[i] = c.members[j]

\* CDKTN-028
DuplicateRSNames(p) ==
    \/ \E i \in DOMAIN p.shards : p.shards[i].name = p.config.name
    \/ \E i, j \in DOMAIN p.shards : i # j /\ p.shards[i].name = p.shards[j].name

\* CDKTN-023, CDKTN-024, CDKTN-033
Rejected(p) ==
    \/ p.mongos = <<>> \/ p.shards = <<>>
    \/ DuplicateRSNames(p)
    \/ \E c \in AllComponents(p) :
           \/ c.component # "mongos" /\ c.name = NoName
           \/ BadMemberCount(c) \/ DuplicateHostPort(c)

\* The first alias of a group without members: index out of range.  (A group
\* that panics is looked at after a later group that is rejected here.)
Panics(p) ==
    \/ p.mongos[1].members = <<>>
    \/ \E c \in Mongos(p) : c.members = <<>> /\ c.originals # {}

---------------------------------------------------------------------------
(* Synthesis *)

Shared(blocks) == {b \in blocks : \E c \in blocks : c # b /\ Address(c) = Address(b)}

\* One block remains of those filed under one address: sort.Slice keeps no
\* order between them.  CDKTN-029
F_Synth(blocks) == {blocks}
Synth(blocks) ==
    LET shared   == Shared(blocks)
        taken    == {Address(b) : b \in shared}
        winners  == {w \in [taken -> shared] : \A a \in taken : Address(w[a]) = a}
    IN  {(blocks \ shared) \cup {w[a] : a \in taken} : w \in winners}

Init ==
    /\ props \in Clusters /\ pc = "described" /\ stack = {} /\ state = {}
    /\ primary \in [SetNames(props) -> 0 .. MinMembers - 1]
    /\ accounts = {} /\ listed = {} /\ tagged = {} /\ ranged = {}
    /\ initiated \in {{}, {props.config.name}}

Generate ==
    /\ pc = "described"
    /\ IF Rejected(props) THEN pc' = "rejected" /\ UNCHANGED stack
       ELSE IF Panics(props) THEN pc' = "panicked" /\ UNCHANGED stack
       ELSE pc' = "applying" /\ stack' \in Synth(Blocks(props))
    /\ UNCHANGED <<props, state, primary, servers>>

---------------------------------------------------------------------------
(* The servers (external) *)

\* Routers and config servers keep one set of roles and users, each shard its
\* own.  A member of a replica set takes writes if it is the primary.
Keeper(alias) == IF alias.component = "shard" THEN alias.name ELSE props.config.name
RouterUp == props.config.name \in initiated
TakesWrites(alias) ==
    \/ alias.component = "mongos" /\ RouterUp
    \/ alias.component # "mongos" /\ alias.name \in initiated /\ alias.index = primary[alias.name]

Account(b)   == [keeper |-> Keeper(b.alias), type |-> b.type, name |-> b.item.name]
RolesFor(b)  == {[keeper |-> Keeper(b.alias), type |-> "role", name |-> r] : r \in b.item.with}

\* The hosts are registered with the ports as they are given, 0 as well.
Dialled(name) ==
    \A i \in DOMAIN props.shards : props.shards[i].name = name =>
        \A m \in DOMAIN props.shards[i].members : props.shards[i].members[m].port # 0

\* What the servers ask for before they do what a block says.
Works(b) ==
    CASE b.type \in {"role", "user"} ->
             /\ TakesWrites(b.alias) /\ Account(b) \notin accounts
             /\ b.type = "user" => RolesFor(b) \subseteq accounts
      [] b.type = "fcv"   -> TakesWrites(b.alias)
      [] b.type = "shard" -> /\ b.item.name \in initiated
                             /\ RouterUp /\ Dialled(b.item.name)
      [] b.type = "zone"  -> b.item.name \in listed
      [] b.type = "range" -> \E s \in listed : [name |-> s, zone |-> b.item.name] \in tagged
      [] b.type \in {"balancer", "collection"} -> RouterUp
      [] OTHER            -> TRUE

Effect(b) ==
    /\ accounts'  = accounts \cup (IF b.type \in {"role", "user"} THEN {Account(b)} ELSE {})
    /\ initiated' = initiated \cup (IF b.type = "config" THEN {b.item.name} ELSE {})
    /\ listed'    = listed \cup (IF b.type = "shard" THEN {b.item.name} ELSE {})
    /\ tagged'    = tagged \cup (IF b.type = "zone"
                                 THEN {[name |-> b.item.name, zone |-> z] : z \in b.item.with} ELSE {})
    /\ ranged'    = ranged \cup (IF b.type = "range" THEN b.item.with ELSE {})

---------------------------------------------------------------------------
(* Terraform (external) *)

InState(address) == \E b \in state : Address(b) = address

\* A range whose bounds or zone have changed under its address stops the plan.
PlanRefused ==
    \E b \in state, c \in stack : b.type = "range" /\ Address(b) = Address(c) /\ b.item # c.item

Ready(b) ==
    /\ pc = "applying" /\ ~PlanRefused
    /\ b \in stack /\ ~InState(Address(b)) /\ \A a \in b.deps : InState(a)

Apply(b) ==
    /\ Ready(b) /\ Works(b)
    /\ Effect(b) /\ state' = state \cup {b}
    /\ UNCHANGED <<props, pc, stack, primary>>

\* Of what is in state and no longer in the configuration, only ranges are
\* looked at: Edit takes out nothing else.
Destroy(b) ==
    /\ pc = "applying" /\ ~PlanRefused
    /\ b \in state /\ ~ \E c \in stack : Address(c) = Address(b)
    /\ ranged' = ranged \ b.item.with /\ state' = state \ {b}
    /\ UNCHANGED <<props, pc, stack, primary, accounts, initiated, listed, tagged>>

\* Read of a range that is not there clears its ID.
F_Refresh == FALSE /\ UNCHANGED vars
Refresh ==
    /\ \E b \in state : b.type = "range" /\ ~(b.item.with \subseteq ranged)
    /\ state' = {b \in state : b.type = "range" => b.item.with \subseteq ranged}
    /\ UNCHANGED <<props, pc, stack, primary, servers>>

\* The first range is taken out of the description, and the cluster generated
\* again.
Edit ==
    /\ pc = "applying" /\ Len(props.ranges) > 1
    /\ props' = [props EXCEPT !.ranges = Tail(@)]
    /\ stack' \in Synth(Blocks(props'))
    /\ UNCHANGED <<pc, state, primary, servers>>

Terraform ==
    \/ Generate \/ Refresh
    \/ \E b \in stack : Apply(b)
    \/ \E b \in state : Destroy(b)
Next == Terraform \/ Edit

Spec == Init /\ [][Next]_vars

\* The user applies again and again; each plan starts with a refresh.
LiveSpec == Spec /\ WF_vars(Terraform)

---------------------------------------------------------------------------
(* Properties *)

Types == {"role", "user", "config", "original", "profiler", "parameter", "fcv",
          "shard", "zone", "range", "balancer", "collection"}

\* Type invariant.  The configuration and the state file one block under one
\* address.
TypeOK ==
    /\ props \in Clusters \/ \E p \in Clusters : props = [p EXCEPT !.ranges = props.ranges]
    /\ pc \in {"described", "rejected", "panicked", "applying"}
    /\ \A blocks \in {stack, state} : \A b, c \in blocks :
           b.type \in Types /\ (Address(b) = Address(c) => b = c)
    /\ primary \in [SetNames(props) -> Nat]
    /\ initiated \subseteq SetNames(props)
    /\ listed \subseteq ShardNames(props)

\* The roles of the level a user is described at.
LevelRoles(b) ==
    props.roles \cup (IF b.item \in props.users THEN {}
                      ELSE UNION {c.roles : c \in {d \in AllComponents(props) : b.alias \in Aliases(d)}})

\* depends_on is enough (CDKTN-013, CLUS-002, ZONE-017): as long as no block
\* is lost, a block whose dependencies are in state finds what it needs on the
\* servers, in whatever order the rest is applied: a user its roles, a zone
\* its shard, a range its zone.  A cluster-level user that names a role of a
\* component and a zone of a shard that is not registered by the cluster are
\* left to luck.
DependenciesSuffice ==
    stack = Blocks(props) =>
        \A b \in stack : Ready(b) =>
            /\ b.type = "user" /\ b.item.with \subseteq {r.name : r \in LevelRoles(b)}
                   => RolesFor(b) \subseteq accounts
            /\ b.type = "zone" /\ props.register /\ b.item.name \in ShardNames(props)
                   => b.item.name \in listed
            /\ b.type = "range" /\ (\E z \in props.zones : z.zone = b.item.name)
                   => \E t \in tagged : t.zone = b.item.name

\* Two replica sets, or two zones, that are told apart by separators only.
SameWords(name) == \E other \in SetNames(props) \ {name} : Sanitize(other) = Sanitize(name)
SameZoneWords(z) ==
    \E y \in props.zones \ {z} :
        Sanitize(y.name) \o Sanitize(y.zone) = Sanitize(z.name) \o Sanitize(z.zone)

\* Another writer to the same accounts is built the same role: whichever comes
\* second fails for good, and with it what waits for it.
Contended(c) ==
    /\ c.component # "shard" /\ c.roles # {}
    /\ \/ c.component = "mongos" /\ Len(c.members) > 1
       \/ \E d \in AllComponents(props) \ {c} :
              d.component # "shard" /\ d.members # <<>> /\ d.roles \cap c.roles # {}

Existing(c, type, item) ==
    [keeper |-> Keeper(FirstAlias(c)), type |-> type, name |-> item.name] \in accounts
RolesKnown(c, u) == u.with \subseteq {r.name : r \in c.roles}

SetsInitiated == \A n \in SetNames(props) : n \in initiated \/ SameWords(n)
Registrations == {c \in SetNames(props) \ {props.config.name} : props.register /\ ~SameWords(c)}
ShardsListed  == \A n \in Registrations : n \in listed \/ ~Dialled(n)
ZonesTagged   ==
    Registrations \subseteq listed => \A z \in props.zones : z.name \in listed =>
        [name |-> z.name, zone |-> z.zone] \in tagged \/ SameZoneWords(z)
AccountsCreated ==
    \A c \in AllComponents(props) :
        c.members # <<>> /\ (c.component # "mongos" => ~SameWords(c.name)) =>
            /\ \A r \in c.roles : Existing(c, "role", r)
            /\ \A u \in c.users : RolesKnown(c, u) =>
                   Existing(c, "user", u) \/ Contended(c)
            /\ c.component = "shard" /\ primary[c.name] = 0 =>
                   \A u \in props.users : RolesKnown(c, u) => Existing(c, "user", u)

\* Applied again and again, the configuration brings about what the
\* description asks for: in the end every replica set is initiated, every
\* shard listed, every zone tagged, and every role and user exists where it is
\* asked for.  It does not for names told apart by separators only, for hosts
\* without a port (which hold back the zones of every shard), for the users of
\* contended roles, and for cluster-level users of a shard whose first member
\* is not primary.
Completes ==
    <>[](pc = "applying" /\ ~PlanRefused =>
             SetsInitiated /\ ShardsListed /\ ZonesTagged /\ AccountsCreated)

\* After the list of key ranges is edited, which renames the blocks behind the
\* place of the edit, the ranges of the cluster become the ones described,
\* although the destroy of a range under its old name may undo the create
\* under its new one.
RangesSettle ==
    <>[](pc = "applying" /\ ~PlanRefused =>
             ranged = {props.ranges[i].bounds :
                           i \in {j \in DOMAIN props.ranges :
                                      \E t \in tagged : t.zone = props.ranges[j].zone}})
=============================================================================
