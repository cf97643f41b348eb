------------------------- MODULE ClusterPlanProofs -------------------------
(***************************************************************************)
(* Theorems about ClusterPlan, for every set of descriptions: what is in   *)
(* Terraform state comes from the description, its effect is on the        *)
(* servers, and depends_on names everything a block needs.                 *)
(***************************************************************************)
EXTENDS ClusterPlan, WellFoundedInduction, TLAPS

---------------------------------------------------------------------------
(* Offsets: a recursive function is a CHOOSE, so what it computes is       *)
(* proved by the least number that would be an exception.                  *)

\* A non-empty set of naturals has a least element.
LEMMA LeastExists ==
    ASSUME NEW S \in SUBSET Nat, S # {}
    PROVE  \E x \in S : \A y \in S : x <= y
<1>1. PICK x \in S : \A y \in S : ~(<<y, x>> \in OpToRel(<, Nat))
  BY WFMin, NatLessThanWellFounded
<1>2. \A y \in S : x <= y
  <2> SUFFICES ASSUME NEW y \in S PROVE x <= y
    OBVIOUS
  <2>1. ~(<<y, x>> \in OpToRel(<, Nat))
    BY <1>1
  <2>2. ~(y < x)
    BY <2>1 DEF OpToRel
  <2> QED BY <2>2
<1> QED BY <1>2

\* The equation of Offsets for the first n groups has a solution.
IsOffsets(f, groups, n) ==
    f = [i \in 1 .. n |-> IF i = 1 THEN 0 ELSE f[i - 1] + Len(groups[i - 1].members)]

LEMMA OffsetsExist ==
    ASSUME NEW groups, NEW n \in Nat
    PROVE  \E f : IsOffsets(f, groups, n)
<1> DEFINE Bad == {k \in Nat : ~ \E f : IsOffsets(f, groups, k)}
<1>1. Bad = {}
  <2> SUFFICES ASSUME Bad # {} PROVE FALSE
    OBVIOUS
  <2>1. Bad \in SUBSET Nat
    OBVIOUS
  <2>2. PICK k \in Bad : \A y \in Bad : k <= y
    <3> HIDE DEF Bad
    <3> QED BY <2>1, LeastExists
  <2>3. k # 0
    <3>1. IsOffsets([i \in 1 .. 0 |-> 0], groups, 0)
      BY DEF IsOffsets
    <3> QED BY <3>1
  <2>4. k - 1 \in Nat /\ k - 1 \notin Bad
    BY <2>2, <2>3
  <2>5. PICK f : IsOffsets(f, groups, k - 1)
    BY <2>4
  <2> DEFINE g == [i \in 1 .. k |-> IF i = 1 THEN 0 ELSE f[i - 1] + Len(groups[i - 1].members)]
  <2>6. \A i \in 1 .. k : i # 1 => g[i - 1] = f[i - 1]
    <3> SUFFICES ASSUME NEW i \in 1 .. k, i # 1 PROVE g[i - 1] = f[i - 1]
      OBVIOUS
    <3>1. i - 1 \in 1 .. k /\ i - 1 \in 1 .. (k - 1)
      BY <2>3
    <3>2. f[i - 1] = IF i - 1 = 1 THEN 0 ELSE f[i - 1 - 1] + Len(groups[i - 1 - 1].members)
      BY <2>5, <3>1 DEF IsOffsets
    <3> QED BY <3>1, <3>2
  <2>7. IsOffsets(g, groups, k)
    BY <2>6 DEF IsOffsets
  <2> QED BY <2>2, <2>7
<1> QED BY <1>1

\* Offsets is that solution: the offset of a group is that of the one before
\* it and the size of that group.
LEMMA OffsetsFollow ==
    ASSUME NEW groups \in Seq(RouterGroup)
    PROVE  IsOffsets(Offsets(groups), groups, Len(groups))
<1>1. PICK f : IsOffsets(f, groups, Len(groups))
  BY OffsetsExist
<1> QED BY <1>1 DEF Offsets, IsOffsets

\* A group's aliases end before those of every later group begin.
LEMMA OffsetsGrow ==
    ASSUME NEW groups \in Seq(RouterGroup)
    PROVE  /\ \A j \in 1 .. Len(groups) : Offsets(groups)[j] \in Nat
           /\ \A j \in 1 .. Len(groups) : \A i \in 1 .. (j - 1) :
                 Offsets(groups)[i] + Len(groups[i].members) <= Offsets(groups)[j]
<1> DEFINE off == Offsets(groups)
           size(i) == Len(groups[i].members)
           Good(j) == /\ off[j] \in Nat
                      /\ \A i \in 1 .. (j - 1) : off[i] + size(i) <= off[j]
           Bad == {j \in 1 .. Len(groups) : ~Good(j)}
<1>1. \A i \in 1 .. Len(groups) : size(i) \in Nat
  BY DEF RouterGroup
<1>2. Len(groups) \in Nat
  OBVIOUS
<1>3. \A i \in 1 .. Len(groups) : off[i] = IF i = 1 THEN 0 ELSE off[i - 1] + size(i - 1)
  BY OffsetsFollow DEF IsOffsets
<1> HIDE DEF off, size
<1>4. Bad = {}
  <2> SUFFICES ASSUME Bad # {} PROVE FALSE
    OBVIOUS
  <2>1. Bad \in SUBSET Nat
    BY <1>2
  <2>2. PICK k \in Bad : \A y \in Bad : k <= y
    <3> HIDE DEF Bad
    <3> QED BY <2>1, LeastExists
  <2>3. k \in 1 .. Len(groups)
    BY <2>2
  <2>4. CASE k = 1
    BY <2>2, <2>3, <2>4, <1>3
  <2>5. CASE k # 1
    <3>1. k - 1 \in 1 .. Len(groups)
      BY <2>3, <2>5, <1>2
    <3>2. Good(k - 1)
      <4>1. k - 1 \notin Bad
        BY <2>1, <2>2, <3>1
      <4> HIDE DEF Good
      <4> QED BY <3>1, <4>1
    <3>3. off[k] = off[k - 1] + size(k - 1)
      BY <1>3, <2>3, <2>5
    <3>4. \A i \in 1 .. (k - 2) : off[i] + size(i) <= off[k - 1]
      BY <3>2
    <3>5. off[k] \in Nat /\ off[k - 1] <= off[k]
      BY <1>1, <3>1, <3>2, <3>3
    <3>6. \A i \in 1 .. (k - 1) : off[i] + size(i) <= off[k]
      <4> SUFFICES ASSUME NEW i \in 1 .. (k - 1) PROVE off[i] + size(i) <= off[k]
        OBVIOUS
      <4>1. CASE i = k - 1
        BY <4>1, <3>3, <3>5
      <4>2. CASE i # k - 1
        <5>1. i \in 1 .. (k - 2) /\ i \in 1 .. Len(groups)
          BY <4>2, <2>3, <1>2
        <5>2. off[i] + size(i) <= off[k - 1]
          BY <5>1, <3>4
        <5>3. off[i] \in Nat
          <6>1. i \notin Bad
            BY <2>1, <2>2, <2>3, <5>1
          <6> HIDE DEF Good
          <6>2. Good(i)
            BY <5>1, <6>1
          <6> QED BY <6>2 DEF Good
        <5>4. off[i] + size(i) \in Nat /\ off[k - 1] \in Nat /\ off[k] \in Nat
          BY <1>1, <3>2, <3>5, <5>1, <5>3
        <5> QED BY <3>5, <5>2, <5>4
      <4> QED BY <4>1, <4>2
    <3> QED BY <2>2, <3>5, <3>6
  <2> QED BY <2>4, <2>5
<1>5. \A j \in 1 .. Len(groups) : Good(j)
  BY <1>4
<1> QED BY <1>5 DEF off, size

---------------------------------------------------------------------------
(* The blocks of a description *)

\* What each builder makes.
LEMMA Built ==
    /\ \A as, rs : \A b \in BuildRoles(as, rs) : b.type = "role"
    /\ \A as, us, rs : \A b \in BuildUsers(as, us, rs) : b.type = "user"
    /\ \A n : \A b \in BuildShardConfig(n) : b.type = "config" /\ b.item.name = n
    /\ \A a, us : \A b \in BuildOriginalUsers(a, us) : b.type = "original"
    /\ \A as, ds : \A b \in BuildProfilers(as, ds) : b.type = "profiler"
    /\ \A as, ps : \A b \in BuildServerParameters(as, ps) : b.type = "parameter"
    /\ \A a, w : \A b \in BuildFCV(a, w) : b.type = "fcv"
    /\ \A ns : \A b \in BuildShardRegistrations(ns) : b.type = "shard" /\ b.item.name \in ns
    /\ \A w, ds : \A b \in BuildBalancerConfig(w, ds) : b.type = "balancer"
    /\ \A zs, ds : \A b \in BuildShardZones(zs, ds) : b.type = "zone" /\ b.deps = ds
    /\ \A rs, ds : \A b \in BuildZoneKeyRanges(rs, ds) : b.type = "range" /\ b.deps = ds
    /\ \A ns, ds : \A b \in BuildCollectionBalancing(ns, ds) : b.type = "collection"
BY DEF BuildRoles, RoleBlock, BuildUsers, BuildShardConfig, BuildOriginalUsers, BuildProfilers,
       BuildServerParameters, BuildFCV, BuildShardRegistrations, BuildBalancerConfig,
       BuildShardZones, BuildZoneKeyRanges, BuildCollectionBalancing, Block, Item, Plain

\* What the cluster registers, and the zones that wait for it.
Registered(p) == IF p.register THEN BuildShardRegistrations(ShardNames(p)) ELSE {}
RefsOf(blocks) == {Address(b) : b \in blocks}
ZonesOf(p) == BuildShardZones(p.zones, RefsOf(Registered(p)))

LEMMA ResourcesOf ==
    ASSUME NEW p
    PROVE  ClusterResources(p) =
               Registered(p) \cup ZonesOf(p)
                   \cup BuildZoneKeyRanges(p.ranges, RefsOf(ZonesOf(p)))
                   \cup BuildBalancerConfig(p.balancer, RefsOf(Registered(p)))
                   \cup BuildCollectionBalancing(p.collections, RefsOf(Registered(p)))
BY DEF ClusterResources, Registered, RefsOf, ZonesOf

LEMMA ComponentNames ==
    ASSUME NEW p
    PROVE  /\ ConfigServer(p).name = p.config.name
           /\ \A c \in Shards(p) : c.name \in ShardNames(p)
BY DEF ConfigServer, Shards, Component, ShardNames

\* The blocks, part by part.
LEMMA BlocksAre ==
    ASSUME NEW p, NEW b
    PROVE  b \in Blocks(p) <=>
               \/ b \in NewReplicaSet(ConfigServer(p), p)
               \/ \E c \in Shards(p) : b \in NewReplicaSet(c, p)
               \/ \E c \in Mongos(p) : b \in NewMongos(c, p)
               \/ b \in ClusterUsers(p)
               \/ \E a \in ClusterOriginalUserTargets(p) : b \in BuildOriginalUsers(a, p.originals)
               \/ b \in ClusterResources(p)
<1> DEFINE ofShards == UNION {NewReplicaSet(c, p) : c \in Shards(p)}
           ofMongos == UNION {NewMongos(c, p) : c \in Mongos(p)}
           originals == UNION {BuildOriginalUsers(a, p.originals) : a \in ClusterOriginalUserTargets(p)}
<1>1. b \in ofShards <=> \E c \in Shards(p) : b \in NewReplicaSet(c, p)
  OBVIOUS
<1>2. b \in ofMongos <=> \E c \in Mongos(p) : b \in NewMongos(c, p)
  OBVIOUS
<1>3. b \in originals <=>
         \E a \in ClusterOriginalUserTargets(p) : b \in BuildOriginalUsers(a, p.originals)
  OBVIOUS
<1>4. Blocks(p) = NewReplicaSet(ConfigServer(p), p) \cup ofShards \cup ofMongos
                      \cup ClusterUsers(p) \cup originals \cup ClusterResources(p)
  BY DEF Blocks
<1> HIDE DEF ofShards, ofMongos, originals
<1> QED BY <1>1, <1>2, <1>3, <1>4

\* Where a block comes from, by its type.
LEMMA Origin ==
    ASSUME NEW p, NEW b \in Blocks(p)
    PROVE  /\ b.type \in Types
           /\ b.type = "config" => b.item.name \in SetNames(p)
           /\ b.type = "shard" => b \in Registered(p)
           /\ b.type = "zone" => b \in ZonesOf(p)
           /\ b.type = "range" => b \in BuildZoneKeyRanges(p.ranges, RefsOf(ZonesOf(p)))
           /\ b.type = "user" =>
                 \/ \E c \in AllComponents(p) : b \in BuildUsers(Aliases(c), c.users, c.roles)
                 \/ p.users # {} /\ b \in BuildUsers(ClusterUserTargets(p), p.users, p.roles)
<1>1. \A c : b \in NewMongos(c, p) =>
         /\ b.type \in {"role", "user", "original", "profiler", "parameter"}
         /\ b.type = "user" => b \in BuildUsers(Aliases(c), c.users, c.roles)
  BY Built DEF NewMongos
<1>2. \A c : b \in NewReplicaSet(c, p) =>
         \/ b \in NewMongos(c, p)
         \/ b.type = "config" /\ b.item.name = c.name
         \/ b.type = "fcv"
  BY Built DEF NewReplicaSet
<1>3. CASE \E c \in AllComponents(p) : b \in NewMongos(c, p)
  BY <1>1, <1>3 DEF Types
<1>4. CASE \E c \in Shards(p) \cup {ConfigServer(p)} : b \in NewReplicaSet(c, p)
  <2>1. PICK c \in Shards(p) \cup {ConfigServer(p)} : b \in NewReplicaSet(c, p)
    BY <1>4
  <2>2. c.name \in SetNames(p) /\ c \in AllComponents(p)
    BY ComponentNames DEF SetNames, AllComponents
  <2> QED BY <1>2, <1>3, <2>1, <2>2 DEF Types
<1>5. CASE b \in ClusterUsers(p)
  <2>1. p.users # {} /\ (b.type = "role" \/
           (b.type = "user" /\ b \in BuildUsers(ClusterUserTargets(p), p.users, p.roles)))
    BY <1>5, Built DEF ClusterUsers
  <2> QED BY <2>1 DEF Types
<1>6. CASE \E a \in ClusterOriginalUserTargets(p) : b \in BuildOriginalUsers(a, p.originals)
  BY <1>6, Built DEF Types
<1>7. CASE b \in ClusterResources(p)
  <2>1. \A c \in Registered(p) : c.type = "shard"
    BY Built DEF Registered
  <2>2. \A c \in ZonesOf(p) : c.type = "zone"
    BY Built DEF ZonesOf
  <2> QED BY <1>7, <2>1, <2>2, ResourcesOf, Built DEF Types
<1> QED BY <1>3, <1>4, <1>5, <1>6, <1>7, BlocksAre DEF AllComponents

\* Every block waits for blocks, and the roles a user waits for, the shards a
\* zone waits for and the zones a range waits for are blocks.
LEMMA RolesAreBlocks ==
    ASSUME NEW p
    PROVE  /\ \A c \in AllComponents(p) : BuildRoles(Aliases(c), c.roles) \subseteq Blocks(p)
           /\ p.users # {} => BuildRoles(ClusterUserTargets(p), p.roles) \subseteq Blocks(p)
           /\ Registered(p) \subseteq Blocks(p) /\ ZonesOf(p) \subseteq Blocks(p)
<1>1. \A c : BuildRoles(Aliases(c), c.roles) \subseteq NewMongos(c, p)
  BY DEF NewMongos
<1>2. \A c : NewMongos(c, p) \subseteq NewReplicaSet(c, p)
  BY DEF NewReplicaSet
<1>3. ASSUME NEW c \in AllComponents(p), NEW b \in NewMongos(c, p) PROVE b \in Blocks(p)
  BY <1>2, BlocksAre DEF AllComponents
<1>4. ASSUME NEW b \in ClusterUsers(p) PROVE b \in Blocks(p)
  BY BlocksAre
<1>5. p.users # {} => BuildRoles(ClusterUserTargets(p), p.roles) \subseteq ClusterUsers(p)
  BY DEF ClusterUsers
<1>6. ASSUME NEW b \in ClusterResources(p) PROVE b \in Blocks(p)
  BY BlocksAre
<1>7. Registered(p) \subseteq ClusterResources(p) /\ ZonesOf(p) \subseteq ClusterResources(p)
  BY ResourcesOf
<1> QED BY <1>1, <1>3, <1>4, <1>5, <1>6, <1>7

\* An edit of the key ranges changes nothing else.
Edited(p, q) == q \in Description /\ \E rs : q = [p EXCEPT !.ranges = rs]

LEMMA EditedFields ==
    ASSUME NEW p \in Description, NEW q, Edited(p, q)
    PROVE  /\ q.mongos = p.mongos /\ q.config = p.config /\ q.shards = p.shards
           /\ q.users = p.users /\ q.roles = p.roles /\ q.originals = p.originals
           /\ q.register = p.register /\ q.zones = p.zones /\ q.balancer = p.balancer
           /\ q.collections = p.collections /\ q.profilers = p.profilers
           /\ q.parameters = p.parameters /\ q.fcv = p.fcv
BY DEF Edited, Description

LEMMA EditedComponents ==
    ASSUME NEW p \in Description, NEW q, Edited(p, q)
    PROVE  /\ ConfigServer(q) = ConfigServer(p)
           /\ Shards(q) = Shards(p) /\ Mongos(q) = Mongos(p) /\ AllComponents(q) = AllComponents(p)
           /\ ShardNames(q) = ShardNames(p) /\ SetNames(q) = SetNames(p)
           /\ Rejected(q) = Rejected(p)
<1>1. ConfigServer(q) = ConfigServer(p)
  BY EditedFields DEF ConfigServer, Component
<1>2. Shards(q) = Shards(p)
  BY EditedFields DEF Shards, Component
<1>3. Mongos(q) = Mongos(p)
  BY EditedFields DEF Mongos, Component
<1>4. AllComponents(q) = AllComponents(p)
  BY <1>1, <1>2, <1>3 DEF AllComponents
<1>5. ShardNames(q) = ShardNames(p) /\ SetNames(q) = SetNames(p)
  BY EditedFields DEF ShardNames, SetNames
<1>6. DuplicateRSNames(q) = DuplicateRSNames(p)
  BY EditedFields DEF DuplicateRSNames
<1>7. Rejected(q) = Rejected(p)
  BY <1>4, <1>6, EditedFields DEF Rejected
<1> QED BY <1>1, <1>2, <1>3, <1>4, <1>5, <1>7

\* The blocks other than ranges stay.
LEMMA EditedBlocks ==
    ASSUME NEW p \in Description, NEW q, Edited(p, q), NEW b \in Blocks(p), b.type # "range"
    PROVE  b \in Blocks(q)
<1>1. \A c : NewMongos(c, q) = NewMongos(c, p)
  BY EditedFields DEF NewMongos
<1>2. \A c : NewReplicaSet(c, q) = NewReplicaSet(c, p)
  BY <1>1, EditedFields DEF NewReplicaSet
<1>3. ClusterUserTargets(q) = ClusterUserTargets(p)
  BY EditedComponents DEF ClusterUserTargets
<1>4. ClusterUsers(q) = ClusterUsers(p)
  BY <1>3, EditedFields DEF ClusterUsers
<1>5. ClusterOriginalUserTargets(q) = ClusterOriginalUserTargets(p)
  BY EditedComponents DEF ClusterOriginalUserTargets
<1>6. Registered(q) = Registered(p)
  BY EditedFields, EditedComponents DEF Registered
<1>7. ZonesOf(q) = ZonesOf(p)
  BY <1>6, EditedFields DEF ZonesOf
<1>8. b \in ClusterResources(p) => b \in ClusterResources(q)
  <2>1. b \notin BuildZoneKeyRanges(p.ranges, RefsOf(ZonesOf(p)))
    BY Built
  <2> QED BY <2>1, <1>6, <1>7, EditedFields, ResourcesOf
<1>9. \A a : BuildOriginalUsers(a, q.originals) = BuildOriginalUsers(a, p.originals)
  BY EditedFields
<1> QED BY <1>1, <1>2, <1>4, <1>5, <1>8, <1>9, EditedComponents, BlocksAre

\* In an accepted description an alias belongs to one component: replica sets
\* have names of their own, and the groups of mongos are numbered through.
\* (CDKTN-028)
LEMMA OneComponentPerAlias ==
    ASSUME NEW p \in Description, ~Rejected(p),
           NEW c \in AllComponents(p), NEW d \in AllComponents(p),
           NEW a \in Aliases(c), a \in Aliases(d)
    PROVE  c = d
<1>1. /\ a.component = c.component /\ a.component = d.component
      /\ a.name = c.name /\ a.name = d.name
      /\ \E m \in 1 .. Len(c.members) : a.index = c.offset + m - 1
      /\ \E m \in 1 .. Len(d.members) : a.index = d.offset + m - 1
  BY DEF Aliases, ProviderAlias
<1>2. /\ \A x \in Shards(p) : x.component = "shard"
      /\ \A x \in Mongos(p) : x.component = "mongos"
      /\ ConfigServer(p).component = "configsvr"
  BY DEF Shards, Mongos, ConfigServer, Component
<1>3. CASE c = ConfigServer(p)
  BY <1>1, <1>2, <1>3 DEF AllComponents
<1>4. CASE c \in Shards(p)
  <2>1. d \in Shards(p)
    BY <1>1, <1>2, <1>4 DEF AllComponents
  <2>2. PICK i \in DOMAIN p.shards : c = Component("shard", p.shards[i].name, 0, p, p.shards[i])
    BY <1>4 DEF Shards
  <2>3. PICK j \in DOMAIN p.shards : d = Component("shard", p.shards[j].name, 0, p, p.shards[j])
    BY <2>1 DEF Shards
  <2>4. p.shards[i].name = p.shards[j].name
    BY <1>1, <2>2, <2>3 DEF Component
  <2>5. i = j
    BY <2>4 DEF Rejected, DuplicateRSNames
  <2> QED BY <2>2, <2>3, <2>5
<1>5. CASE c \in Mongos(p)
  <2>1. d \in Mongos(p)
    BY <1>1, <1>2, <1>5 DEF AllComponents
  <2> DEFINE off == Offsets(p.mongos)
             At(i) == Component("mongos", NoName, off[i], p, p.mongos[i])
  <2>2. PICK i \in DOMAIN p.mongos : c = At(i)
    BY <1>5 DEF Mongos
  <2>3. PICK j \in DOMAIN p.mongos : d = At(j)
    BY <2>1 DEF Mongos
  <2>4. /\ p.mongos \in Seq(RouterGroup) /\ DOMAIN p.mongos = 1 .. Len(p.mongos)
        /\ Len(p.mongos) \in Nat
    BY DEF Description
  <2>5. /\ c.offset = off[i] /\ c.members = p.mongos[i].members
        /\ d.offset = off[j] /\ d.members = p.mongos[j].members
    BY <2>2, <2>3 DEF Component
  <2>6. /\ off[i] \in Nat /\ off[j] \in Nat
        /\ i < j => off[i] + Len(p.mongos[i].members) <= off[j]
        /\ j < i => off[j] + Len(p.mongos[j].members) <= off[i]
    BY <2>4, OffsetsGrow
  <2>7. \A k \in DOMAIN p.mongos : Len(p.mongos[k].members) \in Nat
    <3>1. \A k \in DOMAIN p.mongos : p.mongos[k] \in RouterGroup
      BY <2>4
    <3>2. \A g \in RouterGroup : Len(g.members) \in Nat
      BY DEF RouterGroup
    <3> QED BY <3>1, <3>2
  <2> HIDE DEF off
  <2>8. PICK m \in 1 .. Len(p.mongos[i].members) : a.index = off[i] + m - 1
    BY <1>1, <2>5
  <2>9. PICK n \in 1 .. Len(p.mongos[j].members) : a.index = off[j] + n - 1
    BY <1>1, <2>5
  <2>10. ~(i < j) /\ ~(j < i)
    <3> DEFINE x == off[i]
               y == off[j]
               u == Len(p.mongos[i].members)
               v == Len(p.mongos[j].members)
    <3>1. x \in Nat /\ y \in Nat /\ u \in Nat /\ v \in Nat
      BY <2>6, <2>7
    <3>2. m \in 1 .. u /\ n \in 1 .. v /\ x + m - 1 = y + n - 1
      BY <2>8, <2>9
    <3>3. (i < j => x + u <= y) /\ (j < i => y + v <= x)
      BY <2>6
    <3> HIDE DEF x, y, u, v
    <3>4. ~(x + u <= y) /\ ~(y + v <= x)
      BY <3>1, <3>2
    <3> QED BY <3>3, <3>4
  <2>11. i = j
    BY <2>4, <2>10
  <2> QED BY <2>2, <2>3, <2>11
<1> QED BY <1>3, <1>4, <1>5 DEF AllComponents

---------------------------------------------------------------------------
(* Synthesis *)

\* At most one block is filed under an address.
OnePerAddress(blocks) == \A b, c \in blocks : Address(b) = Address(c) => b = c

\* Whatever blocks are lost, those that remain are blocks of the description,
\* one under each address.  (CDKTN-029)
LEMMA SynthKeepsOne ==
    ASSUME NEW blocks, NEW kept \in Synth(blocks)
    PROVE  kept \subseteq blocks /\ OnePerAddress(kept)
<1> DEFINE shared == Shared(blocks)
           taken == {Address(b) : b \in shared}
<1>1. PICK w \in [taken -> shared] :
         /\ \A a \in taken : Address(w[a]) = a
         /\ kept = (blocks \ shared) \cup {w[a] : a \in taken}
  BY DEF Synth
<1>2. shared \subseteq blocks /\ \A a \in taken : w[a] \in shared
  BY DEF Shared
<1>3. \A b \in blocks \ shared, c \in blocks : Address(b) = Address(c) => b = c
  BY DEF Shared
<1> HIDE DEF taken, shared
<1>4. \A b \in kept : b \in blocks \ shared \/ \E a \in taken : b = w[a]
  BY <1>1
<1>5. kept \subseteq blocks
  BY <1>2, <1>4
<1>6. ASSUME NEW b \in kept, NEW c \in kept, Address(b) = Address(c) PROVE b = c
  BY <1>1, <1>2, <1>3, <1>4, <1>5, <1>6
<1> QED BY <1>5, <1>6 DEF OnePerAddress

---------------------------------------------------------------------------
(* The inductive invariant *)

\* What is described is a description, edited in its ranges at most.
PropsInv ==
    /\ props \in Description
    /\ props \in Clusters \/ \E p \in Clusters : props = [p EXCEPT !.ranges = props.ranges]

\* What is applied was accepted, and consists of blocks of the description.
StackInv ==
    /\ pc \in {"described", "rejected", "panicked", "applying"}
    /\ pc = "applying" => ~Rejected(props)
    /\ stack \subseteq Blocks(props) /\ OnePerAddress(stack)

\* So does what is in state, old ranges apart.
StateInv ==
    /\ OnePerAddress(state)
    /\ \A b \in state : b.type \in Types /\ (b.type # "range" => b \in Blocks(props))

\* What the servers keep of a block, in the accounts, shards and zones given.
Lasts(b, keeper, as, ls, ts) ==
    /\ b.type \in {"role", "user"} => [keeper |-> keeper, type |-> b.type, name |-> b.item.name] \in as
    /\ b.type = "shard" => b.item.name \in ls
    /\ b.type = "zone" => \A z \in b.item.with : [name |-> b.item.name, zone |-> z] \in ts

\* What is in state has had its effect, and nobody takes it back.
EffectInv ==
    /\ \A b \in state : Lasts(b, Keeper(b.alias), accounts, listed, tagged)
    /\ primary \in [SetNames(props) -> Nat]
    /\ initiated \subseteq SetNames(props)
    /\ listed \subseteq ShardNames(props)

PlanInv == PropsInv /\ StackInv /\ StateInv /\ EffectInv

\* The edit of the key ranges is one.
LEMMA EditIsEdited ==
    ASSUME PropsInv, Edit
    PROVE  PropsInv' /\ Edited(props, props')
<1>1. props \in Description /\ Len(props.ranges) > 1 /\ props' = [props EXCEPT !.ranges = Tail(@)]
  BY DEF PropsInv, Edit
<1>2. Tail(props.ranges) \in Seq([namespace : Name, zone : Name, bounds : Nat])
  <2>1. props.ranges \in Seq([namespace : Name, zone : Name, bounds : Nat]) /\ props.ranges # <<>>
    BY <1>1 DEF Description
  <2> QED BY <2>1
<1>3. props' \in Description
  BY <1>1, <1>2 DEF Description
<1>4. \E p \in Clusters : props = [p EXCEPT !.ranges = props.ranges]
  BY DEF PropsInv, Description
<1>5. PICK p \in Clusters : props = [p EXCEPT !.ranges = props.ranges]
  BY <1>4
<1>6. p \in Description
  BY DescriptionsAssumption
<1>7. props' = [p EXCEPT !.ranges = props'.ranges]
  BY <1>1, <1>5, <1>6 DEF Description
<1>8. Edited(props, props')
  BY <1>1, <1>3 DEF Edited
<1> QED BY <1>3, <1>7, <1>8 DEF PropsInv

LEMMA PlanStart == Init => PlanInv
<1> SUFFICES ASSUME Init PROVE PlanInv
  OBVIOUS
<1>1. PropsInv
  BY DescriptionsAssumption DEF Init, PropsInv
<1>2. StackInv /\ StateInv
  BY DEF Init, StackInv, StateInv, OnePerAddress
<1>3. primary \in [SetNames(props) -> Nat]
  BY SizesAssumption DEF Init
<1>4. EffectInv
  BY <1>3 DEF Init, EffectInv, SetNames
<1> QED BY <1>1, <1>2, <1>4 DEF PlanInv

\* What was kept is kept: the servers only gain, and ranges leave no trace here.
LEMMA StillLasts ==
    ASSUME NEW b, NEW k, NEW as, NEW ls, NEW ts, Lasts(b, k, as, ls, ts),
           NEW as2, NEW ls2, NEW ts2, as \subseteq as2, ls \subseteq ls2, ts \subseteq ts2
    PROVE  Lasts(b, k, as2, ls2, ts2)
BY DEF Lasts

LEMMA ApplyKeeps ==
    ASSUME PlanInv, NEW b \in stack, Apply(b)
    PROVE  PlanInv'
<1>1. /\ pc = "applying" /\ b \in stack /\ ~InState(Address(b))
      /\ Effect(b) /\ state' = state \cup {b}
      /\ UNCHANGED <<props, pc, stack, primary>>
  BY DEF Apply, Ready
<1>2. b \in Blocks(props)
  BY DEF PlanInv, StackInv
<1>3. PropsInv' /\ StackInv'
  BY <1>1 DEF PlanInv, PropsInv, StackInv
<1>4. StateInv'
  <2>1. b.type \in Types
    BY <1>2, Origin
  <2>2. \A c \in state : Address(c) # Address(b)
    BY <1>1 DEF InState
  <2>3. OnePerAddress(state \cup {b})
    BY <2>2 DEF PlanInv, StateInv, OnePerAddress
  <2> QED BY <1>1, <1>2, <2>1, <2>3 DEF PlanInv, StateInv
<1>5. accounts \subseteq accounts' /\ listed \subseteq listed' /\ tagged \subseteq tagged'
  BY <1>1 DEF Effect
<1>6. \A a : Keeper(a)' = Keeper(a)
  BY <1>1 DEF Keeper
<1>7. Lasts(b, Keeper(b.alias), accounts', listed', tagged')
  BY <1>1 DEF Effect, Lasts, Account
<1>8. ASSUME NEW c \in state' PROVE Lasts(c, Keeper(c.alias)', accounts', listed', tagged')
  <2>1. CASE c = b
    BY <1>6, <1>7, <2>1
  <2>2. CASE c \in state
    <3>1. Lasts(c, Keeper(c.alias), accounts, listed, tagged)
      BY <2>2 DEF PlanInv, EffectInv
    <3>2. Lasts(c, Keeper(c.alias), accounts', listed', tagged')
      BY <3>1, <1>5, StillLasts
    <3> QED BY <1>6, <3>2
  <2> QED BY <1>1, <2>1, <2>2
<1>9. initiated' \subseteq SetNames(props)
  <2>1. b.type = "config" => b.item.name \in SetNames(props)
    BY <1>2, Origin
  <2> QED BY <1>1, <2>1 DEF Effect, PlanInv, EffectInv
<1>10. listed' \subseteq ShardNames(props)
  <2>1. b.type = "shard" => b \in Registered(props)
    BY <1>2, Origin
  <2>2. b.type = "shard" => b.item.name \in ShardNames(props)
    BY <2>1, Built DEF Registered
  <2> QED BY <1>1, <2>2 DEF Effect, PlanInv, EffectInv
<1>11. SetNames(props)' = SetNames(props) /\ ShardNames(props)' = ShardNames(props)
  BY <1>1
<1>12. primary' \in [SetNames(props)' -> Nat]
  BY <1>1, <1>11 DEF PlanInv, EffectInv
<1>13. EffectInv'
  BY <1>8, <1>9, <1>10, <1>11, <1>12 DEF EffectInv
<1> QED BY <1>3, <1>4, <1>13 DEF PlanInv

\* Blocks leave the state, and with them at most a range.
LEMMA LeavingKeeps ==
    ASSUME PlanInv, state' \subseteq state,
           UNCHANGED <<props, pc, stack, primary, accounts, initiated, listed, tagged>>
    PROVE  PlanInv'
<1>1. PropsInv' /\ StackInv'
  BY DEF PlanInv, PropsInv, StackInv
<1>2. StateInv'
  BY DEF PlanInv, StateInv, OnePerAddress
<1>3. \A a : Keeper(a)' = Keeper(a)
  BY DEF Keeper
<1>4. \A b \in state' : Lasts(b, Keeper(b.alias)', accounts', listed', tagged')
  BY <1>3 DEF PlanInv, EffectInv
<1>5. EffectInv'
  BY <1>4 DEF PlanInv, EffectInv
<1> QED BY <1>1, <1>2, <1>5 DEF PlanInv

LEMMA GenerateKeeps ==
    ASSUME PlanInv, Generate
    PROVE  PlanInv'
<1>1. UNCHANGED <<props, state, primary, accounts, initiated, listed, tagged>>
  BY DEF Generate, servers
<1>2. PropsInv' /\ StateInv'
  BY <1>1 DEF PlanInv, PropsInv, StateInv
<1>3. StackInv'
  <2>1. CASE Rejected(props) \/ Panics(props)
    BY <1>1, <2>1 DEF Generate, PlanInv, StackInv
  <2>2. CASE ~Rejected(props) /\ ~Panics(props)
    <3>1. pc' = "applying" /\ stack' \in Synth(Blocks(props))
      BY <2>2 DEF Generate
    <3>2. stack' \subseteq Blocks(props) /\ OnePerAddress(stack')
      BY <3>1, SynthKeepsOne
    <3> QED BY <1>1, <2>2, <3>1, <3>2 DEF StackInv
  <2> QED BY <2>1, <2>2
<1>4. \A a : Keeper(a)' = Keeper(a)
  BY <1>1 DEF Keeper
<1>5. EffectInv'
  BY <1>1, <1>4 DEF PlanInv, EffectInv
<1> QED BY <1>2, <1>3, <1>5 DEF PlanInv

\* Generated again, the configuration keeps all blocks but ranges.
LEMMA EditKeeps ==
    ASSUME PlanInv, Edit
    PROVE  PlanInv'
<1>1. /\ pc = "applying" /\ stack' \in Synth(Blocks(props'))
      /\ UNCHANGED <<pc, state, primary, accounts, initiated, listed, tagged>>
  BY DEF Edit, servers
<1>2. PropsInv' /\ Edited(props, props') /\ props \in Description
  BY EditIsEdited DEF PlanInv, PropsInv
<1>3. /\ Rejected(props') = Rejected(props) /\ SetNames(props') = SetNames(props)
      /\ ShardNames(props') = ShardNames(props) /\ props'.config = props.config
  BY <1>2, EditedComponents, EditedFields
<1>4. StackInv'
  <2>1. stack' \subseteq Blocks(props') /\ OnePerAddress(stack')
    BY <1>1, SynthKeepsOne
  <2>2. ~Rejected(props')
    BY <1>1, <1>3 DEF PlanInv, StackInv
  <2> QED BY <1>1, <2>1, <2>2 DEF StackInv
<1>5. StateInv'
  <2>1. \A b \in Blocks(props) : b.type # "range" => b \in Blocks(props')
    BY <1>2, EditedBlocks
  <2> QED BY <1>1, <2>1 DEF PlanInv, StateInv
<1>6. \A a : Keeper(a)' = Keeper(a)
  BY <1>3 DEF Keeper
<1>7. EffectInv'
  BY <1>1, <1>3, <1>6 DEF PlanInv, EffectInv
<1> QED BY <1>2, <1>4, <1>5, <1>7 DEF PlanInv

LEMMA PlanStep == PlanInv /\ [Next]_vars => PlanInv'
<1> SUFFICES ASSUME PlanInv, [Next]_vars PROVE PlanInv'
  OBVIOUS
<1>1. CASE Generate
  BY <1>1, GenerateKeeps
<1>2. CASE Refresh
  BY <1>2, LeavingKeeps DEF Refresh, servers
<1>3. CASE \E b \in stack : Apply(b)
  BY <1>3, ApplyKeeps
<1>4. CASE \E b \in state : Destroy(b)
  BY <1>4, LeavingKeeps DEF Destroy
<1>5. CASE Edit
  BY <1>5, EditKeeps
<1>6. CASE UNCHANGED vars
  BY <1>6, LeavingKeeps DEF vars, servers
<1> QED BY <1>1, <1>2, <1>3, <1>4, <1>5, <1>6 DEF Next, Terraform

LEMMA PlanAlways == Spec => []PlanInv
BY PlanStart, PlanStep, PTL DEF Spec

\* The configuration and Terraform state file one block under one address;
\* what is initiated and listed comes from the description.  (CDKTN-029)
THEOREM ClusterPlanTyped == Spec => []TypeOK
<1>1. PlanInv => TypeOK
  <2> SUFFICES ASSUME PlanInv PROVE TypeOK
    OBVIOUS
  <2>1. \A b \in stack : b.type \in Types
    BY Origin DEF PlanInv, StackInv
  <2> QED BY <2>1 DEF TypeOK, PlanInv, PropsInv, StackInv, StateInv, EffectInv, OnePerAddress
<1> QED BY <1>1, PlanAlways, PTL

---------------------------------------------------------------------------
(* depends_on is enough *)

\* As long as no block is lost, a block that another waits for is the one the
\* state files under its address.
LEMMA AwaitedIsInState ==
    ASSUME PlanInv, stack = Blocks(props), NEW b \in stack, Ready(b),
           NEW s \in Blocks(props), s.type # "range", Address(s) \in b.deps
    PROVE  s \in state
<1>1. PICK t \in state : Address(t) = Address(s)
  BY DEF Ready, InState
<1>2. t.type = s.type
  BY <1>1 DEF Address
<1>3. t \in stack
  BY <1>2 DEF PlanInv, StateInv
<1>4. t = s
  BY <1>1, <1>3 DEF PlanInv, StackInv, OnePerAddress
<1> QED BY <1>4

\* A role a user waits for exists where the user will be created.
LEMMA AwaitedRoleExists ==
    ASSUME PlanInv, stack = Blocks(props), NEW b \in stack, Ready(b), NEW r,
           RoleBlock(b.alias, r) \in Blocks(props), Address(RoleBlock(b.alias, r)) \in b.deps
    PROVE  [keeper |-> Keeper(b.alias), type |-> "role", name |-> r.name] \in accounts
<1> DEFINE role == RoleBlock(b.alias, r)
<1>1. role.type = "role" /\ role.alias = b.alias /\ role.item = r
  BY DEF RoleBlock, Block
<1> HIDE DEF role
<1>2. role \in state
  BY <1>1, AwaitedIsInState DEF role
<1>3. Lasts(role, Keeper(role.alias), accounts, listed, tagged)
  BY <1>2 DEF PlanInv, EffectInv
<1> QED BY <1>1, <1>3 DEF Lasts

LEMMA UserFindsRoles ==
    ASSUME PlanInv, stack = Blocks(props), NEW b \in stack, Ready(b), b.type = "user",
           b.item.with \subseteq {r.name : r \in LevelRoles(b)}
    PROVE  RolesFor(b) \subseteq accounts
<1>1. props \in Description /\ ~Rejected(props) /\ b \in Blocks(props)
  BY DEF PlanInv, PropsInv, StackInv, Ready
<1>2. SUFFICES ASSUME NEW r \in LevelRoles(b)
               PROVE  [keeper |-> Keeper(b.alias), type |-> "role", name |-> r.name] \in accounts
  BY DEF RolesFor
<1>3. CASE \E c \in AllComponents(props) : b \in BuildUsers(Aliases(c), c.users, c.roles)
  <2>1. PICK c \in AllComponents(props) : b \in BuildUsers(Aliases(c), c.users, c.roles)
    BY <1>3
  <2>2. b.alias \in Aliases(c) /\ b.deps = {Address(RoleBlock(b.alias, x)) : x \in c.roles}
    BY <2>1 DEF BuildUsers, Block
  <2>3. props.roles \subseteq c.roles
    BY DEF AllComponents, Mongos, Shards, ConfigServer, Component, MergeRoles
  <2>4. \A d \in AllComponents(props) : b.alias \in Aliases(d) => d = c
    BY <1>1, <2>2, OneComponentPerAlias
  <2>5. r \in c.roles
    BY <2>3, <2>4 DEF LevelRoles
  <2>6. RoleBlock(b.alias, r) \in BuildRoles(Aliases(c), c.roles)
    BY <2>2, <2>5 DEF BuildRoles
  <2>7. RoleBlock(b.alias, r) \in Blocks(props)
    BY <2>6, RolesAreBlocks
  <2> QED BY <2>2, <2>5, <2>7, AwaitedRoleExists
<1>4. CASE props.users # {} /\ b \in BuildUsers(ClusterUserTargets(props), props.users, props.roles)
  <2>1. /\ b.alias \in ClusterUserTargets(props) /\ b.item \in props.users
        /\ b.deps = {Address(RoleBlock(b.alias, x)) : x \in props.roles}
    BY <1>4 DEF BuildUsers, Block
  <2>2. r \in props.roles
    BY <2>1 DEF LevelRoles
  <2>3. RoleBlock(b.alias, r) \in BuildRoles(ClusterUserTargets(props), props.roles)
    BY <2>1, <2>2 DEF BuildRoles
  <2>4. RoleBlock(b.alias, r) \in Blocks(props)
    BY <1>4, <2>3, RolesAreBlocks
  <2> QED BY <2>1, <2>2, <2>4, AwaitedRoleExists
<1> QED BY <1>1, <1>3, <1>4, Origin

LEMMA ZoneFindsShard ==
    ASSUME PlanInv, stack = Blocks(props), NEW b \in stack, Ready(b), b.type = "zone",
           props.register, b.item.name \in ShardNames(props)
    PROVE  b.item.name \in listed
<1>1. b \in ZonesOf(props)
  BY Origin DEF PlanInv, StackInv
<1>2. b.deps = RefsOf(Registered(props))
  BY <1>1, Built DEF ZonesOf
<1> DEFINE s == Block("shard", NoAlias, Sanitize(b.item.name), 0, Plain(b.item.name), {})
<1>3. s \in Registered(props)
  BY DEF Registered, BuildShardRegistrations
<1>4. s.type = "shard" /\ s.item.name = b.item.name
  BY DEF Block, Plain, Item
<1> HIDE DEF s
<1>5. Address(s) \in b.deps /\ s \in Blocks(props)
  BY <1>2, <1>3, RolesAreBlocks DEF RefsOf
<1>6. s \in state
  BY <1>4, <1>5, AwaitedIsInState
<1>7. Lasts(s, Keeper(s.alias), accounts, listed, tagged)
  BY <1>6 DEF PlanInv, EffectInv
<1> QED BY <1>4, <1>7 DEF Lasts

LEMMA RangeFindsZone ==
    ASSUME PlanInv, stack = Blocks(props), NEW b \in stack, Ready(b), b.type = "range",
           NEW z \in props.zones, z.zone = b.item.name
    PROVE  \E t \in tagged : t.zone = b.item.name
<1>1. b \in BuildZoneKeyRanges(props.ranges, RefsOf(ZonesOf(props)))
  BY Origin DEF PlanInv, StackInv
<1>2. b.deps = RefsOf(ZonesOf(props))
  BY <1>1, Built
<1> DEFINE s == Block("zone", NoAlias, Sanitize(z.name) \o Sanitize(z.zone), 0,
                      Item(z.name, {z.zone}), RefsOf(Registered(props)))
<1>3. s \in ZonesOf(props)
  BY DEF ZonesOf, BuildShardZones
<1>4. s.type = "zone" /\ s.item.name = z.name /\ s.item.with = {z.zone}
  BY DEF Block, Item
<1> HIDE DEF s
<1>5. Address(s) \in b.deps /\ s \in Blocks(props)
  BY <1>2, <1>3, RolesAreBlocks DEF RefsOf
<1>6. s \in state
  BY <1>4, <1>5, AwaitedIsInState
<1>7. Lasts(s, Keeper(s.alias), accounts, listed, tagged)
  BY <1>6 DEF PlanInv, EffectInv
<1>8. [name |-> z.name, zone |-> z.zone] \in tagged
  BY <1>4, <1>7 DEF Lasts
<1>9. [name |-> z.name, zone |-> z.zone].zone = b.item.name
  OBVIOUS
<1> QED BY <1>8, <1>9

\* In whatever order Terraform applies a configuration that has lost no block,
\* a block whose dependencies are in state finds its roles, its shard, its
\* zone.  (CDKTN-013, CLUS-002, ZONE-017)
THEOREM OrderIsEnough == Spec => []DependenciesSuffice
<1>1. PlanInv => DependenciesSuffice
  <2> SUFFICES ASSUME PlanInv, stack = Blocks(props), NEW b \in stack, Ready(b)
      PROVE  /\ b.type = "user" /\ b.item.with \subseteq {r.name : r \in LevelRoles(b)}
                    => RolesFor(b) \subseteq accounts
             /\ b.type = "zone" /\ props.register /\ b.item.name \in ShardNames(props)
                    => b.item.name \in listed
             /\ b.type = "range" /\ (\E z \in props.zones : z.zone = b.item.name)
                    => \E t \in tagged : t.zone = b.item.name
    BY DEF DependenciesSuffice
  <2> QED BY UserFindsRoles, ZoneFindsShard, RangeFindsZone
<1> QED BY <1>1, PlanAlways, PTL
=============================================================================
