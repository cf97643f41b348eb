--------------------------- MODULE MCClusterPlan ---------------------------
EXTENDS ClusterPlan

N(a, b) == [words |-> <<a, b>>, sep |-> "-"]
W(a)    == [words |-> <<a>>, sep |-> ""]
Pair(h, port) == <<[host |-> h \o "1", port |-> port], [host |-> h \o "2", port |-> port]>>

Set(name, members, users, roles, originals) ==
    [name |-> name, members |-> members, users |-> users, roles |-> roles, originals |-> originals]
Group(members, users, roles, originals) ==
    [members |-> members, users |-> users, roles |-> roles, originals |-> originals]

Config == Set(W("cfg"), Pair("c", 27019), {}, {}, {})
Shard(name) == Set(name, Pair("s", 27018), {}, {}, {})
Router(n) == Group(SubSeq(Pair("m", 27017), 1, n), {}, {}, {})

Bare ==
    [mongos |-> <<Router(1)>>, config |-> Config, shards |-> <<Shard(N("rs", "0"))>>,
     users |-> {}, roles |-> {}, originals |-> {}, register |-> FALSE, zones |-> {},
     ranges |-> <<>>, balancer |-> FALSE, collections |-> {}, profilers |-> {},
     parameters |-> {}, fcv |-> FALSE]

R  == Plain(W("r"))
Q  == Plain(W("q"))
UR == Item(W("u"), {W("r")})
UQ == Item(W("v"), {W("q")})
Zone(n, z) == [name |-> n, zone |-> z]
KeyRange(ns, z, b) == [namespace |-> ns, zone |-> z, bounds |-> b]

\* Roles and users at both levels, one cluster-level user with a shard's role.
Levels == [Bare EXCEPT !.users = {UR, UQ}, !.roles = {R},
              !.shards = <<Set(N("rs", "0"), Pair("s", 0), {Item(W("w"), {W("q")})}, {Q}, {})>>]
\* Roles the config servers and two groups of mongos write to one place.
Contention == [Bare EXCEPT
    !.config = Set(W("cfg"), Pair("c", 27019), {UR}, {R}, {}),
    !.mongos = <<Group(SubSeq(Pair("m", 27017), 1, 1), {UQ}, {Q}, {}),
                 Group(<<[host |-> "m9", port |-> 0]>>, {Item(W("w"), {W("r")})}, {R}, {})>>]
\* A name and its twin.
Twins == [Bare EXCEPT !.register = TRUE,
    !.shards = <<Shard(N("rs", "0")), Shard([N("rs", "0") EXCEPT !.sep = "_"])>>,
    !.zones = {Zone(N("rs", "0"), N("eu", "1")), Zone(N("rs", "0"), [N("eu", "1") EXCEPT !.sep = "_"])}]
\* Shards, zones and ranges; and a registration without a port.
Zoned(first, second) == [Bare EXCEPT !.register = TRUE, !.balancer = TRUE,
    !.shards = <<Shard(W("a")), Shard(W("b"))>>,
    !.zones = {Zone(W("a"), W("eu")), Zone(W("b"), W("us"))},
    !.ranges = <<KeyRange(W("d"), first, 1), KeyRange(W("d"), second, 2), KeyRange(W("e"), second, 3)>>]
Unregistered == [Bare EXCEPT !.zones = {Zone(N("rs", "0"), W("eu"))}, !.collections = {W("d")},
    !.ranges = <<KeyRange(W("d"), W("eu"), 1)>>]
NoPort == [Bare EXCEPT !.register = TRUE,
    !.shards = <<Set(W("a"), Pair("s", 0), {}, {}, {}), Shard(W("b"))>>,
    !.zones = {Zone(W("a"), W("eu")), Zone(W("b"), W("us"))}]
\* The blocks that wait for nothing.
Extras == [Bare EXCEPT !.originals = {UR}, !.profilers = {W("d")}, !.fcv = TRUE,
    !.mongos = <<Router(1), Router(0)>>]
Parameters == [Bare EXCEPT !.parameters = {W("p")}, !.mongos = <<Router(2)>>,
    !.shards = <<Set(N("rs", "0"), Pair("s", 27018), {}, {}, {UR})>>]

Bad == {
    [Bare EXCEPT !.mongos = <<>>], [Bare EXCEPT !.shards = <<>>],
    [Bare EXCEPT !.shards = <<Shard(W("cfg"))>>],
    [Bare EXCEPT !.shards = <<Shard(W("a")), Shard(W("a"))>>],
    [Bare EXCEPT !.shards = <<Shard(NoName)>>],
    [Bare EXCEPT !.config = Set(W("cfg"), SubSeq(Pair("c", 0), 1, 1), {}, {}, {})],
    [Bare EXCEPT !.mongos = <<Group([i \in 1 .. 3 |-> [host |-> "m", port |-> i]], {}, {}, {})>>],
    [Bare EXCEPT !.shards = <<Set(W("a"), [i \in 1 .. 2 |-> [host |-> "s", port |-> 0]], {}, {}, {})>>],
    [Bare EXCEPT !.mongos = <<Router(0), Router(1)>>],
    [Bare EXCEPT !.mongos = <<Router(1), Group(<<>>, {}, {}, {UR})>>]}

MCClusters == Bad \cup
    {Levels, Contention, Twins, Zoned(W("eu"), W("us")), Zoned(W("us"), W("us")),
     Unregistered, NoPort, Extras, Parameters}
=============================================================================
