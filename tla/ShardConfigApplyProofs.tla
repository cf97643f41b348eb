----------------------- MODULE ShardConfigApplyProofs -----------------------
(***************************************************************************)
(* Lemmas about the operators of ReplicaSetConfig, and theorems about      *)
(* ShardConfigApply: type correctness, what state says of the server, what *)
(* an apply that reports success has done, and how few steps it can take.  *)
(* For every set of hosts, every plan, every initial configuration and     *)
(* every bound.                                                            *)
(***************************************************************************)
EXTENDS ShardConfigApply, FiniteSetTheorems, WellFoundedInduction, TLAPS

\* A member list whose ids have an upper bound: what NextMemberID needs.
BoundedIds(members) == \E b \in Nat : \A m \in members : m.id <= b

---------------------------------------------------------------------------
(* Minimum and maximum *)

\* A non-empty set of naturals has a least element, and Min is it.
LEMMA MinIsLeast ==
    ASSUME NEW S \in SUBSET Nat, S # {}
    PROVE  Min(S) \in S /\ \A y \in S : Min(S) <= y
<1>1. PICK x \in S : \A y \in S : ~(<<y, x>> \in OpToRel(<, Nat))
  BY WFMin, NatLessThanWellFounded
<1>2. \A y \in S : x <= y
  <2> SUFFICES ASSUME NEW y \in S PROVE x <= y
    OBVIOUS
  <2>1. ~(<<y, x>> \in OpToRel(<, Nat))
    BY <1>1
  <2>2. ~(y < x)
    BY <2>1 DEF OpToRel
  <2> QED BY <2>2
<1> QED BY <1>2 DEF Min

\* A non-empty set of naturals with an upper bound has a greatest element.
LEMMA MaxIsGreatest ==
    ASSUME NEW S \in SUBSET Nat, S # {}, NEW b \in Nat, \A y \in S : y <= b
    PROVE  Max(S) \in S /\ \A y \in S : y <= Max(S)
<1> DEFINE U == {u \in Nat : \A y \in S : y <= u}
<1>1. U # {} /\ U \in SUBSET Nat
  OBVIOUS
<1> DEFINE top == Min(U)
<1>2. top \in U /\ \A u \in U : top <= u
  BY <1>1, MinIsLeast
<1>3. top \in S
  <2> SUFFICES ASSUME top \notin S PROVE FALSE
    OBVIOUS
  <2>1. top \in Nat /\ \A y \in S : y <= top
    BY <1>2
  <2>2. PICK z \in S : TRUE
    OBVIOUS
  <2>3. top # 0 /\ top - 1 \in Nat
    BY <2>1, <2>2
  <2>4. \A y \in S : y <= top - 1
    BY <2>1, <2>3
  <2>5. top - 1 \in U
    BY <2>3, <2>4
  <2> HIDE DEF top
  <2> QED BY <2>5, <1>2, <2>1
<1>4. \A y \in S : top >= y
  BY <1>2
<1> QED BY <1>3, <1>4 DEF Max

\* The ids of a finite member list have an upper bound.
LEMMA FiniteMembersBounded ==
    ASSUME NEW members \in SUBSET Member, IsFiniteSet(members)
    PROVE  BoundedIds(members)
<1>1. PICK n \in Nat : ExistsBijection(1..n, members)
  BY FS_NatBijection
<1>2. PICK f : f \in Bijection(1..n, members)
  BY <1>1 DEF ExistsBijection
<1>3. /\ f \in [1..n -> members]
      /\ \A m \in members : \E i \in 1..n : f[i] = m
  BY <1>2 DEF Bijection, Surjection, Injection
<1> DEFINE Good(k) == \E b \in Nat : \A i \in 1..k : f[i].id <= b
           Bad == {k \in 0..n : ~Good(k)}
<1>4. Bad = {}
  <2> SUFFICES ASSUME Bad # {} PROVE FALSE
    OBVIOUS
  <2> DEFINE k == Min(Bad)
  <2>1. k \in Bad /\ \A j \in Bad : k <= j
    <3>1. Bad \in SUBSET Nat
      OBVIOUS
    <3> HIDE DEF Bad
    <3> QED BY <3>1, MinIsLeast
  <2> HIDE DEF k
  <2>2. k # 0
    <3>1. Good(0)
      OBVIOUS
    <3> QED BY <3>1, <2>1
  <2>3. k - 1 \in 0..n /\ k - 1 \notin Bad /\ k \in 1..n
    <3>1. k \in 0..n
      BY <2>1
    <3>2. k - 1 \in 0..n /\ k \in 1..n /\ ~(k <= k - 1)
      BY <3>1, <2>2
    <3> HIDE DEF Bad
    <3> QED BY <3>2, <2>1
  <2>4. PICK b \in Nat : \A i \in 1..(k - 1) : f[i].id <= b
    BY <2>3
  <2>5. f[k].id \in Nat
    BY <2>3, <1>3 DEF Member
  <2>6. PICK c \in Nat : b <= c /\ f[k].id <= c
    <3>1. CASE b <= f[k].id
      BY <3>1, <2>5
    <3>2. CASE ~(b <= f[k].id)
      BY <3>2, <2>5
    <3> QED BY <3>1, <3>2
  <2>7. \A i \in 1..k : f[i].id <= c
    <3> SUFFICES ASSUME NEW i \in 1..k PROVE f[i].id <= c
      OBVIOUS
    <3>1. CASE i = k
      BY <3>1, <2>6
    <3>2. CASE i # k
      <4>1. i \in 1..(k - 1) /\ i \in 1..n
        BY <3>2, <2>3
      <4>2. f[i].id \in Nat
        BY <4>1, <1>3 DEF Member
      <4> QED BY <4>1, <4>2, <2>4, <2>6
    <3> QED BY <3>1, <3>2
  <2> QED BY <2>7, <2>1
<1>5. Good(n)
  <2>1. n \in 0..n /\ n \notin Bad
    BY <1>4
  <2> HIDE DEF Good
  <2> QED BY <2>1
<1>6. PICK b \in Nat : \A i \in 1..n : f[i].id <= b
  BY <1>5
<1> QED BY <1>6, <1>3 DEF BoundedIds

---------------------------------------------------------------------------
(* Adding a member *)

\* The _id of the next member is a natural number above every _id in use,
\* gaps or not.  (SHARD-014)
LEMMA NextMemberIDIsFresh ==
    ASSUME NEW members \in SUBSET Member, BoundedIds(members)
    PROVE  /\ NextMemberID(members) \in Nat
           /\ \A m \in members : m.id < NextMemberID(members)
<1>1. CASE members = {}
  BY <1>1 DEF NextMemberID
<1>2. CASE members # {}
  <2> DEFINE ids == {m.id : m \in members}
  <2>1. ids \in SUBSET Nat /\ ids # {}
    BY <1>2 DEF Member
  <2>2. PICK b \in Nat : \A m \in members : m.id <= b
    BY DEF BoundedIds
  <2>3. \A y \in ids : y <= b
    BY <2>2
  <2>4. \A m \in members : m.id \in ids
    OBVIOUS
  <2>5. Max(ids) \in ids /\ \A y \in ids : y <= Max(ids)
    <3> HIDE DEF ids
    <3> QED BY <2>1, <2>3, MaxIsGreatest
  <2>6. NextMemberID(members) = Max(ids) + 1
    BY <1>2 DEF NextMemberID
  <2> HIDE DEF ids
  <2>7. Max(ids) \in Nat
    BY <2>1, <2>5
  <2>8. \A m \in members : m.id \in Nat /\ m.id <= Max(ids)
    BY <2>1, <2>4, <2>5
  <2> QED BY <2>6, <2>7, <2>8
<1> QED BY <1>1, <1>2

\* The member an add sends is well typed, carries the block's host, and is
\* a data-bearing voter under no circumstances.  (SHARD-022)
LEMMA StagedMemberHasNoDataVote ==
    ASSUME NEW b \in Block, NEW id \in Nat
    PROVE  /\ StagedMember(b, id) \in Member
           /\ StagedMember(b, id).host = b.host
           /\ StagedMember(b, id).id = id
           /\ StagedMember(b, id).arbiter \/ StagedMember(b, id).votes = 0
<1>1. CASE b.arbiter
  BY <1>1 DEF StagedMember, BuildConfigMember, Block, Member
<1>2. CASE ~b.arbiter
  <2> DEFINE c == [b EXCEPT !.votes = 0, !.priority = 0]
  <2>1. c \in Block /\ c.host = b.host /\ c.votes = 0
    BY DEF Block
  <2>2. StagedMember(b, id) = BuildConfigMember(c, id)
    BY <1>2 DEF StagedMember
  <2> HIDE DEF c
  <2> QED BY <2>1, <2>2 DEF BuildConfigMember, Block, Member
<1> QED BY <1>1, <1>2 DEF Block

---------------------------------------------------------------------------
(* The blocks and the merge *)

\* Extraction keeps a block list a block list, and keeps the hosts.
LEMMA ExtractTyping ==
    ASSUME NEW list \in Seq(Block)
    PROVE  /\ ExtractMemberOverrides(list) \in Seq(Block)
           /\ DOMAIN ExtractMemberOverrides(list) = DOMAIN list
<1>1. \A i \in DOMAIN list : ExtractOverride(list[i]) \in Block
  <2> SUFFICES ASSUME NEW i \in DOMAIN list PROVE ExtractOverride(list[i]) \in Block
    OBVIOUS
  <2> DEFINE b == list[i]
  <2>1. b \in Block
    OBVIOUS
  <2> HIDE DEF b
  <2>2. [b EXCEPT !.priority = 0] \in Block
    BY <2>1 DEF Block
  <2>3. ExtractOverride(b) \in Block
    BY <2>1, <2>2 DEF ExtractOverride
  <2> QED BY <2>3 DEF b
<1>2. Len(list) \in Nat /\ DOMAIN list = 1..Len(list)
  OBVIOUS
<1>3. ExtractMemberOverrides(list) \in [1..Len(list) -> Block]
  BY <1>1, <1>2 DEF ExtractMemberOverrides
<1> QED BY <1>2, <1>3

\* The blocks to add and to promote are blocks, they are indices in Nat, and
\* no block is both; a block to add names a host outside the set.  (SHARD-012)
LEMMA PartitionIsDisjoint ==
    ASSUME NEW members, NEW bs \in Seq(Block)
    PROVE  /\ MissingBlocks(members, bs) \subseteq DOMAIN bs
           /\ PromotingBlocks(members, bs) \subseteq DOMAIN bs
           /\ DOMAIN bs \subseteq Nat
           /\ MissingBlocks(members, bs) \cap PromotingBlocks(members, bs) = {}
           /\ \A i \in MissingBlocks(members, bs) : bs[i].host \notin HostsOf(members)
<1>1. DOMAIN bs = 1..Len(bs) /\ Len(bs) \in Nat
  OBVIOUS
<1> QED BY <1>1 DEF MissingBlocks, PromotingBlocks, HostsOf

\* The block MergeMembers picks for a host is a block, and of that host.
LEMMA BlockOfFinds ==
    ASSUME NEW bs \in Seq(Block), NEW h \in HostsOf(Rows(bs))
    PROVE  BlockOf(bs, h) \in Block /\ BlockOf(bs, h).host = h
<1>1. PICK i \in DOMAIN bs : bs[i].host = h
  BY DEF HostsOf, Rows
<1> DEFINE j == CHOOSE k \in DOMAIN bs : bs[k].host = h
<1>2. j \in DOMAIN bs /\ bs[j].host = h
  BY <1>1
<1>3. BlockOf(bs, h) = bs[j]
  BY DEF BlockOf
<1> HIDE DEF j
<1>4. bs[j] \in Block
  BY <1>2
<1> QED BY <1>2, <1>3, <1>4

\* What the merge makes of one member.
MergedMember(m, bs) ==
    IF m.host \in HostsOf(Rows(bs))
    THEN LET b == BlockOf(bs, m.host) IN MergeMember(m, HoldPromotion(m, b))
    ELSE m

\* The merge of one member keeps its host, its _id, and never raises its
\* votes.  (SHARD-005, SHARD-023)
LEMMA MergedMemberKeeps ==
    ASSUME NEW m \in Member, NEW bs \in Seq(Block)
    PROVE  /\ MergedMember(m, bs) \in Member
           /\ MergedMember(m, bs).host = m.host
           /\ MergedMember(m, bs).id = m.id
           /\ MergedMember(m, bs).votes <= m.votes
<1>1. CASE m.host \in HostsOf(Rows(bs))
  <2> DEFINE b == BlockOf(bs, m.host)
             held == HoldPromotion(m, b)
  <2>1. b \in Block
    BY <1>1, BlockOfFinds
  <2> HIDE DEF b
  <2>2. held \in Block /\ held.votes <= m.votes
    <3> DEFINE pinned == [b EXCEPT !.votes = m.votes, !.priority = m.priority]
    <3>1. CASE b.votes > m.votes
      <4>1. m.votes \in {0, 1} /\ m.priority \in {0, 1}
        BY DEF Member
      <4>2. pinned \in Block /\ pinned.votes = m.votes
        BY <4>1, <2>1 DEF Block
      <4>3. held = pinned
        BY <3>1 DEF HoldPromotion
      <4> HIDE DEF held, pinned
      <4> QED BY <4>1, <4>2, <4>3
    <3>2. CASE ~(b.votes > m.votes)
      BY <3>2, <2>1 DEF HoldPromotion, Block, Member
    <3> QED BY <3>1, <3>2
  <2>3. MergedMember(m, bs) = MergeMember(m, held)
    BY <1>1 DEF MergedMember, b
  <2> HIDE DEF held
  <2> QED BY <2>2, <2>3 DEF MergeMember, Block, Member
<1>2. CASE m.host \notin HostsOf(Rows(bs))
  BY <1>2 DEF MergedMember, Member
<1> QED BY <1>1, <1>2

\* The merged list is the merge of each member, one for one by host.
LEMMA MergeMembersKeeps ==
    ASSUME NEW members \in SUBSET Member, NEW bs \in Seq(Block)
    PROVE  /\ MergeMembers(members, bs) \in SUBSET Member
           /\ HostsOf(MergeMembers(members, bs)) = HostsOf(members)
           /\ \A k \in MergeMembers(members, bs) :
                 \E m \in members : m.host = k.host /\ m.id = k.id /\ k.votes <= m.votes
           /\ BoundedIds(members) => BoundedIds(MergeMembers(members, bs))
<1>1. MergeMembers(members, bs) = {MergedMember(m, bs) : m \in members}
  BY DEF MergeMembers, MergedMember
<1>2. \A m \in members : /\ MergedMember(m, bs) \in Member
                         /\ MergedMember(m, bs).host = m.host
                         /\ MergedMember(m, bs).id = m.id
                         /\ MergedMember(m, bs).votes <= m.votes
  BY MergedMemberKeeps
<1>3. MergeMembers(members, bs) \in SUBSET Member
  BY <1>1, <1>2
<1>4. HostsOf(MergeMembers(members, bs)) = HostsOf(members)
  BY <1>1, <1>2 DEF HostsOf
<1>5. \A k \in MergeMembers(members, bs) :
         \E m \in members : m.host = k.host /\ m.id = k.id /\ k.votes <= m.votes
  BY <1>1, <1>2
<1>6. ASSUME BoundedIds(members) PROVE BoundedIds(MergeMembers(members, bs))
  <2>1. PICK b \in Nat : \A m \in members : m.id <= b
    BY <1>6 DEF BoundedIds
  <2>2. \A k \in MergeMembers(members, bs) : k.id <= b
    BY <2>1, <1>5
  <2> QED BY <2>2 DEF BoundedIds
<1> QED BY <1>3, <1>4, <1>5, <1>6

---------------------------------------------------------------------------
(* Type correctness *)

\* TypeOK is not inductive: an add needs an _id above those in use, and the
\* reconfigs of the member phase need the block they are for.
ServerTyped ==
    installed \in Config /\ BoundedIds(installed.members) /\ node \in [Hosts -> NodeStates]

SentTyped == cfg \in Config /\ BoundedIds(cfg.members)

DataTyped ==
    data \in [tracked : BOOLEAN, settings : SettingsValues, members : SUBSET Block]

PlaceTyped ==
    /\ pc \in Locations
    /\ blocks \in Seq(Block)
    /\ op \in {"settings", "promote", "add", "remove"}
    /\ promotions \subseteq DOMAIN blocks
    /\ adds \subseteq DOMAIN blocks
    /\ cur \in Nat
    /\ pc \in {"wait", "promote", "add", "remove"} => cur \in DOMAIN blocks
    /\ pc = "preflight" => op = "settings"
    /\ pc = "send" /\ op # "settings" => cur \in DOMAIN blocks
    /\ wait \in [observed : BOOLEAN, everReachable : BOOLEAN]
    /\ pending \subseteq DOMAIN blocks

FlagsTyped ==
    /\ failed \in BOOLEAN /\ interrupted \in BOOLEAN /\ detached \in BOOLEAN
    /\ result \in Results
    /\ added \subseteq Hosts /\ seen \subseteq Hosts /\ inspected \subseteq Hosts
    /\ applies \in Nat /\ faults \in Nat /\ timeouts \in Nat

TypeInv == ServerTyped /\ SentTyped /\ DataTyped /\ PlaceTyped /\ FlagsTyped

LEMMA TypeInvImplies == TypeInv => TypeOK
BY DEF TypeInv, ServerTyped, SentTyped, DataTyped, PlaceTyped, FlagsTyped, TypeOK

LEMMA BlocksTyped ==
    ASSUME PlaceTyped
    PROVE  DOMAIN blocks \subseteq Nat /\ \A i \in DOMAIN blocks : blocks[i] \in Block
BY DEF PlaceTyped

\* Where the member phase goes next is a place of the code, and the block it
\* goes to exists.
LEMMA NextMemberTyped ==
    ASSUME PlaceTyped,
           NEW ps \in SUBSET DOMAIN blocks, NEW as \in SUBSET DOMAIN blocks,
           NextMember(ps, as)
    PROVE  /\ pc' \in {"wait", "add", "final"} /\ cur' \in Nat
           /\ pc' \in {"wait", "add"} => cur' \in DOMAIN blocks
           /\ promotions' = ps /\ adds' = as /\ wait' = NoWait
           /\ failed' = failed /\ result' = result
<1>1. /\ ps # {} => Min(ps) \in ps
      /\ as # {} => Min(as) \in as
  BY BlocksTyped, MinIsLeast
<1>2. cur \in Nat
  BY DEF PlaceTyped
<1> QED BY <1>1, <1>2, BlocksTyped DEF NextMember

LEMMA TypeInit == Init => TypeInv
<1> SUFFICES ASSUME Init PROVE TypeInv
  OBVIOUS
<1>1. /\ installed \in Config /\ IsFiniteSet(installed.members)
      /\ installed.members \in SUBSET Member /\ installed.settings \in SettingsValues
  BY ConfigsAssumption DEF Init, Config
<1>2. BoundedIds(installed.members)
  BY <1>1, FiniteMembersBounded
<1>3. node \in [Hosts -> NodeStates]
  BY DEF Init, InitialNodes
<1>4. blocks \in Seq(Block) /\ DOMAIN blocks = {}
  BY DEF Init
<1>5. ServerTyped /\ SentTyped
  BY <1>1, <1>2, <1>3 DEF Init, ServerTyped, SentTyped
<1>6. DataTyped
  BY <1>1 DEF Init, DataTyped
<1>7. PlaceTyped
  BY <1>4 DEF Init, PlaceTyped, Locations, NoWait
<1>8. FlagsTyped
  BY DEF Init, FlagsTyped, Results
<1> QED BY <1>5, <1>6, <1>7, <1>8 DEF TypeInv

\* A promotion keeps the hosts, the ids and the types of the list, and
\* touches one host's votes.
LEMMA PromotedKeeps ==
    ASSUME NEW members \in SUBSET Member, BoundedIds(members), NEW b \in Block
    PROVE  LET new == {IF m.host = b.host THEN Promoted(m, b) ELSE m : m \in members} IN
           /\ new \in SUBSET Member /\ BoundedIds(new)
           /\ HostsOf(new) = HostsOf(members)
           /\ \A k \in new : k.host = b.host \/ k \in members
<1> DEFINE change(m) == IF m.host = b.host THEN Promoted(m, b) ELSE m
           new == {change(m) : m \in members}
<1>1. \A m \in members : /\ change(m) \in Member
                         /\ change(m).host = m.host /\ change(m).id = m.id
                         /\ change(m).host = b.host \/ change(m) = m
  BY DEF Promoted, Member, Block
<1> HIDE DEF change
<1>2. new \in SUBSET Member /\ HostsOf(new) = HostsOf(members)
  BY <1>1 DEF HostsOf
<1>3. BoundedIds(new)
  BY <1>1 DEF BoundedIds
<1>4. \A k \in new : k.host = b.host \/ k \in members
  BY <1>1
<1> QED BY <1>2, <1>3, <1>4 DEF change

\* The list PromoteMember computes, without the set it names on the way.
LEMMA PromotedSet ==
    ASSUME NEW members, NEW b
    PROVE  LET mine == {m \in members : m.host = b.host} IN
           {IF m \in mine THEN Promoted(m, b) ELSE m : m \in members} =
           {IF m.host = b.host THEN Promoted(m, b) ELSE m : m \in members}
OBVIOUS

\* The settings reconfig, its failures and what follows it.
LEMMA ReconfigReturnsTyped ==
    ASSUME TypeInv, NEW ok \in BOOLEAN, ReconfigReturns(ok), pc = "send",
           UNCHANGED <<blocks, op, cfg, pending>>
    PROVE  DataTyped' /\ PlaceTyped' /\ failed' \in BOOLEAN /\ result' \in Results
<1> USE DEF TypeInv
<1>0. /\ promotions \in SUBSET DOMAIN blocks /\ adds \in SUBSET DOMAIN blocks
      /\ promotions \ {cur} \in SUBSET DOMAIN blocks /\ adds \ {cur} \in SUBSET DOMAIN blocks
  BY DEF PlaceTyped
<1>1. NoWait \in [observed : BOOLEAN, everReachable : BOOLEAN]
  BY DEF NoWait
<1>2. CASE op = "settings" /\ ok
  <2>1. NextMember(promotions, adds) /\ RecordSettings
    BY <1>2 DEF ReconfigReturns
  <2>2. PlaceTyped'
    BY <2>1, <1>0, <1>1, NextMemberTyped DEF PlaceTyped, Locations
  <2>3. DataTyped'
    <3>1. cfg.settings \in SettingsValues
      BY DEF SentTyped, Config
    <3> QED BY <2>1, <3>1 DEF RecordSettings, DataTyped
  <2> QED BY <2>1, <2>2, <2>3, <1>0, NextMemberTyped DEF FlagsTyped
<1>3. CASE op = "settings" /\ ~ok
  <2>1. Abort
    BY <1>3 DEF ReconfigReturns
  <2> QED BY <2>1, <1>3 DEF Abort, DataTyped, PlaceTyped, FlagsTyped, Locations, Results
<1>4. CASE op = "promote" /\ ok
  <2>1. NextMember(promotions \ {cur}, adds \ {cur}) /\ UNCHANGED data
    BY <1>4 DEF ReconfigReturns, MemberSettled
  <2>2. PlaceTyped'
    BY <2>1, <1>0, <1>1, NextMemberTyped DEF PlaceTyped, Locations
  <2> QED BY <2>1, <2>2, <1>0, NextMemberTyped DEF FlagsTyped, DataTyped
<1>5. CASE op = "promote" /\ ~ok
  <2>1. MemberError
    BY <1>5 DEF ReconfigReturns
  <2> QED BY <2>1, <1>5 DEF MemberError, DataTyped, PlaceTyped, FlagsTyped, Locations
<1>6. CASE op = "add" \/ op = "remove"
  BY <1>6 DEF ReconfigReturns, DataTyped, PlaceTyped, FlagsTyped, Locations
<1> QED BY <1>2, <1>3, <1>4, <1>5, <1>6 DEF PlaceTyped

\* What an installed request leaves in the server.
LEMMA InstallTyped ==
    ASSUME TypeInv, Install, UNCHANGED node, op # "settings" => cur \in DOMAIN blocks
    PROVE  ServerTyped' /\ added' \subseteq Hosts
<1>1. op = "add" => CurBlock.host \in Hosts
  BY BlocksTyped DEF TypeInv, CurBlock, Block
<1> QED BY <1>1 DEF TypeInv, Install, ServerTyped, SentTyped, FlagsTyped

\* A configuration read from the server and sent with another member list.
LEMMA RequestTyped ==
    ASSUME ServerTyped, NEW s \in SettingsValues,
           NEW ms \in SUBSET Member, BoundedIds(ms),
           cfg' = [version |-> installed.version + 1, settings |-> s, members |-> ms]
    PROVE  SentTyped'
BY DEF ServerTyped, SentTyped, Config

LEMMA InstalledTyped ==
    ASSUME ServerTyped
    PROVE  /\ installed.version \in Nat /\ installed.settings \in SettingsValues
           /\ installed.members \in SUBSET Member /\ BoundedIds(installed.members)
BY DEF ServerTyped, Config

\* The member rows of state are blocks.
LEMMA ReadBackTyped ==
    ASSUME NEW members \in SUBSET Member, NEW hosts
    PROVE  MembersToState(members, hosts) \in SUBSET Block
<1>1. \A m \in Member : MemberView(m) \in Block
  BY DEF MemberView, Member, Block
<1> QED BY <1>1 DEF MembersToState

LEMMA TypeStep == TypeInv /\ [Next]_vars => TypeInv'
<1> SUFFICES ASSUME TypeInv, [Next]_vars PROVE TypeInv'
  OBVIOUS
<1> USE DEF TypeInv
<1>0. /\ UNCHANGED server => ServerTyped'
      /\ UNCHANGED cfg => SentTyped'
      /\ UNCHANGED data => DataTyped'
      /\ promotions \ {cur} \in SUBSET DOMAIN blocks /\ adds \ {cur} \in SUBSET DOMAIN blocks
      /\ NoWait \in [observed : BOOLEAN, everReachable : BOOLEAN]
  BY DEF server, ServerTyped, SentTyped, DataTyped, PlaceTyped, NoWait
<1>1. CASE BeginApply
  <2>1. PICK list \in BlockLists, s \in SettingsValues :
           /\ blocks' = ExtractMemberOverrides(list)
           /\ data' = [data EXCEPT !.settings = s, !.members = Rows(blocks')]
    BY <1>1 DEF BeginApply
  <2>2. blocks' \in Seq(Block)
    BY <2>1, BlocksAssumption, ExtractTyping
  <2>3. Rows(blocks') \in SUBSET Block
    BY <2>2 DEF Rows
  <2>4. DataTyped'
    BY <2>1, <2>3 DEF DataTyped
  <2>5. PlaceTyped'
    <3>1. /\ pc' = "read" /\ op' = "settings" /\ promotions' = {} /\ adds' = {}
          /\ cur' = 0 /\ wait' = NoWait /\ pending' = {}
      BY <1>1 DEF BeginApply
    <3>2. wait' \in [observed : BOOLEAN, everReachable : BOOLEAN]
      BY <1>0, <3>1
    <3>3. /\ promotions' \subseteq DOMAIN blocks' /\ adds' \subseteq DOMAIN blocks'
          /\ pending' \subseteq DOMAIN blocks'
      BY <3>1
    <3>4. /\ pc' \in Locations /\ cur' \in Nat /\ op' \in {"settings", "promote", "add", "remove"}
          /\ pc' \notin {"wait", "promote", "add", "remove", "preflight", "send"}
      BY <3>1 DEF Locations
    <3> QED BY <2>2, <3>2, <3>3, <3>4 DEF PlaceTyped
  <2>6. FlagsTyped'
    <3>1. /\ failed' = FALSE /\ interrupted' = FALSE /\ detached' = FALSE /\ result' = "none"
          /\ added' = {} /\ seen' = {} /\ inspected' = {}
          /\ applies' = applies + 1 /\ UNCHANGED <<faults, timeouts>>
      BY <1>1 DEF BeginApply
    <3>2. applies' \in Nat /\ faults' \in Nat /\ timeouts' \in Nat
      BY <3>1 DEF FlagsTyped
    <3>3. added' \subseteq Hosts /\ seen' \subseteq Hosts /\ inspected' \subseteq Hosts
      BY <3>1
    <3>4. /\ failed' \in BOOLEAN /\ interrupted' \in BOOLEAN /\ detached' \in BOOLEAN
          /\ result' \in Results
      BY <3>1 DEF Results
    <3> QED BY <3>2, <3>3, <3>4 DEF FlagsTyped
  <2> QED BY <1>0, <1>1, <2>4, <2>5, <2>6 DEF BeginApply
<1>2. CASE Refresh
  <2>1. DataTyped'
    BY <1>2, InstalledTyped, ReadBackTyped DEF Refresh, DataTyped
  <2>2. PlaceTyped' /\ FlagsTyped'
    BY <1>2 DEF Refresh, PlaceTyped, FlagsTyped, work, history, bounds
  <2> QED BY <1>0, <1>2, <2>1, <2>2 DEF Refresh, work
<1>3. CASE ReadConfig
  <2>1. SentTyped'
    <3>1. data.settings \in SettingsValues
      BY DEF DataTyped
    <3>2. /\ MergeMembers(installed.members, blocks) \in SUBSET Member
          /\ BoundedIds(MergeMembers(installed.members, blocks))
      BY InstalledTyped, MergeMembersKeeps DEF PlaceTyped
    <3> QED BY <1>3, <3>1, <3>2, RequestTyped DEF ReadConfig
  <2>2. PlaceTyped'
    BY <1>3, PartitionIsDisjoint DEF ReadConfig, PlaceTyped, Locations
  <2>3. FlagsTyped'
    BY <1>3 DEF ReadConfig, FlagsTyped, history, bounds
  <2> QED BY <1>0, <1>3, <2>1, <2>2, <2>3 DEF ReadConfig
<1>4. CASE ReadConfigFails
  <2>1. PlaceTyped'
    BY <1>4 DEF ReadConfigFails, Abort, PlaceTyped, Locations
  <2>2. FlagsTyped'
    BY <1>4 DEF ReadConfigFails, CallFails, Charge, Abort, FlagsTyped, Results, history
  <2> QED BY <1>0, <1>4, <2>1, <2>2 DEF ReadConfigFails, Abort
<1>5. CASE Preflight
  <2>1. PlaceTyped'
    <3>1. /\ pc' \in {"send", "idle"} /\ pc = "preflight"
          /\ UNCHANGED <<blocks, op, promotions, adds, cur, wait, pending>>
      BY <1>5 DEF Preflight, Abort
    <3> QED BY <3>1 DEF PlaceTyped, Locations
  <2>2. inspected' \subseteq Hosts
    <3>1. PICK answers \in [adds -> PossibleAnswers] :
             inspected' = {blocks[i].host : i \in {j \in adds : CheckAddTarget(answers[j]) = "ok"}}
      BY <1>5 DEF Preflight
    <3>2. \A i \in adds : blocks[i].host \in Hosts
      BY BlocksTyped DEF PlaceTyped, Block
    <3> QED BY <3>1, <3>2
  <2>3. FlagsTyped'
    BY <1>5, <2>2 DEF Preflight, Charge, Abort, FlagsTyped, Results
  <2> QED BY <1>0, <1>5, <2>1, <2>3 DEF Preflight, Abort
<1>6. CASE PreflightInterrupted
  <2>1. PlaceTyped'
    BY <1>6 DEF PreflightInterrupted, Abort, PlaceTyped, Locations
  <2>2. FlagsTyped'
    BY <1>6 DEF PreflightInterrupted, Abort, FlagsTyped, Results, history, bounds
  <2> QED BY <1>0, <1>6, <2>1, <2>2 DEF PreflightInterrupted, Abort
<1>7. CASE ReconfigSucceeds
  <2>1. DataTyped' /\ PlaceTyped' /\ failed' \in BOOLEAN /\ result' \in Results
    BY <1>7, ReconfigReturnsTyped DEF ReconfigSucceeds
  <2>2. ServerTyped' /\ added' \subseteq Hosts
    BY <1>7, InstallTyped DEF ReconfigSucceeds, PlaceTyped
  <2>3. FlagsTyped'
    BY <1>7, <2>1, <2>2 DEF ReconfigSucceeds, FlagsTyped, bounds
  <2> QED BY <1>0, <1>7, <2>1, <2>2, <2>3 DEF ReconfigSucceeds
<1>8. CASE ReconfigLost
  <2>1. DataTyped' /\ PlaceTyped' /\ failed' \in BOOLEAN /\ result' \in Results
    BY <1>8, ReconfigReturnsTyped DEF ReconfigLost
  <2>2. ServerTyped' /\ added' \subseteq Hosts
    BY <1>8, InstallTyped DEF ReconfigLost, PlaceTyped
  <2>3. FlagsTyped'
    BY <1>8, <2>1, <2>2 DEF ReconfigLost, CallFails, Charge, FlagsTyped
  <2> QED BY <1>0, <1>8, <2>1, <2>2, <2>3 DEF ReconfigLost
<1>9. CASE ReconfigFails
  <2>1. DataTyped' /\ PlaceTyped' /\ failed' \in BOOLEAN /\ result' \in Results
    BY <1>9, ReconfigReturnsTyped DEF ReconfigFails
  <2>2. FlagsTyped'
    BY <1>9, <2>1 DEF ReconfigFails, CallFails, Charge, FlagsTyped, history
  <2> QED BY <1>0, <1>9, <2>1, <2>2 DEF ReconfigFails
<1>10. CASE ReconfigRefused
  <2>1. DataTyped' /\ PlaceTyped' /\ failed' \in BOOLEAN /\ result' \in Results
    BY <1>10, ReconfigReturnsTyped DEF ReconfigRefused
  <2>2. FlagsTyped'
    BY <1>10, <2>1 DEF ReconfigRefused, FlagsTyped, history, bounds
  <2> QED BY <1>0, <1>10, <2>1, <2>2 DEF ReconfigRefused
<1>11. CASE ReconfigConflict
  <2>1. SentTyped'
    BY <1>11, InstalledTyped DEF ReconfigConflict, SentTyped, Config
  <2>2. PlaceTyped' /\ FlagsTyped'
    BY <1>11 DEF ReconfigConflict, PlaceTyped, FlagsTyped, history, bounds
  <2> QED BY <1>0, <1>11, <2>1, <2>2 DEF ReconfigConflict
<1>12. CASE PollStatus
  <2> DEFINE up == Reachable(installed.members, CurBlock.host, node[CurBlock.host])
  <2>1. CurBlock \in Block /\ up \in BOOLEAN
    BY <1>12, BlocksTyped DEF PollStatus, PlaceTyped, CurBlock, Reachable
  <2>2. seen' \subseteq Hosts
    BY <1>12, <2>1 DEF PollStatus, FlagsTyped, Block
  <2> HIDE DEF up
  <2>3. CASE /\ wait' = [observed |-> TRUE, everReachable |-> wait.everReachable \/ up]
             /\ UNCHANGED <<data, pc, promotions, adds, cur, failed, result>>
    <3>1. wait' \in [observed : BOOLEAN, everReachable : BOOLEAN]
      BY <2>3, <2>1 DEF PlaceTyped
    <3>2. PlaceTyped'
      BY <1>12, <2>3, <3>1 DEF PollStatus, PlaceTyped
    <3>3. FlagsTyped'
      BY <1>12, <2>2, <2>3 DEF PollStatus, FlagsTyped, bounds
    <3> QED BY <1>0, <1>12, <2>3, <3>2, <3>3 DEF PollStatus
  <2>4. CASE /\ pc' = "promote"
             /\ wait' = [observed |-> TRUE, everReachable |-> TRUE]
             /\ UNCHANGED <<data, promotions, adds, cur, failed, result>>
    <3>1. PlaceTyped'
      BY <1>12, <2>4 DEF PollStatus, PlaceTyped, Locations
    <3>2. FlagsTyped'
      BY <1>12, <2>2, <2>4 DEF PollStatus, FlagsTyped, bounds
    <3> QED BY <1>0, <1>12, <2>4, <3>1, <3>2 DEF PollStatus
  <2>5. CASE MemberSettled
    <3>1. PlaceTyped'
      BY <1>0, <1>12, <2>5, NextMemberTyped DEF PollStatus, MemberSettled, PlaceTyped, Locations
    <3>2. FlagsTyped'
      BY <1>0, <1>12, <2>2, <2>5, NextMemberTyped DEF PollStatus, MemberSettled, FlagsTyped, bounds
    <3> QED BY <1>0, <1>12, <2>5, <3>1, <3>2 DEF PollStatus, MemberSettled
  <2> QED BY <1>12, <2>3, <2>4, <2>5 DEF PollStatus, up
<1>13. CASE WaitTimeout
  <2>1. CASE pc' = "remove" /\ failed' = TRUE
             /\ UNCHANGED <<data, promotions, adds, cur, wait, pending, result>>
    <3>1. PlaceTyped'
      BY <1>13, <2>1 DEF WaitTimeout, PlaceTyped, Locations
    <3>2. FlagsTyped'
      BY <1>13, <2>1 DEF WaitTimeout, FlagsTyped, history
    <3> QED BY <1>0, <1>13, <2>1, <3>1, <3>2 DEF WaitTimeout
  <2>2. CASE pending' = pending \cup {cur} /\ MemberSettled
    <3>1. pending' \subseteq DOMAIN blocks
      BY <1>13, <2>2 DEF WaitTimeout, PlaceTyped
    <3>2. PlaceTyped'
      BY <1>0, <1>13, <2>2, <3>1, NextMemberTyped
      DEF WaitTimeout, MemberSettled, PlaceTyped, Locations
    <3>3. FlagsTyped'
      BY <1>0, <1>13, <2>2, NextMemberTyped DEF WaitTimeout, MemberSettled, FlagsTyped, history
    <3> QED BY <1>0, <1>13, <2>2, <3>2, <3>3 DEF WaitTimeout, MemberSettled
  <2>3. CASE MemberError /\ UNCHANGED pending
    <3>1. PlaceTyped'
      BY <1>13, <2>3 DEF WaitTimeout, MemberError, PlaceTyped, Locations
    <3>2. FlagsTyped'
      BY <1>13, <2>3 DEF WaitTimeout, MemberError, FlagsTyped, history
    <3> QED BY <1>0, <1>13, <2>3, <3>1, <3>2 DEF WaitTimeout, MemberError
  <2> QED BY <1>13, <2>1, <2>2, <2>3 DEF WaitTimeout
<1>14. CASE WaitInterrupted
  <2>1. PlaceTyped'
    BY <1>14 DEF WaitInterrupted, MemberError, PlaceTyped, Locations
  <2>2. FlagsTyped'
    BY <1>14 DEF WaitInterrupted, MemberError, FlagsTyped, history, bounds
  <2> QED BY <1>0, <1>14, <2>1, <2>2 DEF WaitInterrupted, MemberError
<1>15. CASE PromoteMember
  <2>1. CurBlock \in Block
    BY <1>15, BlocksTyped DEF PromoteMember, PlaceTyped, CurBlock
  <2> DEFINE new == {IF m.host = CurBlock.host THEN Promoted(m, CurBlock) ELSE m :
                        m \in installed.members}
  <2>2. new \in SUBSET Member /\ BoundedIds(new)
    BY <2>1, InstalledTyped, PromotedKeeps
  <2>3. \/ MemberError /\ UNCHANGED <<op, cfg>>
        \/ MemberSettled /\ UNCHANGED <<op, cfg>>
        \/ Send("promote", new)
    BY <1>15, PromotedSet DEF PromoteMember
  <2> HIDE DEF new
  <2>4. CASE MemberError /\ UNCHANGED <<op, cfg>>
    <3>1. PlaceTyped'
      BY <1>15, <2>4 DEF PromoteMember, MemberError, PlaceTyped, Locations
    <3>2. FlagsTyped'
      BY <1>15, <2>4 DEF PromoteMember, MemberError, FlagsTyped, history, bounds
    <3> QED BY <1>0, <1>15, <2>4, <3>1, <3>2 DEF PromoteMember, MemberError
  <2>5. CASE MemberSettled /\ UNCHANGED <<op, cfg>>
    <3>1. PlaceTyped'
      BY <1>0, <1>15, <2>5, NextMemberTyped DEF PromoteMember, MemberSettled, PlaceTyped, Locations
    <3>2. FlagsTyped'
      BY <1>0, <1>15, <2>5, NextMemberTyped
      DEF PromoteMember, MemberSettled, FlagsTyped, history, bounds
    <3> QED BY <1>0, <1>15, <2>5, <3>1, <3>2 DEF PromoteMember, MemberSettled
  <2>6. CASE Send("promote", new)
    <3>1. SentTyped'
      BY <2>2, <2>6, InstalledTyped, RequestTyped DEF Send
    <3>2. PlaceTyped'
      BY <1>15, <2>6 DEF PromoteMember, Send, PlaceTyped, Locations
    <3>3. FlagsTyped'
      BY <1>15, <2>6 DEF PromoteMember, Send, FlagsTyped, history, bounds
    <3> QED BY <1>0, <1>15, <2>6, <3>1, <3>2, <3>3 DEF PromoteMember, Send
  <2> QED BY <2>3, <2>4, <2>5, <2>6
<1>16. CASE AddMember
  <2>1. CurBlock \in Block
    BY <1>16, BlocksTyped DEF AddMember, PlaceTyped, CurBlock
  <2> DEFINE member == StagedMember(CurBlock, NextMemberID(installed.members))
             new == installed.members \cup {member}
  <2>2. member \in Member /\ \A m \in installed.members : m.id <= member.id
    <3>1. /\ NextMemberID(installed.members) \in Nat
          /\ \A m \in installed.members : m.id < NextMemberID(installed.members)
      BY InstalledTyped, NextMemberIDIsFresh
    <3>2. member \in Member /\ member.id = NextMemberID(installed.members)
      BY <2>1, <3>1, StagedMemberHasNoDataVote
    <3>3. \A m \in installed.members : m.id \in Nat
      BY InstalledTyped DEF Member
    <3> HIDE DEF member
    <3> QED BY <3>1, <3>2, <3>3
  <2> HIDE DEF member
  <2>3. member.id \in Nat /\ \A m \in new : m.id <= member.id
    BY <2>2 DEF Member
  <2>4. new \in SUBSET Member /\ BoundedIds(new)
    BY <2>2, <2>3, InstalledTyped DEF BoundedIds
  <2>5. Send("add", new)
    BY <1>16 DEF AddMember, member
  <2> HIDE DEF new
  <2>6. SentTyped'
    BY <2>4, <2>5, InstalledTyped, RequestTyped DEF Send
  <2>7. PlaceTyped'
    BY <1>16, <2>5 DEF AddMember, Send, PlaceTyped, Locations
  <2>8. FlagsTyped'
    BY <1>16, <2>5 DEF AddMember, Send, FlagsTyped, history, bounds
  <2> QED BY <1>0, <1>16, <2>5, <2>6, <2>7, <2>8 DEF AddMember, Send
<1>17. CASE RemoveMember
  <2> DEFINE new == {m \in installed.members : m.host # CurBlock.host}
  <2>1. new \in SUBSET Member /\ BoundedIds(new)
    BY InstalledTyped DEF BoundedIds
  <2>2. CASE Send("remove", new)
    <3> HIDE DEF new
    <3>1. SentTyped'
      BY <2>1, <2>2, InstalledTyped, RequestTyped DEF Send
    <3>2. PlaceTyped'
      BY <1>17, <2>2 DEF RemoveMember, Send, PlaceTyped, Locations
    <3>3. FlagsTyped'
      BY <1>17, <2>2 DEF RemoveMember, Send, FlagsTyped, history, bounds
    <3> QED BY <1>0, <1>17, <2>2, <3>1, <3>2, <3>3 DEF RemoveMember, Send
  <2>3. CASE /\ pc' = "final"
             /\ UNCHANGED <<op, cfg, promotions, adds, cur, wait, failed, result, data>>
    <3>1. PlaceTyped'
      BY <1>17, <2>3 DEF RemoveMember, PlaceTyped, Locations
    <3>2. FlagsTyped'
      BY <1>17, <2>3 DEF RemoveMember, FlagsTyped, history, bounds
    <3> QED BY <1>0, <1>17, <2>3, <3>1, <3>2 DEF RemoveMember
  <2> QED BY <1>17, <2>2, <2>3 DEF RemoveMember
<1>18. CASE MemberReadFails
  <2>1. PlaceTyped'
    BY <1>18 DEF MemberReadFails, MemberError, PlaceTyped, Locations
  <2>2. FlagsTyped'
    BY <1>18 DEF MemberReadFails, MemberError, CallFails, Charge, FlagsTyped, history
  <2> QED BY <1>0, <1>18, <2>1, <2>2 DEF MemberReadFails, MemberError
<1>19. CASE FinalRead
  <2>1. DataTyped'
    BY <1>19, InstalledTyped, ReadBackTyped DEF FinalRead, ReadBack, DataTyped
  <2>2. PlaceTyped'
    BY <1>19 DEF FinalRead, PlaceTyped, Locations, work
  <2>3. FlagsTyped'
    BY <1>19 DEF FinalRead, FlagsTyped, Results, work, history, bounds
  <2> QED BY <1>0, <1>19, <2>1, <2>2, <2>3 DEF FinalRead, work
<1>20. CASE FinalReadFails
  <2>1. PlaceTyped'
    BY <1>20 DEF FinalReadFails, PlaceTyped, Locations, work
  <2>2. FlagsTyped'
    BY <1>20 DEF FinalReadFails, Charge, FlagsTyped, Results, work, history
  <2> QED BY <1>0, <1>20, <2>1, <2>2 DEF FinalReadFails, work
<1>21. CASE Interrupt \/ ContextExpires
  <2>1. /\ UNCHANGED <<server, data, pc, blocks, work, result, history, applies>>
        /\ interrupted' = TRUE
        /\ UNCHANGED timeouts \/ timeouts' = timeouts + 1
        /\ UNCHANGED faults \/ Charge
    BY <1>21 DEF Interrupt, ContextExpires
  <2>2. PlaceTyped'
    BY <2>1 DEF PlaceTyped, work
  <2>3. FlagsTyped'
    BY <2>1 DEF Charge, FlagsTyped, work, history
  <2> QED BY <1>0, <2>1, <2>2, <2>3 DEF work
<1>22. CASE AutoReconfig
  <2>1. ServerTyped'
    BY <1>22, InstalledTyped DEF AutoReconfig, ServerTyped, Config
  <2>2. PlaceTyped' /\ FlagsTyped'
    BY <1>22 DEF AutoReconfig, Charge, PlaceTyped, FlagsTyped, work, history
  <2> QED BY <1>0, <1>22, <2>1, <2>2 DEF AutoReconfig, work
<1>23. CASE Nodes
  <2>1. PICK h \in Hosts : NodeUp(h) \/ NodeCatchesUp(h) \/ NodeDown(h)
    BY <1>23 DEF Nodes
  <2>2. NodeOnly /\ (UNCHANGED faults \/ Charge)
    BY <2>1 DEF NodeUp, NodeCatchesUp, NodeDown
  <2>3. node' \in [Hosts -> NodeStates]
    BY <2>1 DEF NodeUp, NodeCatchesUp, NodeDown, ServerTyped, NodeStates
  <2>4. ServerTyped'
    BY <2>2, <2>3 DEF NodeOnly, ServerTyped
  <2>5. PlaceTyped' /\ FlagsTyped'
    BY <2>2 DEF NodeOnly, Charge, PlaceTyped, FlagsTyped, work, history
  <2> QED BY <1>0, <2>2, <2>4, <2>5 DEF NodeOnly, work
<1>24. CASE Rest \/ UNCHANGED vars
  <2>1. PlaceTyped' /\ FlagsTyped'
    BY <1>24 DEF Rest, vars, PlaceTyped, FlagsTyped, work, history, bounds
  <2> QED BY <1>0, <1>24, <2>1 DEF Rest, vars, work
<1>25. CASE Import
  <2>1. DataTyped'
    BY <1>25, InstalledTyped, ReadBackTyped DEF Import, DataTyped
  <2>2. PlaceTyped' /\ FlagsTyped'
    BY <1>25 DEF Import, PlaceTyped, FlagsTyped, work, history, bounds
  <2> QED BY <1>0, <1>25, <2>1, <2>2 DEF Import, work
<1> QED
  BY <1>1, <1>2, <1>3, <1>4, <1>5, <1>6, <1>7, <1>8, <1>9, <1>10, <1>11, <1>12, <1>13,
     <1>14, <1>15, <1>16, <1>17, <1>18, <1>19, <1>20, <1>21, <1>22, <1>23, <1>24, <1>25
  DEF Next, Provider, Terraform

\* The type invariant of the apply.
THEOREM TypeCorrect == Spec => []TypeOK
<1>1. TypeInv => TypeOK
  BY TypeInvImplies
<1> QED BY <1>1, TypeInit, TypeStep, PTL DEF Spec

---------------------------------------------------------------------------
(* What state says of the server *)

\* Settings are in state once they are in the set, and what the member phase
\* sends leaves them as they are.
SettingsInv ==
    /\ SettingsRecorded
    /\ pc = "send" /\ op # "settings" => cfg.settings = installed.settings

\* The member rows that the final read or a refresh left are the server's.
RowsRead ==
    pc = "idle" /\ result \in {"ok", "failed"} =>
        data.members \subseteq {MemberView(m) : m \in installed.members}

HonestInv == SettingsInv /\ RowsRead

LEMMA HonestImplies == HonestInv => StateIsHonest
BY DEF HonestInv, SettingsInv, RowsRead, StateIsHonest, NoHiddenWork

LEMMA ReadBackIsThere ==
    ASSUME NEW members, NEW hosts
    PROVE  MembersToState(members, hosts) \subseteq {MemberView(m) : m \in members}
BY DEF MembersToState

\* A step within the member phase, or out of it, that leaves the settings of
\* the server and of state alone.
LEMMA SettingsStay ==
    ASSUME TypeInv, HonestInv, InMemberPhase, pc' # "idle",
           UNCHANGED <<data, op>>, installed'.settings = installed.settings,
           pc' = "send" /\ op' # "settings" => cfg'.settings = installed'.settings
    PROVE  HonestInv'
<1>1. data.tracked /\ data.settings = installed.settings
  BY DEF HonestInv, SettingsInv, SettingsRecorded
<1> QED BY <1>1 DEF HonestInv, SettingsInv, SettingsRecorded, RowsRead

\* The same for a step that builds a request.
LEMMA SendIsHonest ==
    ASSUME TypeInv, HonestInv, InMemberPhase, NEW o \in {"promote", "add", "remove"},
           NEW ms, Send(o, ms), UNCHANGED installed
    PROVE  HonestInv'
<1>1. data.tracked /\ data.settings = installed.settings
  BY DEF HonestInv, SettingsInv, SettingsRecorded
<1>2. pc' = "send" /\ op' = o /\ cfg'.settings = installed.settings /\ UNCHANGED data
  BY DEF Send
<1> QED BY <1>1, <1>2 DEF HonestInv, SettingsInv, SettingsRecorded, RowsRead

\* The call that carries a request returns.
LEMMA ReturnIsHonest ==
    ASSUME TypeInv, HonestInv, pc = "send", NEW ok \in BOOLEAN, ReconfigReturns(ok),
           UNCHANGED op, (installed' = cfg \/ (UNCHANGED installed /\ ~ok))
    PROVE  HonestInv'
<1>1. op \in {"settings", "promote", "add", "remove"}
  BY DEF TypeInv, PlaceTyped
<1>2. CASE op = "settings" /\ ok
  <2>1. pc' \in {"wait", "add", "final"} /\ installed' = cfg
    BY <1>2 DEF ReconfigReturns, NextMember
  <2>2. data' = [data EXCEPT !.tracked = TRUE, !.settings = cfg.settings]
    BY <1>2 DEF ReconfigReturns, RecordSettings
  <2>3. data'.tracked /\ data'.settings = installed'.settings
    BY <2>1, <2>2 DEF TypeInv, DataTyped
  <2> QED BY <2>1, <2>3 DEF HonestInv, SettingsInv, SettingsRecorded, RowsRead
<1>3. CASE op = "settings" /\ ~ok
  <2>1. pc' = "idle" /\ result' = "aborted"
    BY <1>3 DEF ReconfigReturns, Abort
  <2> QED BY <2>1 DEF HonestInv, SettingsInv, SettingsRecorded, RowsRead, InMemberPhase
<1>4. CASE op # "settings"
  <2>1. pc' \in {"wait", "add", "remove", "final"} /\ UNCHANGED data
    BY <1>1, <1>4 DEF ReconfigReturns, MemberSettled, NextMember, MemberError
  <2>2. installed'.settings = installed.settings
    BY <1>4 DEF HonestInv, SettingsInv
  <2>3. InMemberPhase
    BY <1>4 DEF InMemberPhase
  <2> QED BY <2>1, <2>2, <2>3, SettingsStay
<1> QED BY <1>2, <1>3, <1>4

LEMMA HonestStep == TypeInv /\ HonestInv /\ [Next]_vars => HonestInv'
<1> SUFFICES ASSUME TypeInv, HonestInv, [Next]_vars PROVE HonestInv'
  OBVIOUS
<1>1. CASE BeginApply \/ ReadConfig
  <2>1. pc' \in {"read", "preflight"} \/ (pc' = "send" /\ op' = "settings")
    BY <1>1 DEF BeginApply, ReadConfig
  <2> QED BY <2>1 DEF HonestInv, SettingsInv, SettingsRecorded, RowsRead, InMemberPhase
<1>2. CASE ReadConfigFails \/ PreflightInterrupted
  <2>1. pc' = "idle" /\ result' = "aborted"
    BY <1>2 DEF ReadConfigFails, PreflightInterrupted, Abort
  <2> QED BY <2>1 DEF HonestInv, SettingsInv, SettingsRecorded, RowsRead, InMemberPhase
<1>3. CASE Preflight
  <2>1. (pc' = "send" /\ op' = "settings") \/ (pc' = "idle" /\ result' = "aborted")
    BY <1>3 DEF Preflight, Abort, TypeInv, PlaceTyped
  <2> QED BY <2>1 DEF HonestInv, SettingsInv, SettingsRecorded, RowsRead, InMemberPhase
<1>4. CASE ReconfigSucceeds
  BY <1>4, ReturnIsHonest DEF ReconfigSucceeds, Install
<1>5. CASE ReconfigLost
  BY <1>5, ReturnIsHonest DEF ReconfigLost, Install
<1>6. CASE ReconfigFails \/ ReconfigRefused
  BY <1>6, ReturnIsHonest DEF ReconfigFails, ReconfigRefused, server
<1>7. CASE ReconfigConflict
  <2>1. cfg'.settings = cfg.settings /\ UNCHANGED <<installed, data, pc, op, result>>
    BY <1>7 DEF ReconfigConflict, server, TypeInv, SentTyped, Config
  <2> QED BY <2>1 DEF HonestInv, SettingsInv, SettingsRecorded, RowsRead, InMemberPhase
<1>8. CASE AutoReconfig
  <2>1. /\ installed'.settings = installed.settings /\ UNCHANGED <<cfg, data, pc, op, result>>
        /\ pc \in {"preflight", "send"}
    BY <1>8 DEF AutoReconfig, work, TypeInv, ServerTyped, Config
  <2> QED BY <2>1 DEF HonestInv, SettingsInv, SettingsRecorded, RowsRead, InMemberPhase
<1>9. CASE PollStatus \/ WaitTimeout \/ WaitInterrupted \/ MemberReadFails
  <2>1. /\ pc \in {"wait", "promote", "add", "remove"}
        /\ pc' \in {"wait", "promote", "add", "remove", "final"}
        /\ UNCHANGED <<installed, data, op>>
    BY <1>9 DEF PollStatus, WaitTimeout, WaitInterrupted, MemberReadFails, MemberSettled,
       NextMember, MemberError, server
  <2>2. InMemberPhase
    BY <2>1 DEF InMemberPhase
  <2> QED BY <2>1, <2>2, SettingsStay
<1>10. CASE PromoteMember
  <2>1. pc = "promote" /\ UNCHANGED installed /\ InMemberPhase
    BY <1>10 DEF PromoteMember, server, InMemberPhase
  <2>2. \/ MemberError /\ UNCHANGED op
        \/ MemberSettled /\ UNCHANGED op
        \/ \E ms : Send("promote", ms)
    BY <1>10 DEF PromoteMember
  <2>3. CASE (MemberError \/ MemberSettled) /\ UNCHANGED op
    <3>1. pc' \in {"wait", "add", "final"} /\ UNCHANGED data
      BY <2>3 DEF MemberError, MemberSettled, NextMember
    <3> QED BY <2>1, <2>3, <3>1, SettingsStay
  <2> QED BY <2>1, <2>2, <2>3, SendIsHonest
<1>11. CASE AddMember
  <2>1. UNCHANGED installed /\ InMemberPhase /\ \E ms : Send("add", ms)
    BY <1>11 DEF AddMember, server, InMemberPhase
  <2> QED BY <2>1, SendIsHonest
<1>12. CASE RemoveMember
  <2>1. UNCHANGED installed /\ InMemberPhase
    BY <1>12 DEF RemoveMember, server, InMemberPhase
  <2>2. (\E ms : Send("remove", ms)) \/ (pc' = "final" /\ UNCHANGED <<op, data>>)
    BY <1>12 DEF RemoveMember
  <2> QED BY <2>1, <2>2, SendIsHonest, SettingsStay
<1>13. CASE FinalRead
  <2>1. /\ pc = "final" /\ pc' = "idle" /\ UNCHANGED installed
        /\ data' = [data EXCEPT !.members = ReadBack]
    BY <1>13 DEF FinalRead, server
  <2>2. data.tracked /\ data.settings = installed.settings
    BY <2>1 DEF HonestInv, SettingsInv, SettingsRecorded, InMemberPhase
  <2>3. /\ data'.tracked = data.tracked /\ data'.settings = data.settings
        /\ data'.members = ReadBack
    BY <2>1 DEF TypeInv, DataTyped
  <2>4. RowsRead'
    BY <2>1, <2>3, ReadBackIsThere DEF ReadBack, RowsRead
  <2> QED BY <2>1, <2>2, <2>3, <2>4 DEF HonestInv, SettingsInv, SettingsRecorded
<1>14. CASE FinalReadFails
  <2>1. pc = "final" /\ pc' = "idle" /\ result' = "unread" /\ UNCHANGED <<installed, data>>
    BY <1>14 DEF FinalReadFails, server
  <2> QED BY <2>1 DEF HonestInv, SettingsInv, SettingsRecorded, RowsRead, InMemberPhase
<1>15. CASE Refresh
  <2>1. /\ pc = "idle" /\ data.tracked /\ UNCHANGED <<installed, pc, result>>
        /\ data' = [data EXCEPT !.settings = installed.settings,
                                !.members = MembersToState(installed.members, HostsOf(data.members))]
    BY <1>15 DEF Refresh, server
  <2>2. /\ data'.tracked = data.tracked /\ data'.settings = installed.settings
        /\ data'.members = MembersToState(installed.members, HostsOf(data.members))
    BY <2>1 DEF TypeInv, DataTyped
  <2> QED BY <2>1, <2>2, ReadBackIsThere DEF HonestInv, SettingsInv, SettingsRecorded, RowsRead
<1>16. CASE Import
  <2>1. pc = "idle" /\ ~data.tracked /\ UNCHANGED <<installed, pc, result>>
    BY <1>16 DEF Import, server
  <2>2. result \notin {"ok", "failed", "unread"}
    BY <2>1 DEF HonestInv, SettingsInv, SettingsRecorded
  <2> QED BY <2>1, <2>2 DEF HonestInv, SettingsInv, SettingsRecorded, RowsRead, InMemberPhase
<1>17. CASE Interrupt \/ ContextExpires \/ Nodes \/ Rest \/ UNCHANGED vars
  <2>1. UNCHANGED <<installed, data, pc, op, cfg, result>>
    BY <1>17 DEF Interrupt, ContextExpires, Nodes, NodeUp, NodeCatchesUp, NodeDown, NodeOnly,
       Rest, vars, server, work
  <2> QED BY <2>1 DEF HonestInv, SettingsInv, SettingsRecorded, RowsRead, InMemberPhase
<1> QED
  BY <1>1, <1>2, <1>3, <1>4, <1>5, <1>6, <1>7, <1>8, <1>9, <1>10, <1>11, <1>12, <1>13, <1>14,
     <1>15, <1>16, <1>17
  DEF Next, Provider, Terraform

\* State claims neither members nor settings that the server lacks once the
\* settings reconfig went through and the final read was made, however the
\* apply ended.  (SHARD-021)
THEOREM StateTellsTheTruth == Spec => []StateIsHonest
<1>1. Init => HonestInv
  BY DEF Init, HonestInv, SettingsInv, SettingsRecorded, RowsRead, InMemberPhase
<1> QED BY <1>1, TypeInit, TypeStep, HonestStep, HonestImplies, PTL DEF Spec

---------------------------------------------------------------------------
(* What an apply that reports success has done *)

\* The blocks the member phase still has to settle.
Left == promotions \cup adds

\* The member is in the list as an add leaves it, or as a held promotion
\* does before the server has accepted it.
AsAdded(m, b) ==
    /\ m.host = b.host /\ m.arbiter = b.arbiter
    /\ m.votes = IF b.arbiter THEN b.votes ELSE 0
    /\ m.priority = IF b.arbiter THEN b.priority ELSE 0
StagedIn(members, b) == \E m \in members : AsAdded(m, b)
HeldIn(members, b) ==
    \E m \in members : m.host = b.host /\ m.arbiter = b.arbiter /\ m.votes < b.votes

\* The list has all that bs asks for but the blocks left, and of those the
\* ones in ps without their votes.
Serves(members, bs, left, ps, reported) ==
    /\ \A i \in DOMAIN bs \ left : DoneIn(members, bs[i], i \in reported)
    /\ \A i \in ps : StagedIn(members, bs[i])

\* Which blocks the queues, cur and pending name.
QueueInv ==
    /\ pc \notin {"idle", "read"} => ValidateMemberOverrides(blocks)
    /\ pending \cap Left = {}
    /\ pc \in {"read", "preflight"} \/ (pc = "send" /\ op = "settings") => pending = {}
    /\ pc = "remove" \/ (pc = "send" /\ op = "remove") => failed
    /\ pc \in {"wait", "promote", "add"} \/ (pc = "send" /\ op \in {"promote", "add"})
          => cur \in Left

\* What the request on its way would leave in the server.
RequestServes ==
    /\ pc = "preflight" \/ (pc = "send" /\ op = "settings") =>
          /\ Serves(cfg.members, blocks, Left, {}, pending)
          /\ \A i \in promotions : HeldIn(cfg.members, blocks[i])
    /\ pc = "send" /\ op = "promote" /\ ~failed =>
          Serves(cfg.members, blocks, Left \ {cur}, promotions \ {cur}, pending)
    /\ pc = "send" /\ op = "add" /\ ~failed =>
          /\ Serves(cfg.members, blocks, Left, promotions, pending)
          /\ StagedIn(cfg.members, blocks[cur])

\* What the server has, as long as no error ended the member phase.
ServerServes ==
    /\ pc \in {"wait", "promote", "add", "final"} /\ ~failed =>
          Serves(installed.members, blocks, Left, promotions, pending)
    /\ pc \in {"wait", "promote"} /\ ~failed => StagedIn(installed.members, blocks[cur])
    /\ pc = "final" /\ ~failed => Left = {}
    /\ OkMeansDoneOrPending

OutcomeInv == QueueInv /\ RequestServes /\ ServerServes

\* More members serve no less.
LEMMA MoreMembersServe ==
    ASSUME NEW old, NEW new, old \subseteq new, NEW bs, NEW left, NEW ps, NEW reported,
           Serves(old, bs, left, ps, reported)
    PROVE  Serves(new, bs, left, ps, reported)
BY DEF Serves, DoneIn, StagedIn

\* The merge does what the blocks ask of the members it has, but for the
\* promotions, which it holds.  (SHARD-005, SHARD-023)
LEMMA MergeServes ==
    ASSUME NEW members \in SUBSET Member, NEW bs \in Seq(Block), ValidateMemberOverrides(bs)
    PROVE  LET new == MergeMembers(members, bs)
               ps  == PromotingBlocks(members, bs)
           IN  /\ Serves(new, bs, ps \cup MissingBlocks(members, bs), {}, {})
               /\ \A i \in ps : HeldIn(new, bs[i])
<1> DEFINE new == MergeMembers(members, bs)
           ps  == PromotingBlocks(members, bs)
<1>1. new = {MergedMember(m, bs) : m \in members}
  BY DEF MergeMembers, MergedMember
<1>2. ASSUME NEW i \in DOMAIN bs, NEW m \in members, m.host = bs[i].host
      PROVE  MergedMember(m, bs) = MergeMember(m, HoldPromotion(m, bs[i]))
  <2>1. m.host \in HostsOf(Rows(bs))
    BY <1>2 DEF HostsOf, Rows
  <2>2. (CHOOSE k \in DOMAIN bs : bs[k].host = m.host) = i
    BY <1>2 DEF ValidateMemberOverrides
  <2> QED BY <2>1, <2>2 DEF MergedMember, BlockOf
<1>3. ASSUME NEW i \in DOMAIN bs \ (ps \cup MissingBlocks(members, bs))
      PROVE  DoneIn(new, bs[i], i \in {})
  <2>1. PICK m \in members : m.host = bs[i].host /\ ~(bs[i].votes > m.votes)
    BY <1>3 DEF MissingBlocks, PromotingBlocks, HostsOf
  <2>2. MergedMember(m, bs) = MergeMember(m, bs[i]) /\ MergedMember(m, bs) \in new
    BY <1>1, <1>2, <2>1 DEF HoldPromotion
  <2>3. MemberView(MergeMember(m, bs[i])) = bs[i] /\ MergeMember(m, bs[i]).host = bs[i].host
    <3>1. bs[i] \in Block /\ m \in Member
      OBVIOUS
    <3> QED BY <2>1, <3>1 DEF MergeMember, MemberView, Member, Block
  <2> QED BY <2>2, <2>3 DEF DoneIn
<1>4. ASSUME NEW i \in ps PROVE HeldIn(new, bs[i])
  <2>1. PICK m \in members : m.host = bs[i].host /\ bs[i].votes > m.votes
    BY <1>4 DEF PromotingBlocks
  <2>2. i \in DOMAIN bs /\ bs[i] \in Block /\ m \in Member
    BY DEF PromotingBlocks
  <2> DEFINE held == [bs[i] EXCEPT !.votes = m.votes, !.priority = m.priority]
  <2>3. MergedMember(m, bs) = MergeMember(m, held) /\ MergedMember(m, bs) \in new
    BY <1>1, <1>2, <2>1, <2>2 DEF HoldPromotion
  <2>4. held.votes = m.votes /\ held.arbiter = bs[i].arbiter
    BY <2>2 DEF Block
  <2> HIDE DEF held
  <2>5. /\ MergeMember(m, held).host = bs[i].host
        /\ MergeMember(m, held).arbiter = bs[i].arbiter
        /\ MergeMember(m, held).votes < bs[i].votes
    BY <2>1, <2>2, <2>4 DEF MergeMember, Member, Block
  <2> QED BY <2>3, <2>5 DEF HeldIn
<1> QED BY <1>3, <1>4 DEF Serves

\* A held promotion the server has accepted is a member without votes and
\* priority: the server takes no arbiter and no priority without a vote.
LEMMA HeldIsStaged ==
    ASSUME NEW members \in SUBSET Member, WellFormedMembers(members), NEW b \in Block,
           HeldIn(members, b)
    PROVE  StagedIn(members, b)
<1>1. PICK m \in members : m.host = b.host /\ m.arbiter = b.arbiter /\ m.votes < b.votes
  BY DEF HeldIn
<1>2. m \in Member /\ m.votes = 0 /\ ~m.arbiter /\ m.priority = 0
  BY <1>1 DEF WellFormedMembers, Member, Block
<1> QED BY <1>1, <1>2 DEF StagedIn, AsAdded

\* The promotion of a block that is there as added does what it asks for,
\* and nothing to the other blocks.  (SHARD-022)
LEMMA PromotedServes ==
    ASSUME NEW members \in SUBSET Member, NEW bs \in Seq(Block), ValidateMemberOverrides(bs),
           NEW left, NEW ps \in SUBSET DOMAIN bs, NEW reported, NEW c \in DOMAIN bs,
           c \notin reported, StagedIn(members, bs[c]), Serves(members, bs, left, ps, reported)
    PROVE  Serves({IF m.host = bs[c].host THEN Promoted(m, bs[c]) ELSE m : m \in members},
                  bs, left \ {c}, ps \ {c}, reported)
<1> DEFINE change(m) == IF m.host = bs[c].host THEN Promoted(m, bs[c]) ELSE m
           new == {change(m) : m \in members}
<1>1. \A i \in DOMAIN bs, m \in members : i # c /\ m.host = bs[i].host => m \in new
  BY DEF ValidateMemberOverrides
<1>2. DoneIn(new, bs[c], c \in reported)
  <2>1. PICK m \in members : AsAdded(m, bs[c])
    BY DEF StagedIn
  <2>2. bs[c] \in Block /\ m \in Member
    OBVIOUS
  <2>3. m.host = bs[c].host /\ m.arbiter = bs[c].arbiter
    BY <2>1 DEF AsAdded
  <2>4. change(m) = Promoted(m, bs[c]) /\ change(m) \in new
    BY <2>3
  <2>5. MemberView(Promoted(m, bs[c])) = bs[c] /\ Promoted(m, bs[c]).host = bs[c].host
    BY <2>2, <2>3 DEF MemberView, Promoted, Member, Block
  <2> QED BY <2>4, <2>5 DEF DoneIn
<1>3. ASSUME NEW i \in DOMAIN bs, i # c, DoneIn(members, bs[i], i \in reported)
      PROVE  DoneIn(new, bs[i], i \in reported)
  <2> HIDE DEF new
  <2> QED BY <1>1, <1>3 DEF DoneIn
<1>4. ASSUME NEW i \in ps, i # c PROVE StagedIn(new, bs[i])
  <2>1. PICK m \in members : AsAdded(m, bs[i])
    BY DEF StagedIn, Serves
  <2>2. i \in DOMAIN bs
    OBVIOUS
  <2>3. m.host = bs[i].host
    BY <2>1 DEF AsAdded
  <2> HIDE DEF new
  <2> QED BY <1>1, <1>4, <2>1, <2>2, <2>3 DEF StagedIn
<1> HIDE DEF new
<1>5. Serves(new, bs, left \ {c}, ps \ {c}, reported)
  <2>1. ASSUME NEW i \in DOMAIN bs \ (left \ {c}) PROVE DoneIn(new, bs[i], i \in reported)
    <3>1. CASE i = c
      BY <1>2, <3>1
    <3>2. CASE i # c
      BY <1>3, <3>2 DEF Serves
    <3> QED BY <3>1, <3>2
  <2> QED BY <1>4, <2>1 DEF Serves
<1> QED BY <1>5 DEF new

\* A block that asks for no votes is done as it was added.
LEMMA StagedIsDone ==
    ASSUME NEW members \in SUBSET Member, NEW b \in Block, StagedIn(members, b)
    PROVE  /\ ~NeedsPromotion(b) => DoneIn(members, b, FALSE)
           /\ NeedsPromotion(b) => DoneIn(members, b, TRUE)
<1>1. PICK m \in members : AsAdded(m, b)
  BY DEF StagedIn
<1>2. ASSUME ~NeedsPromotion(b) PROVE MemberView(m) = b
  BY <1>1, <1>2 DEF AsAdded, NeedsPromotion, MemberView, Block
<1>3. NeedsPromotion(b) => m.host = b.host /\ m.votes = 0 /\ m.priority = 0
  BY <1>1 DEF AsAdded, NeedsPromotion
<1> QED BY <1>1, <1>2, <1>3 DEF AsAdded, DoneIn

\* The member phase goes on, or ends, with what is left still left.
LEMMA NextMemberServes ==
    ASSUME PlaceTyped, ValidateMemberOverrides(blocks), UNCHANGED blocks,
           NEW ps \in SUBSET DOMAIN blocks, NEW as \in SUBSET DOMAIN blocks,
           NextMember(ps, as), pending' \cap (ps \cup as) = {},
           failed \/ Serves(installed'.members, blocks, ps \cup as, ps, pending')
    PROVE  OutcomeInv'
<1>1. /\ promotions' = ps /\ adds' = as /\ failed' = failed
      /\ pc' \in {"wait", "add", "final"}
  BY NextMemberTyped
<1>2. /\ pc' = "wait" => cur' \in ps
      /\ pc' = "add" => cur' \in as
      /\ pc' = "final" => ps = {} /\ as = {}
  BY BlocksTyped, MinIsLeast DEF NextMember
<1>3. Left' = ps \cup as
  BY <1>1 DEF Left
<1>4. QueueInv'
  BY <1>1, <1>2, <1>3 DEF QueueInv
<1>5. RequestServes'
  BY <1>1 DEF RequestServes
<1>6. ServerServes'
  BY <1>1, <1>2, <1>3 DEF ServerServes, OkMeansDoneOrPending, Serves
<1> QED BY <1>4, <1>5, <1>6 DEF OutcomeInv

LEMMA SettledServes ==
    ASSUME TypeInv, OutcomeInv, MemberSettled, ValidateMemberOverrides(blocks), UNCHANGED blocks,
           pending' \subseteq pending \cup {cur},
           failed \/ Serves(installed'.members, blocks, Left \ {cur}, promotions \ {cur}, pending')
    PROVE  OutcomeInv'
<1> DEFINE ps == promotions \ {cur}
           as == adds \ {cur}
<1>1. ps \in SUBSET DOMAIN blocks /\ as \in SUBSET DOMAIN blocks /\ PlaceTyped
  BY DEF TypeInv, PlaceTyped
<1>2. NextMember(ps, as) /\ ps \cup as = Left \ {cur}
  BY DEF MemberSettled, Left
<1>3. pending' \cap (ps \cup as) = {}
  BY <1>2 DEF OutcomeInv, QueueInv
<1> HIDE DEF ps, as
<1>4. failed \/ Serves(installed'.members, blocks, ps \cup as, ps, pending')
  BY <1>2 DEF ps
<1> QED BY <1>1, <1>2, <1>3, <1>4, NextMemberServes

\* An apply that failed, or stopped before the member phase, promises nothing.
LEMMA ErrorServes ==
    ASSUME QueueInv, ValidateMemberOverrides(blocks), UNCHANGED <<blocks, pending>>, MemberError
    PROVE  OutcomeInv'
BY DEF MemberError, OutcomeInv, QueueInv, RequestServes, ServerServes, OkMeansDoneOrPending, Left

LEMMA AbortServes ==
    ASSUME QueueInv, UNCHANGED pending, Abort
    PROVE  OutcomeInv'
BY DEF Abort, OutcomeInv, QueueInv, RequestServes, ServerServes, OkMeansDoneOrPending, Left

\* The call that carries a request returns.
LEMMA ReturnServes ==
    ASSUME TypeInv, OutcomeInv, pc = "send", NEW ok \in BOOLEAN, ReconfigReturns(ok),
           UNCHANGED <<blocks, op, cfg, pending>>,
           ok => installed' = cfg /\ WellFormedMembers(cfg.members)
    PROVE  OutcomeInv'
<1>1. /\ op \in {"settings", "promote", "add", "remove"} /\ PlaceTyped /\ QueueInv
      /\ cfg.members \in SUBSET Member /\ \A i \in DOMAIN blocks : blocks[i] \in Block
      /\ promotions \in SUBSET DOMAIN blocks /\ adds \in SUBSET DOMAIN blocks
  BY BlocksTyped DEF TypeInv, PlaceTyped, SentTyped, Config, OutcomeInv
<1>2. ValidateMemberOverrides(blocks)
  BY DEF OutcomeInv, QueueInv
<1>3. CASE op = "settings" /\ ok
  <2>1. NextMember(promotions, adds)
    BY <1>3 DEF ReconfigReturns
  <2>2. \A i \in promotions : StagedIn(cfg.members, blocks[i])
    BY <1>1, <1>3, HeldIsStaged DEF OutcomeInv, RequestServes
  <2>3. Serves(cfg.members, blocks, promotions \cup adds, promotions, pending)
    BY <1>3, <2>2 DEF OutcomeInv, RequestServes, Serves, Left
  <2>4. pending' \cap (promotions \cup adds) = {}
    BY DEF OutcomeInv, QueueInv, Left
  <2> QED BY <1>1, <1>2, <1>3, <2>1, <2>3, <2>4, NextMemberServes
<1>4. CASE op = "settings" /\ ~ok
  BY <1>1, <1>4, AbortServes DEF ReconfigReturns
<1>5. CASE op = "promote" /\ ok
  <2>1. failed \/ Serves(installed'.members, blocks, Left \ {cur}, promotions \ {cur}, pending')
    BY <1>5 DEF OutcomeInv, RequestServes
  <2> QED BY <1>2, <1>5, <2>1, SettledServes DEF ReconfigReturns
<1>6. CASE op = "promote" /\ ~ok
  BY <1>1, <1>2, <1>6, ErrorServes DEF ReconfigReturns
<1>7. CASE op = "add" /\ ok
  <2>1. pc' = "wait" /\ UNCHANGED <<promotions, adds, cur, failed, result>>
    BY <1>7 DEF ReconfigReturns
  <2>2. cur \in Left /\ UNCHANGED Left
    BY <1>7, <2>1 DEF OutcomeInv, QueueInv, Left
  <2>3. failed \/ (/\ Serves(installed'.members, blocks, Left, promotions, pending)
                   /\ StagedIn(installed'.members, blocks[cur]))
    BY <1>7 DEF OutcomeInv, RequestServes
  <2>4. QueueInv'
    BY <1>2, <2>1, <2>2 DEF OutcomeInv, QueueInv
  <2>5. RequestServes' /\ ServerServes'
    BY <2>1, <2>2, <2>3 DEF RequestServes, ServerServes, OkMeansDoneOrPending
  <2> QED BY <2>4, <2>5 DEF OutcomeInv
<1>8. CASE (op = "add" /\ ~ok) \/ op = "remove"
  <2>1. /\ pc' \in {"remove", "final"} /\ failed' = TRUE
        /\ UNCHANGED <<promotions, adds>>
    BY <1>8 DEF ReconfigReturns, OutcomeInv, QueueInv, TypeInv, FlagsTyped
  <2> QED BY <1>2, <2>1 DEF OutcomeInv, QueueInv, RequestServes, ServerServes,
                            OkMeansDoneOrPending, Left
<1> QED BY <1>1, <1>3, <1>4, <1>5, <1>6, <1>7, <1>8

\* A step that leaves the apply where it is, beside a server that loses nobody.
LEMMA QuietServes ==
    ASSUME OutcomeInv, UNCHANGED <<pc, blocks, work, result>>,
           installed.members \subseteq installed'.members
    PROVE  OutcomeInv'
<1>1. /\ UNCHANGED <<pc, blocks, op, cfg, promotions, adds, cur, pending, failed, result, Left>>
  BY DEF work, Left
<1>2. QueueInv' /\ RequestServes'
  BY <1>1 DEF OutcomeInv, QueueInv, RequestServes
<1>3. \A left, ps : Serves(installed.members, blocks, left, ps, pending) =>
                       Serves(installed'.members, blocks, left, ps, pending)
  BY MoreMembersServe
<1>4. \A b : StagedIn(installed.members, b) => StagedIn(installed'.members, b)
  BY DEF StagedIn
<1>5. \A b, r : DoneIn(installed.members, b, r) => DoneIn(installed'.members, b, r)
  BY DEF DoneIn
<1>6. ServerServes'
  BY <1>1, <1>3, <1>4, <1>5 DEF OutcomeInv, ServerServes, OkMeansDoneOrPending
<1> QED BY <1>2, <1>6 DEF OutcomeInv

LEMMA OutcomeStep == TypeInv /\ OutcomeInv /\ [Next]_vars => OutcomeInv'
<1> SUFFICES ASSUME TypeInv, OutcomeInv, [Next]_vars PROVE OutcomeInv'
  OBVIOUS
<1>0. /\ QueueInv /\ PlaceTyped
      /\ installed.members \in SUBSET Member
      /\ \A i \in DOMAIN blocks : blocks[i] \in Block
      /\ pc \notin {"idle", "read"} => ValidateMemberOverrides(blocks)
  BY InstalledTyped, BlocksTyped DEF OutcomeInv, QueueInv, TypeInv
<1>1. CASE BeginApply
  BY <1>1 DEF BeginApply, OutcomeInv, QueueInv, RequestServes, ServerServes,
              OkMeansDoneOrPending, Left
<1>2. CASE ReadConfig
  <2>1. /\ pc = "read" /\ pc' \in {"preflight", "send"} /\ op' = "settings"
        /\ ValidateMemberOverrides(blocks) /\ UNCHANGED <<blocks, pending, failed, cur>>
        /\ cfg'.members = MergeMembers(installed.members, blocks)
        /\ promotions' = PromotingBlocks(installed.members, blocks)
        /\ adds' = MissingBlocks(installed.members, blocks)
    BY <1>2 DEF ReadConfig
  <2>2. pending = {}
    BY <1>0, <2>1 DEF QueueInv
  <2>3. /\ Serves(cfg'.members, blocks, Left', {}, {})
        /\ \A i \in promotions' : HeldIn(cfg'.members, blocks[i])
    BY <1>0, <2>1, MergeServes DEF PlaceTyped, Left
  <2>4. QueueInv'
    BY <2>1, <2>2 DEF QueueInv
  <2>5. RequestServes' /\ ServerServes'
    BY <2>1, <2>2, <2>3 DEF RequestServes, ServerServes, OkMeansDoneOrPending
  <2> QED BY <2>4, <2>5 DEF OutcomeInv
<1>3. CASE ReadConfigFails \/ PreflightInterrupted
  BY <1>0, <1>3, AbortServes DEF ReadConfigFails, PreflightInterrupted
<1>4. CASE Preflight
  <2>1. CASE Abort
    BY <1>0, <1>4, <2>1, AbortServes DEF Preflight
  <2>2. CASE pc' = "send" /\ UNCHANGED <<promotions, adds, cur, failed, result>>
    <3>1. /\ pc = "preflight" /\ op = "settings"
          /\ UNCHANGED <<blocks, op, cfg, pending, Left>>
      BY <1>0, <1>4, <2>2 DEF Preflight, PlaceTyped, Left
    <3> QED BY <2>2, <3>1 DEF OutcomeInv, QueueInv, RequestServes, ServerServes,
                              OkMeansDoneOrPending
  <2> QED BY <1>4, <2>1, <2>2 DEF Preflight
<1>5. CASE ReconfigSucceeds
  BY <1>5, ReturnServes DEF ReconfigSucceeds, Install, Acceptable
<1>6. CASE ReconfigLost \/ ReconfigFails \/ ReconfigRefused
  BY <1>6, ReturnServes DEF ReconfigLost, ReconfigFails, ReconfigRefused
<1>7. CASE ReconfigConflict
  <2>1. /\ cfg'.members = cfg.members
        /\ UNCHANGED <<installed, pc, blocks, op, promotions, adds, cur, pending, failed, result, Left>>
    BY <1>7 DEF ReconfigConflict, server, TypeInv, SentTyped, Config, Left
  <2> QED BY <2>1 DEF OutcomeInv, QueueInv, RequestServes, ServerServes, OkMeansDoneOrPending
<1>8. CASE PollStatus
  <2>1. /\ pc = "wait" /\ UNCHANGED <<installed, blocks, op, cfg, pending>>
        /\ cur \in Left /\ cur \in DOMAIN blocks /\ cur \notin pending
    BY <1>0, <1>8 DEF PollStatus, server, QueueInv, PlaceTyped
  <2>2. CASE pc' \in {"wait", "promote"} /\ UNCHANGED <<promotions, adds, cur, failed, result>>
    <3>1. UNCHANGED Left
      BY <2>2 DEF Left
    <3> QED BY <2>1, <2>2, <3>1 DEF OutcomeInv, QueueInv, RequestServes, ServerServes,
                                    OkMeansDoneOrPending
  <2>3. CASE ~NeedsPromotion(CurBlock) /\ MemberSettled
    <3>1. failed \/ StagedIn(installed.members, blocks[cur])
      BY <2>1 DEF OutcomeInv, ServerServes
    <3>2. failed \/ DoneIn(installed.members, blocks[cur], cur \in pending)
      <4>1. (cur \in pending) = FALSE
        BY <2>1
      <4>2. failed \/ DoneIn(installed.members, blocks[cur], FALSE)
        BY <1>0, <2>1, <2>3, <3>1, StagedIsDone DEF CurBlock
      <4> QED BY <4>1, <4>2
    <3>3. failed \/ Serves(installed.members, blocks, Left, promotions, pending)
      BY <2>1 DEF OutcomeInv, ServerServes
    <3>4. failed \/ Serves(installed'.members, blocks, Left \ {cur}, promotions \ {cur}, pending')
      BY <2>1, <3>2, <3>3 DEF Serves
    <3> QED BY <1>0, <2>1, <2>3, <3>4, SettledServes
  <2> QED BY <1>8, <2>1, <2>2, <2>3 DEF PollStatus
<1>9. CASE WaitTimeout
  <2>1. /\ pc = "wait" /\ UNCHANGED <<installed, blocks, op, cfg>>
        /\ cur \in Left /\ cur \in DOMAIN blocks /\ cur \notin pending
    BY <1>0, <1>9 DEF WaitTimeout, server, QueueInv, PlaceTyped
  <2>2. CASE pc' = "remove" /\ failed' = TRUE /\ UNCHANGED <<promotions, adds, pending, result>>
    BY <1>0, <2>1, <2>2 DEF OutcomeInv, QueueInv, RequestServes, ServerServes,
                            OkMeansDoneOrPending, Left
  <2>3. CASE NeedsPromotion(CurBlock) /\ pending' = pending \cup {cur} /\ MemberSettled
    <3>1. failed \/ DoneIn(installed.members, blocks[cur], cur \in pending')
      BY <1>0, <2>1, <2>3, StagedIsDone DEF CurBlock, OutcomeInv, ServerServes
    <3>2. failed \/ Serves(installed.members, blocks, Left, promotions, pending)
      BY <2>1 DEF OutcomeInv, ServerServes
    <3>3. \A i \in DOMAIN blocks : i # cur => (i \in pending' <=> i \in pending)
      BY <2>3
    <3>4. failed \/ Serves(installed'.members, blocks, Left \ {cur}, promotions \ {cur}, pending')
      BY <2>1, <3>1, <3>2, <3>3 DEF Serves
    <3> QED BY <1>0, <2>1, <2>3, <3>4, SettledServes
  <2>4. CASE MemberError /\ UNCHANGED pending
    BY <1>0, <2>1, <2>4, ErrorServes
  <2> QED BY <1>9, <2>2, <2>3, <2>4 DEF WaitTimeout
<1>10. CASE WaitInterrupted
  <2>1. pc = "wait" /\ UNCHANGED <<installed, blocks, op, cfg, pending>>
    BY <1>10 DEF WaitInterrupted, server
  <2>2. CASE pc' = "remove" /\ failed' = TRUE /\ UNCHANGED <<promotions, adds, result>>
    BY <1>0, <2>1, <2>2 DEF OutcomeInv, QueueInv, RequestServes, ServerServes,
                            OkMeansDoneOrPending, Left
  <2>3. CASE MemberError
    BY <1>0, <2>1, <2>3, ErrorServes
  <2> QED BY <1>10, <2>2, <2>3 DEF WaitInterrupted
<1>11. CASE PromoteMember
  <2> DEFINE new == {IF m.host = CurBlock.host THEN Promoted(m, CurBlock) ELSE m :
                        m \in installed.members}
  <2>1. /\ pc = "promote" /\ UNCHANGED <<installed, blocks, pending>>
        /\ cur \in Left /\ cur \in DOMAIN blocks /\ cur \notin pending
        /\ ValidateMemberOverrides(blocks) /\ blocks \in Seq(Block)
        /\ promotions \in SUBSET DOMAIN blocks
    BY <1>0, <1>11 DEF PromoteMember, server, QueueInv, PlaceTyped
  <2>2. failed \/ Serves(new, blocks, Left \ {cur}, promotions \ {cur}, pending)
    <3>1. failed \/ (/\ Serves(installed.members, blocks, Left, promotions, pending)
                     /\ StagedIn(installed.members, blocks[cur]))
      BY <2>1 DEF OutcomeInv, ServerServes
    <3> QED BY <1>0, <2>1, <3>1, PromotedServes DEF CurBlock
  <2>3. \/ MemberError /\ UNCHANGED <<op, cfg>>
        \/ new = installed.members /\ MemberSettled /\ UNCHANGED <<op, cfg>>
        \/ Send("promote", new)
    BY <1>11, PromotedSet DEF PromoteMember
  <2> HIDE DEF new
  <2>4. CASE MemberError
    BY <1>0, <2>1, <2>4, ErrorServes
  <2>5. CASE new = installed.members /\ MemberSettled
    BY <2>1, <2>2, <2>5, SettledServes
  <2>6. CASE Send("promote", new)
    <3>1. /\ cfg'.members = new /\ op' = "promote" /\ pc' = "send"
          /\ UNCHANGED <<promotions, adds, cur, failed, result, Left>>
      BY <2>6 DEF Send, Left
    <3> QED BY <2>1, <2>2, <3>1 DEF OutcomeInv, QueueInv, RequestServes, ServerServes,
                                    OkMeansDoneOrPending
  <2> QED BY <2>3, <2>4, <2>5, <2>6
<1>12. CASE AddMember
  <2> DEFINE id == NextMemberID(installed.members)
             new == installed.members \cup {StagedMember(CurBlock, id)}
  <2>1. /\ pc = "add" /\ UNCHANGED <<installed, blocks, pending>>
        /\ cur \in Left /\ cur \in DOMAIN blocks /\ ValidateMemberOverrides(blocks)
    BY <1>0, <1>12 DEF AddMember, server, QueueInv, PlaceTyped
  <2>2. CurBlock \in Block /\ CurBlock = blocks[cur]
    BY <1>0, <2>1 DEF CurBlock
  <2> HIDE DEF id
  <2>3. AsAdded(StagedMember(CurBlock, id), CurBlock)
    BY <2>2 DEF AsAdded, StagedMember, BuildConfigMember, Block
  <2>4. StagedIn(new, blocks[cur])
    BY <2>2, <2>3 DEF StagedIn
  <2>5. installed.members \subseteq new
    OBVIOUS
  <2>6. failed \/ Serves(new, blocks, Left, promotions, pending)
    <3> HIDE DEF new
    <3> QED BY <2>1, <2>5, MoreMembersServe DEF OutcomeInv, ServerServes
  <2>7. /\ cfg'.members = new /\ op' = "add" /\ pc' = "send"
        /\ UNCHANGED <<promotions, adds, cur, failed, result, Left>>
    BY <1>12 DEF AddMember, Send, Left, id
  <2> HIDE DEF new
  <2> QED BY <2>1, <2>4, <2>6, <2>7 DEF OutcomeInv, QueueInv, RequestServes, ServerServes,
                                        OkMeansDoneOrPending
<1>13. CASE RemoveMember
  <2>1. /\ pc = "remove" /\ UNCHANGED <<blocks, pending, promotions, adds, failed, Left>>
        /\ (pc' = "send" /\ op' = "remove") \/ pc' = "final"
    BY <1>13 DEF RemoveMember, Send, Left
  <2> QED BY <1>0, <2>1 DEF OutcomeInv, QueueInv, RequestServes, ServerServes,
                            OkMeansDoneOrPending
<1>14. CASE MemberReadFails
  BY <1>0, <1>14, ErrorServes DEF MemberReadFails
<1>15. CASE FinalRead
  <2>1. /\ pc = "final" /\ pc' = "idle" /\ result' = IF failed THEN "failed" ELSE "ok"
        /\ UNCHANGED <<installed, blocks, pending, Left>>
    BY <1>15 DEF FinalRead, server, work, Left
  <2>2. failed \/ (Left = {} /\ Serves(installed.members, blocks, Left, promotions, pending))
    BY <2>1 DEF OutcomeInv, ServerServes
  <2>3. OkMeansDoneOrPending'
    BY <2>1, <2>2 DEF OkMeansDoneOrPending, Serves
  <2> QED BY <1>0, <2>1, <2>3 DEF OutcomeInv, QueueInv, RequestServes, ServerServes
<1>16. CASE FinalReadFails
  <2>1. pc' = "idle" /\ result' = "unread" /\ UNCHANGED <<blocks, pending, Left>>
    BY <1>16 DEF FinalReadFails, work, Left
  <2> QED BY <1>0, <2>1 DEF OutcomeInv, QueueInv, RequestServes, ServerServes,
                            OkMeansDoneOrPending
<1>17. CASE AutoReconfig
  <2>1. installed'.members = installed.members
    BY <1>17 DEF AutoReconfig, TypeInv, ServerTyped, Config
  <2> QED BY <1>17, <2>1, QuietServes DEF AutoReconfig
<1>18. CASE Refresh \/ Import \/ Interrupt \/ ContextExpires \/ Nodes \/ Rest \/ UNCHANGED vars
  BY <1>18, QuietServes
  DEF Refresh, Import, Interrupt, ContextExpires, Nodes, NodeUp, NodeCatchesUp, NodeDown, NodeOnly,
      Rest, vars, server
<1> QED
  BY <1>1, <1>2, <1>3, <1>4, <1>5, <1>6, <1>7, <1>8, <1>9, <1>10, <1>11, <1>12, <1>13, <1>14,
     <1>15, <1>16, <1>17, <1>18
  DEF Next, Provider, Terraform

LEMMA OutcomeInit == Init => OutcomeInv
BY DEF Init, OutcomeInv, QueueInv, RequestServes, ServerServes, OkMeansDoneOrPending, Left

\* An apply that reports success has done what its blocks ask for, except for
\* the members it reports as pending, whatever was lost, retried or stale on
\* the way.  (SHARD-017, SHARD-018)
THEOREM SuccessIsTrue == Spec => []OkMeansDoneOrPending
<1>1. OutcomeInv => OkMeansDoneOrPending
  BY DEF OutcomeInv, ServerServes
<1> QED BY <1>1, TypeInit, TypeStep, OutcomeInit, OutcomeStep, PTL DEF Spec

---------------------------------------------------------------------------
(* An apply gets shorter *)

\* What is left to do at a place of the apply, the blocks still queued apart.
Stage(place, o) ==
    CASE place = "idle"      -> 0
      [] place = "final"     -> 1
      [] place = "send"      -> (CASE o = "remove" -> 2 [] o = "promote" -> 4
                                   [] o = "add" -> 7 [] OTHER -> 9)
      [] place = "remove"    -> 3
      [] place = "promote"   -> 5
      [] place = "wait"      -> 6
      [] place = "add"       -> 8
      [] place = "preflight" -> 10
      [] OTHER               -> 11

\* Each block still queued may take an add, a wait and a promotion, unless an
\* error has ended the member phase.
Weight(place, o, queued, all) ==
    Stage(place, o) + 9 * (IF Stage(place, o) < 4 THEN 0 ELSE IF place = "read" THEN all ELSE queued)

StepsLeft == Weight(pc, op, Cardinality(Left), Len(blocks))

LEMMA LeftIsFinite ==
    ASSUME PlaceTyped
    PROVE  /\ IsFiniteSet(Left) /\ Cardinality(Left) \in Nat /\ Len(blocks) \in Nat
           /\ Cardinality(Left) <= Len(blocks)
           /\ \A c \in Left : IsFiniteSet(Left \ {c}) /\ Cardinality(Left \ {c}) = Cardinality(Left) - 1
<1>1. /\ Left \subseteq 1 .. Len(blocks) /\ Len(blocks) \in Nat
  BY DEF PlaceTyped, Left
<1>2. IsFiniteSet(1 .. Len(blocks)) /\ Cardinality(1 .. Len(blocks)) = Len(blocks)
  BY <1>1, FS_Interval
<1>3. IsFiniteSet(Left) /\ Cardinality(Left) <= Len(blocks) /\ Cardinality(Left) \in Nat
  BY <1>1, <1>2, FS_Subset, FS_CardinalityType
<1>4. \A c \in Left : IsFiniteSet(Left \ {c}) /\ Cardinality(Left \ {c}) = Cardinality(Left) - 1
  BY <1>3, FS_RemoveElement
<1> QED BY <1>1, <1>3, <1>4

\* However the member phase goes on, it has the blocks left before it.
LEMMA NextMemberWeighs ==
    ASSUME PlaceTyped, NEW ps \in SUBSET DOMAIN blocks, NEW as \in SUBSET DOMAIN blocks,
           NextMember(ps, as), Cardinality(ps \cup as) \in Nat
    PROVE  StepsLeft' <= 8 + 9 * Cardinality(ps \cup as) /\ StepsLeft' \in Nat
<1>1. pc' \in {"wait", "add", "final"} /\ Left' = ps \cup as
  BY NextMemberTyped DEF Left
<1> DEFINE k == Cardinality(ps \cup as)
<1>2. StepsLeft' = Weight(pc', op', k, Len(blocks'))
  BY <1>1 DEF StepsLeft
<1>3. k \in Nat
  OBVIOUS
<1> HIDE DEF k
<1>4. StepsLeft' <= 8 + 9 * k /\ StepsLeft' \in Nat
  BY <1>1, <1>2, <1>3 DEF Weight, Stage
<1> QED BY <1>4 DEF k

\* A settled member is behind the apply.
LEMMA SettledWeighs ==
    ASSUME PlaceTyped, MemberSettled, cur \in Left, pc \in {"wait", "promote", "send"},
           pc = "send" => op = "promote"
    PROVE  StepsLeft' < StepsLeft /\ StepsLeft' \in Nat
<1> DEFINE k == Cardinality(Left)
           ps == promotions \ {cur}
           as == adds \ {cur}
<1>1. ps \cup as = Left \ {cur}
  BY DEF Left
<1>2. k \in Nat /\ Cardinality(ps \cup as) = k - 1 /\ Cardinality(ps \cup as) \in Nat
  <2>1. k \in Nat /\ IsFiniteSet(Left \ {cur}) /\ Cardinality(Left \ {cur}) = k - 1
    BY LeftIsFinite
  <2>2. Cardinality(Left \ {cur}) \in Nat
    BY <2>1, FS_CardinalityType
  <2> QED BY <1>1, <2>1, <2>2
<1>3. ps \in SUBSET DOMAIN blocks /\ as \in SUBSET DOMAIN blocks /\ NextMember(ps, as)
  BY DEF MemberSettled, PlaceTyped
<1> HIDE DEF ps, as
<1>4. StepsLeft' <= 8 + 9 * (k - 1) /\ StepsLeft' \in Nat
  BY <1>2, <1>3, NextMemberWeighs
<1>5. StepsLeft = Weight(pc, op, k, Len(blocks))
  BY DEF StepsLeft
<1> HIDE DEF k
<1>6. StepsLeft >= 4 + 9 * k /\ StepsLeft \in Nat
  BY <1>2, <1>5 DEF Weight, Stage
<1> QED BY <1>2, <1>4, <1>6

\* Where the apply goes from one place to a later one with the same queues.
LEMMA LaterWeighs ==
    ASSUME PlaceTyped, Left' = Left \/ Stage(pc', op') < 4, UNCHANGED blocks,
           Stage(pc', op') < Stage(pc, op), pc # "read", pc' # "read"
    PROVE  StepsLeft' < StepsLeft /\ StepsLeft' \in Nat
<1> DEFINE k == Cardinality(Left)
           n == Len(blocks)
           a == Stage(pc, op)
           b == Stage(pc', op')
<1>1. k \in Nat /\ n \in Nat
  BY LeftIsFinite
<1>2. a \in 0 .. 11 /\ b \in 0 .. 11 /\ b < a
  BY DEF Stage
<1>3. StepsLeft = a + 9 * (IF a < 4 THEN 0 ELSE k)
  BY DEF StepsLeft, Weight
<1>4. StepsLeft' = b + 9 * (IF b < 4 THEN 0 ELSE k)
  BY DEF StepsLeft, Weight
<1> HIDE DEF k, n, a, b
<1> QED BY <1>1, <1>2, <1>3, <1>4

LEMMA LeftPrimeIsFinite ==
    ASSUME PlaceTyped'
    PROVE  Cardinality(Left') \in Nat /\ Len(blocks') \in Nat /\ Cardinality(Left') <= Len(blocks')
<1>1. Left' \subseteq 1 .. Len(blocks') /\ Len(blocks') \in Nat
  BY DEF PlaceTyped, Left
<1>2. IsFiniteSet(1 .. Len(blocks')) /\ Cardinality(1 .. Len(blocks')) = Len(blocks')
  BY <1>1, FS_Interval
<1> QED BY <1>1, <1>2, FS_Subset, FS_CardinalityType

LEMMA ErrorIsLater ==
    ASSUME PlaceTyped, MemberError \/ Abort, pc \notin {"idle", "final", "read"}, UNCHANGED <<blocks, op>>
    PROVE  StepsLeft' < StepsLeft
<1>1. pc' \in {"idle", "final"}
  BY DEF MemberError, Abort
<1>2. Stage(pc', op') < 4 /\ Stage(pc', op') < Stage(pc, op) /\ pc' # "read"
  BY <1>1 DEF Stage, PlaceTyped, Locations
<1> QED BY <1>2, LaterWeighs

LEMMA ReturnIsLater ==
    ASSUME TypeInv, QueueInv, pc = "send", NEW ok \in BOOLEAN, ReconfigReturns(ok),
           UNCHANGED <<blocks, op>>
    PROVE  StepsLeft' < StepsLeft
<1>1. PlaceTyped
  BY DEF TypeInv
<1>2. CASE op = "settings" /\ ok
  <2>1. NextMember(promotions, adds)
    BY <1>2 DEF ReconfigReturns
  <2>2. promotions \in SUBSET DOMAIN blocks /\ adds \in SUBSET DOMAIN blocks
    BY <1>1 DEF PlaceTyped
  <2>3. Cardinality(Left) \in Nat
    BY <1>1, LeftIsFinite
  <2>4. StepsLeft' <= 8 + 9 * Cardinality(Left) /\ StepsLeft' \in Nat
    BY <1>1, <2>1, <2>2, <2>3, NextMemberWeighs DEF Left
  <2>5. StepsLeft = 9 + 9 * Cardinality(Left)
    BY <1>2 DEF StepsLeft, Weight, Stage
  <2> QED BY <2>3, <2>4, <2>5
<1>3. CASE op = "settings" /\ ~ok
  BY <1>1, <1>3, ErrorIsLater DEF ReconfigReturns
<1>4. CASE op = "promote" /\ ok
  <2>1. cur \in Left /\ MemberSettled
    BY <1>4 DEF ReconfigReturns, QueueInv
  <2> QED BY <1>1, <1>4, <2>1, SettledWeighs
<1>5. CASE op = "promote" /\ ~ok
  BY <1>1, <1>5, ErrorIsLater DEF ReconfigReturns
<1>6. CASE op \in {"add", "remove"}
  <2>1. /\ pc' \in {"wait", "remove", "final"} /\ Left' = Left
        /\ op = "remove" => pc' = "final"
    BY <1>6 DEF ReconfigReturns, Left
  <2>2. Stage(pc', op') < Stage(pc, op) /\ pc' # "read"
    BY <1>6, <2>1 DEF Stage
  <2> QED BY <1>1, <2>1, <2>2, LaterWeighs
<1> QED BY <1>1, <1>2, <1>3, <1>4, <1>5, <1>6 DEF PlaceTyped

\* A poll that finds nothing new to act on, and a conflict of versions, leave
\* the apply where it is.
Again == (pc = "wait" /\ pc' = "wait") \/ ReconfigConflict

LEMMA StaysAsLong ==
    ASSUME UNCHANGED <<pc, op, promotions, adds, blocks>> PROVE StepsLeft' = StepsLeft
BY DEF StepsLeft, Left

LEMMA ProviderGetsShorter ==
    ASSUME TypeInv, QueueInv, Provider
    PROVE  StepsLeft' < StepsLeft \/ (StepsLeft' = StepsLeft /\ Again)
<1>1. PlaceTyped /\ PlaceTyped'
  BY TypeStep DEF TypeInv, Next
<1>2. CASE ReadConfig
  <2>1. pc = "read" /\ pc' \in {"preflight", "send"} /\ op' = "settings" /\ UNCHANGED blocks
    BY <1>2 DEF ReadConfig
  <2>2. /\ Cardinality(Left') \in Nat /\ Len(blocks) \in Nat
        /\ Cardinality(Left') <= Len(blocks)
    BY <1>1, <2>1, LeftPrimeIsFinite
  <2> DEFINE k == Cardinality(Left')
             n == Len(blocks)
  <2>3. StepsLeft = 11 + 9 * n
    BY <2>1 DEF StepsLeft, Weight, Stage
  <2>4. StepsLeft' = Stage(pc', op') + 9 * k /\ Stage(pc', op') \in {9, 10}
    BY <2>1 DEF StepsLeft, Weight, Stage
  <2> HIDE DEF k, n
  <2>5. k \in Nat /\ n \in Nat /\ k <= n
    BY <2>2 DEF k, n
  <2> QED BY <2>3, <2>4, <2>5
<1>3. CASE ReadConfigFails
  <2>1. pc = "read" /\ pc' = "idle" /\ Len(blocks) \in Nat
    BY <1>1, <1>3, LeftIsFinite DEF ReadConfigFails, Abort
  <2>2. StepsLeft' = 0 /\ StepsLeft = 11 + 9 * Len(blocks)
    BY <2>1 DEF StepsLeft, Weight, Stage
  <2> QED BY <2>1, <2>2
<1>4. CASE Preflight \/ PreflightInterrupted
  <2>1. pc = "preflight" /\ UNCHANGED <<blocks, op>>
    BY <1>4 DEF Preflight, PreflightInterrupted
  <2>2. CASE Abort
    BY <1>1, <2>1, <2>2, ErrorIsLater
  <2>3. CASE pc' = "send" /\ UNCHANGED <<promotions, adds>>
    <3>1. Left' = Left /\ Stage(pc', op') < Stage(pc, op) /\ pc' # "read"
      BY <2>1, <2>3 DEF Left, Stage
    <3> QED BY <1>1, <2>1, <3>1, LaterWeighs
  <2> QED BY <1>4, <2>2, <2>3 DEF Preflight, PreflightInterrupted
<1>5. CASE ReconfigSucceeds \/ ReconfigLost \/ ReconfigFails \/ ReconfigRefused
  <2>1. /\ pc = "send" /\ UNCHANGED <<blocks, op>>
        /\ ReconfigReturns(TRUE) \/ ReconfigReturns(FALSE)
    BY <1>5 DEF ReconfigSucceeds, ReconfigLost, ReconfigFails, ReconfigRefused
  <2> QED BY <2>1, ReturnIsLater
<1>6. CASE ReconfigConflict
  <2>1. UNCHANGED <<pc, op, promotions, adds, blocks>>
    BY <1>6 DEF ReconfigConflict
  <2> QED BY <1>6, <2>1, StaysAsLong DEF Again
<1>7. CASE PollStatus
  <2>1. pc = "wait" /\ UNCHANGED <<blocks, op>> /\ cur \in Left
    BY <1>7 DEF PollStatus, QueueInv
  <2>2. CASE MemberSettled
    BY <1>1, <2>1, <2>2, SettledWeighs
  <2>3. CASE pc' = "promote" /\ UNCHANGED <<promotions, adds>>
    <3>1. Left' = Left /\ Stage(pc', op') < Stage(pc, op) /\ pc' # "read"
      BY <2>1, <2>3 DEF Left, Stage
    <3> QED BY <1>1, <2>1, <3>1, LaterWeighs
  <2>4. CASE UNCHANGED <<pc, promotions, adds>>
    BY <2>1, <2>4, StaysAsLong DEF Again
  <2> QED BY <1>7, <2>2, <2>3, <2>4 DEF PollStatus
<1>8. CASE WaitTimeout \/ WaitInterrupted
  <2>1. pc = "wait" /\ UNCHANGED <<blocks, op>> /\ cur \in Left
    BY <1>8 DEF WaitTimeout, WaitInterrupted, QueueInv
  <2>2. CASE MemberSettled
    BY <1>1, <2>1, <2>2, SettledWeighs
  <2>3. CASE MemberError
    BY <1>1, <2>1, <2>3, ErrorIsLater
  <2>4. CASE pc' = "remove"
    <3>1. Stage(pc', op') < 4 /\ Stage(pc', op') < Stage(pc, op) /\ pc' # "read"
      BY <2>1, <2>4 DEF Stage
    <3> QED BY <1>1, <2>1, <3>1, LaterWeighs
  <2> QED BY <1>8, <2>2, <2>3, <2>4 DEF WaitTimeout, WaitInterrupted
<1>9. CASE PromoteMember
  <2>1. pc = "promote" /\ UNCHANGED blocks /\ cur \in Left
    BY <1>9 DEF PromoteMember, QueueInv
  <2>2. CASE MemberError /\ UNCHANGED op
    BY <1>1, <2>1, <2>2, ErrorIsLater
  <2>3. CASE MemberSettled
    BY <1>1, <2>1, <2>3, SettledWeighs
  <2>4. CASE pc' = "send" /\ op' = "promote" /\ UNCHANGED <<promotions, adds>>
    <3>1. Left' = Left /\ Stage(pc', op') < Stage(pc, op) /\ pc' # "read"
      BY <2>1, <2>4 DEF Left, Stage
    <3> QED BY <1>1, <2>1, <3>1, LaterWeighs
  <2> QED BY <1>9, <2>2, <2>3, <2>4 DEF PromoteMember, Send
<1>10. CASE AddMember
  <2>1. /\ pc = "add" /\ pc' = "send" /\ op' = "add" /\ UNCHANGED <<blocks, promotions, adds>>
    BY <1>10 DEF AddMember, Send
  <2>2. Left' = Left /\ Stage(pc', op') < Stage(pc, op) /\ pc' # "read"
    BY <2>1 DEF Left, Stage
  <2> QED BY <1>1, <2>1, <2>2, LaterWeighs
<1>11. CASE RemoveMember
  <2>1. /\ pc = "remove" /\ UNCHANGED blocks
        /\ (pc' = "send" /\ op' = "remove") \/ pc' = "final"
    BY <1>11 DEF RemoveMember, Send
  <2>2. Stage(pc', op') < 4 /\ Stage(pc', op') < Stage(pc, op) /\ pc' # "read"
    BY <2>1 DEF Stage
  <2> QED BY <1>1, <2>1, <2>2, LaterWeighs
<1>12. CASE MemberReadFails
  BY <1>1, <1>12, ErrorIsLater DEF MemberReadFails
<1>13. CASE FinalRead \/ FinalReadFails
  <2>1. pc = "final" /\ pc' = "idle" /\ UNCHANGED blocks
    BY <1>13 DEF FinalRead, FinalReadFails
  <2>2. Stage(pc', op') < 4 /\ Stage(pc', op') < Stage(pc, op) /\ pc' # "read"
    BY <2>1 DEF Stage
  <2> QED BY <1>1, <2>1, <2>2, LaterWeighs
<1> QED
  BY <1>2, <1>3, <1>4, <1>5, <1>6, <1>7, <1>8, <1>9, <1>10, <1>11, <1>12, <1>13 DEF Provider

LEMMA StepsAreBounded == PlaceTyped => StepsLeft \in 0 .. 11 + 9 * Len(blocks)
<1> SUFFICES ASSUME PlaceTyped PROVE StepsLeft \in 0 .. 11 + 9 * Len(blocks)
  OBVIOUS
<1> DEFINE k == Cardinality(Left)
           n == Len(blocks)
           a == Stage(pc, op)
<1>1. k \in Nat /\ n \in Nat /\ k <= n
  BY LeftIsFinite
<1>2. a \in 0 .. 11
  BY DEF Stage
<1>3. StepsLeft = a + 9 * (IF a < 4 THEN 0 ELSE IF pc = "read" THEN n ELSE k)
  BY DEF StepsLeft, Weight
<1> HIDE DEF k, n, a
<1>4. StepsLeft \in 0 .. 11 + 9 * n
  BY <1>1, <1>2, <1>3
<1> QED BY <1>4 DEF n

\* Nothing but the next apply makes work: an apply of n blocks is over after at
\* most 11 + 9 * n steps of the provider, the polls of a wait and the retries
\* after a conflict apart.  Those are what the deadlines are for.  (SHARD-016,
\* INIT-026)
THEOREM ApplyGetsShorter ==
    Spec => /\ [](StepsLeft \in 0 .. 11 + 9 * Len(blocks))
            /\ [][\/ BeginApply
                  \/ StepsLeft' < StepsLeft
                  \/ StepsLeft' = StepsLeft /\ (Provider => Again)]_vars
<1>1. TypeInv /\ OutcomeInv /\ [Next]_vars =>
          [\/ BeginApply
           \/ StepsLeft' < StepsLeft
           \/ StepsLeft' = StepsLeft /\ (Provider => Again)]_vars
  <2> SUFFICES ASSUME TypeInv, OutcomeInv, Next
               PROVE  \/ BeginApply
                      \/ StepsLeft' < StepsLeft
                      \/ StepsLeft' = StepsLeft /\ (Provider => Again)
    OBVIOUS
  <2>1. CASE Provider
    BY <2>1, ProviderGetsShorter DEF OutcomeInv
  <2>2. CASE Refresh \/ Import \/ Nodes \/ Interrupt \/ ContextExpires \/ AutoReconfig \/ Rest
    <3>1. UNCHANGED <<pc, op, promotions, adds, blocks>>
      BY <2>2 DEF Refresh, Import, Nodes, NodeUp, NodeCatchesUp, NodeDown, NodeOnly, Interrupt,
         ContextExpires, AutoReconfig, Rest, vars, work
    <3> QED BY <2>1, <3>1, StaysAsLong
  <2> QED BY <2>1, <2>2 DEF Next, Terraform
<1>2. TypeInv => StepsLeft \in 0 .. 11 + 9 * Len(blocks)
  BY StepsAreBounded DEF TypeInv
<1> QED BY <1>1, <1>2, TypeInit, TypeStep, OutcomeInit, OutcomeStep, PTL DEF Spec
===========================================================================
