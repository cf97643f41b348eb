-------------------- MODULE ShardConfigMembershipProofs --------------------
(***************************************************************************)
(* The properties of ShardConfigApply that protect a replica set from its  *)
(* own apply: no vote before the sync, no removal but of an own add never  *)
(* seen up, an _id kept by its host, one new vote at a time; and that the  *)
(* apply implements ReplicaSetMembership.  The invariants behind them      *)
(* relate the configuration on its way to the one the server holds.  Then  *)
(* what a success leaves for the next plan, and what of all this survives  *)
(* a second operator (ShardConfigRivals).                                  *)
(***************************************************************************)
EXTENDS ShardConfigApplyProofs, ShardConfigRivals

---------------------------------------------------------------------------
(* Where a step can lead *)

\* A settled member is followed by another member or by the final read.
LEMMA SettledPlace == MemberSettled => pc' \in {"wait", "add", "final"}
BY DEF MemberSettled, NextMember

\* Whatever the reconfig returned, nothing is on its way any more.
LEMMA ReturnPlace ==
    ASSUME NEW ok \in BOOLEAN, ReconfigReturns(ok)
    PROVE  pc' \in {"wait", "add", "remove", "final", "idle"}
BY SettledPlace DEF ReconfigReturns, NextMember, Abort, MemberError

\* Every host a member list has and another lacks, in terms of the list.
LEMMA StagedHosts ==
    ASSUME NEW members \in SUBSET Member, NEW b \in Block, NEW id \in Nat
    PROVE  LET new == members \cup {StagedMember(b, id)} IN
           /\ HostsOf(new) = HostsOf(members) \cup {b.host}
           /\ DataVoters(new) \subseteq Voters(members)
<1> DEFINE s == StagedMember(b, id)
<1>1. s \in Member /\ s.host = b.host /\ (s.arbiter \/ s.votes = 0)
  BY StagedMemberHasNoDataVote
<1> HIDE DEF s
<1>2. HostsOf(members \cup {s}) = HostsOf(members) \cup {b.host}
  BY <1>1 DEF HostsOf
<1>3. DataVoters(members \cup {s}) \subseteq Voters(members)
  BY <1>1 DEF DataVoters, Voters
<1> QED BY <1>2, <1>3 DEF s

---------------------------------------------------------------------------
(* No vote before the sync *)

\* A configuration on its way gives a new vote only to a member seen synced,
\* and a promotion starts only for one.
VoteInv ==
    /\ pc \in {"preflight", "send"} =>
          DataVoters(cfg.members) \ Voters(installed.members) \subseteq seen
    /\ pc = "promote" => CurBlock.host \in seen

\* The held promotions: the settings reconfig raises no vote.  (SHARD-023)
LEMMA MergeRaisesNoVote ==
    ASSUME NEW members \in SUBSET Member, NEW bs \in Seq(Block)
    PROVE  DataVoters(MergeMembers(members, bs)) \subseteq Voters(members)
<1>1. \A k \in MergeMembers(members, bs) :
         \E m \in members : m.host = k.host /\ k.votes <= m.votes
  BY MergeMembersKeeps
<1>2. \A m \in members : m.votes \in {0, 1}
  BY DEF Member
<1> QED BY <1>1, <1>2 DEF DataVoters, Voters

LEMMA VoteStep == TypeInv /\ VoteInv /\ [Next]_vars => VoteInv'
<1> SUFFICES ASSUME TypeInv, VoteInv, [Next]_vars PROVE VoteInv'
  OBVIOUS
<1>0. CASE pc' \notin {"preflight", "send", "promote"}
  BY <1>0 DEF VoteInv
<1>1. CASE ReadConfig
  <2>1. DataVoters(cfg'.members) \subseteq Voters(installed.members)
    BY <1>1, InstalledTyped, MergeRaisesNoVote DEF ReadConfig, TypeInv, PlaceTyped
  <2> QED BY <1>1, <2>1 DEF ReadConfig, VoteInv, server, history
<1>2. CASE Preflight
  <2>1. pc = "preflight" /\ pc' # "promote" /\ UNCHANGED <<installed, cfg, seen>>
    BY <1>2 DEF Preflight, Abort, server
  <2> QED BY <2>1 DEF VoteInv
<1>3. CASE PollStatus
  <2>1. pc' \in {"wait", "promote", "add", "final"}
    BY <1>3, SettledPlace DEF PollStatus
  <2>2. ASSUME pc' = "promote" PROVE CurBlock'.host \in seen'
    <3>1. /\ Reachable(installed.members, CurBlock.host, node[CurBlock.host])
          /\ TargetMet(WaitTargetFor(CurBlock), node[CurBlock.host])
          /\ NeedsPromotion(CurBlock) /\ UNCHANGED <<cur, blocks>>
      BY <1>3, <2>2, SettledPlace DEF PollStatus
    <3>2. node[CurBlock.host] \in {"secondary", "primary"}
      BY <3>1 DEF WaitTargetFor, NeedsPromotion, TargetMet
    <3>3. seen' = seen \cup {CurBlock.host}
      BY <1>3, <3>1, <3>2 DEF PollStatus
    <3> QED BY <3>1, <3>3 DEF CurBlock
  <2> QED BY <2>1, <2>2 DEF VoteInv
<1>4. CASE PromoteMember
  <2>1. CASE pc' = "send"
    <3> DEFINE new == {IF m.host = CurBlock.host THEN Promoted(m, CurBlock) ELSE m :
                          m \in installed.members}
    <3>1. cfg'.members = new
      BY <1>4, <2>1, PromotedSet, SettledPlace DEF PromoteMember, Send, MemberError
    <3>2. CurBlock \in Block
      BY <1>4, BlocksTyped DEF PromoteMember, TypeInv, PlaceTyped, CurBlock
    <3>3. \A k \in new : k.host = CurBlock.host \/ k \in installed.members
      BY <3>2, InstalledTyped, PromotedKeeps DEF TypeInv
    <3>4. CurBlock.host \in seen
      BY <1>4 DEF PromoteMember, VoteInv
    <3> HIDE DEF new
    <3>5. DataVoters(new) \ Voters(installed.members) \subseteq seen
      BY <3>3, <3>4 DEF DataVoters, Voters
    <3>6. UNCHANGED <<installed, seen>>
      BY <1>4 DEF PromoteMember, server, history
    <3> QED BY <2>1, <3>1, <3>5, <3>6 DEF VoteInv
  <2>2. CASE pc' # "send"
    <3>1. pc' \in {"wait", "add", "final"}
      BY <1>4, <2>2, SettledPlace DEF PromoteMember, Send, MemberError
    <3> QED BY <3>1 DEF VoteInv
  <2> QED BY <2>1, <2>2
<1>5. CASE AddMember
  <2>1. CurBlock \in Block
    BY <1>5, BlocksTyped DEF AddMember, TypeInv, PlaceTyped, CurBlock
  <2>2. NextMemberID(installed.members) \in Nat
    BY InstalledTyped, NextMemberIDIsFresh DEF TypeInv
  <2>3. DataVoters(cfg'.members) \subseteq Voters(installed.members)
    BY <1>5, <2>1, <2>2, InstalledTyped, StagedHosts DEF AddMember, Send, TypeInv
  <2> QED BY <1>5, <2>3 DEF AddMember, Send, server, VoteInv
<1>6. CASE RemoveMember
  <2>1. CASE pc' = "send"
    <3>1. cfg'.members = {m \in installed.members : m.host # CurBlock.host}
      BY <1>6, <2>1 DEF RemoveMember, Send
    <3>2. DataVoters(cfg'.members) \subseteq Voters(installed.members)
      BY <3>1 DEF DataVoters, Voters
    <3> QED BY <1>6, <2>1, <3>2 DEF RemoveMember, server, VoteInv
  <2>2. CASE pc' # "send"
    BY <1>6, <2>2 DEF RemoveMember, Send, VoteInv
  <2> QED BY <2>1, <2>2
<1>7. CASE ReconfigConflict
  BY <1>7 DEF ReconfigConflict, server, history, VoteInv, TypeInv, SentTyped, Config
<1>8. CASE AutoReconfig
  <2>1. installed'.members = installed.members
    BY <1>8 DEF AutoReconfig, TypeInv, ServerTyped, Config
  <2> QED BY <1>8, <2>1 DEF AutoReconfig, work, history, VoteInv, CurBlock
<1>9. CASE UNCHANGED <<installed, pc, blocks, cfg, cur, seen>>
  BY <1>9 DEF VoteInv, CurBlock
<1>10. CASE ReconfigSucceeds \/ ReconfigLost \/ ReconfigFails \/ ReconfigRefused
  BY <1>0, <1>10, ReturnPlace DEF ReconfigSucceeds, ReconfigLost, ReconfigFails, ReconfigRefused
<1>11. CASE WaitTimeout \/ WaitInterrupted
  BY <1>0, <1>11, SettledPlace DEF WaitTimeout, WaitInterrupted, MemberError
<1>12. CASE BeginApply \/ ReadConfigFails \/ PreflightInterrupted \/ MemberReadFails
  BY <1>0, <1>12 DEF BeginApply, ReadConfigFails, PreflightInterrupted, MemberReadFails,
                     MemberError, Abort
<1>13. CASE FinalRead \/ FinalReadFails
  BY <1>0, <1>13 DEF FinalRead, FinalReadFails
<1>14. CASE Refresh \/ Import \/ Interrupt \/ ContextExpires \/ Rest \/ UNCHANGED vars
  BY <1>9, <1>14 DEF Refresh, Import, Interrupt, ContextExpires, Rest, vars, server, work, history
<1>15. CASE Nodes
  BY <1>9, <1>15 DEF Nodes, NodeUp, NodeCatchesUp, NodeDown, NodeOnly, work, history
<1> QED
  BY <1>1, <1>2, <1>3, <1>4, <1>5, <1>6, <1>7, <1>8, <1>10, <1>11, <1>12, <1>13, <1>14, <1>15
  DEF Next, Provider, Terraform

\* What each step does to the configuration the server holds.
LEMMA InstalledChanges ==
    ASSUME TypeInv, [Next]_vars
    PROVE  \/ installed'.members = installed.members
           \/ pc = "send" /\ installed' = cfg /\ Acceptable(installed.members, cfg.members)
              /\ added' = IF op = "add" THEN added \cup {CurBlock.host} ELSE added
<1>1. CASE ReconfigSucceeds \/ ReconfigLost
  BY <1>1 DEF ReconfigSucceeds, ReconfigLost, Install
<1>2. CASE AutoReconfig
  BY <1>2 DEF AutoReconfig, TypeInv, ServerTyped, Config
<1>3. CASE UNCHANGED installed
  BY <1>3
<1>4. CASE \/ ReadConfig \/ ReadConfigFails \/ Preflight \/ PreflightInterrupted
           \/ ReconfigFails \/ ReconfigRefused \/ ReconfigConflict \/ PollStatus
           \/ WaitTimeout \/ WaitInterrupted \/ PromoteMember \/ AddMember \/ RemoveMember
           \/ MemberReadFails \/ FinalRead \/ FinalReadFails
  BY <1>3, <1>4
  DEF ReadConfig, ReadConfigFails, Preflight, PreflightInterrupted, ReconfigFails,
      ReconfigRefused, ReconfigConflict, PollStatus, WaitTimeout, WaitInterrupted,
      PromoteMember, AddMember, RemoveMember, MemberReadFails, FinalRead, FinalReadFails, server
<1>5. CASE Terraform \/ Nodes \/ Interrupt \/ ContextExpires \/ Rest \/ UNCHANGED vars
  BY <1>3, <1>5
  DEF Terraform, BeginApply, Refresh, Import, Nodes, NodeUp, NodeCatchesUp, NodeDown, NodeOnly,
      Interrupt, ContextExpires, Rest, vars, server
<1> QED BY <1>1, <1>2, <1>4, <1>5 DEF Next, Provider

\* A data-bearing member gets a vote only after the apply saw it synced,
\* whatever fails, is lost or is retried.  (SHARD-022, SHARD-023)
THEOREM NoVoteBeforeSync == Spec => VotesFollowSync
<1>1. Init => VoteInv
  BY DEF Init, VoteInv
<1>2. TypeInv /\ VoteInv /\ [Next]_vars =>
         DataVoters(installed'.members) \ Voters(installed.members) \subseteq seen
  <2> SUFFICES ASSUME TypeInv, VoteInv, [Next]_vars
               PROVE  DataVoters(installed'.members) \ Voters(installed.members) \subseteq seen
    OBVIOUS
  <2>1. CASE installed'.members = installed.members
    BY <2>1 DEF DataVoters, Voters
  <2>2. CASE pc = "send" /\ installed' = cfg
    BY <2>2 DEF VoteInv
  <2> QED BY <2>1, <2>2, InstalledChanges
<1> QED BY <1>1, <1>2, TypeInit, TypeStep, VoteStep, PTL DEF Spec, VotesFollowSync

---------------------------------------------------------------------------
(* No removal but of an own add never seen up *)

InAdd == pc = "add" \/ (pc = "send" /\ op = "add")
InRollback == pc = "remove" \/ (pc = "send" /\ op = "remove")
InSettle == pc \in {"wait", "promote"} \/ (pc = "send" /\ op = "promote")
BeforeMembers == pc \in {"read", "preflight"} \/ (pc = "send" /\ op = "settings")

\* The blocks to add and to promote name different hosts.
QueuesDisjoint ==
    pc \notin {"idle", "read"} =>
        ValidateMemberOverrides(blocks) /\ promotions \cap adds = {}

\* A configuration on its way differs from the server's in the host being
\* added or removed, and in no other.
OneHostChanges ==
    pc \in {"preflight", "send"} =>
        /\ HostsOf(installed.members) \ HostsOf(cfg.members)
              \subseteq (IF op = "remove" THEN {CurBlock.host} ELSE {})
        /\ HostsOf(cfg.members) \ HostsOf(installed.members)
              \subseteq (IF op = "add" THEN {CurBlock.host} ELSE {})

\* A block still to add names a host outside the set, unless this apply
\* added it; it has been seen up only while it is the one waited for.
AddsAreOurs ==
    pc \notin {"idle", "read"} =>
        \A i \in adds :
            /\ blocks[i].host \in HostsOf(installed.members) => blocks[i].host \in added
            /\ blocks[i].host \in seen => i = cur /\ wait.everReachable

\* Only a block still to add is added or rolled back, and then it has not
\* been seen up.
CurIsQueued ==
    /\ InAdd \/ InRollback => cur \in adds /\ ~wait.everReachable
    /\ InSettle => cur \in promotions \cup adds
    /\ BeforeMembers => seen = {}

RemovalInv == QueuesDisjoint /\ OneHostChanges /\ AddsAreOurs /\ CurIsQueued

\* The queues after a member is settled or the settings are in.
LEMMA NextMemberKeeps ==
    ASSUME TypeInv, RemovalInv, pc \notin {"idle", "read", "preflight"},
           NEW ps \in SUBSET promotions, NEW as \in SUBSET adds,
           NextMember(ps, as), UNCHANGED blocks,
           \A i \in as : /\ blocks[i].host \in HostsOf(installed'.members) => blocks[i].host \in added'
                         /\ blocks[i].host \notin seen'
    PROVE  RemovalInv'
<1>1. /\ pc' \in {"wait", "add", "final"} /\ promotions' = ps /\ adds' = as /\ wait' = NoWait
      /\ ps \in SUBSET DOMAIN blocks /\ as \in SUBSET DOMAIN blocks
  BY NextMemberTyped DEF TypeInv, PlaceTyped
<1>2. /\ ps # {} => Min(ps) \in ps
      /\ as # {} => Min(as) \in as
  BY <1>1, BlocksTyped, MinIsLeast DEF TypeInv
<1>3. (pc' = "add" => cur' \in as) /\ (pc' = "wait" => cur' \in ps)
  BY <1>2 DEF NextMember
<1>4. QueuesDisjoint'
  BY <1>1 DEF RemovalInv, QueuesDisjoint
<1>5. OneHostChanges'
  BY <1>1 DEF OneHostChanges
<1>6. AddsAreOurs'
  BY <1>1 DEF AddsAreOurs
<1>7. CurIsQueued'
  BY <1>1, <1>3 DEF CurIsQueued, InAdd, InRollback, InSettle, BeforeMembers, NoWait
<1> QED BY <1>4, <1>5, <1>6, <1>7 DEF RemovalInv

\* The same after any member is settled.
LEMMA SettledKeeps ==
    ASSUME TypeInv, RemovalInv, pc \in {"wait", "promote", "send"}, MemberSettled,
           UNCHANGED <<blocks, seen>>,
           \A i \in adds : blocks[i].host \in HostsOf(installed'.members) => blocks[i].host \in added'
    PROVE  RemovalInv'
<1>1. NextMember(promotions \ {cur}, adds \ {cur})
  BY DEF MemberSettled
<1>2. \A i \in adds \ {cur} : blocks[i].host \notin seen'
  BY DEF RemovalInv, AddsAreOurs
<1>3. promotions \ {cur} \in SUBSET promotions /\ adds \ {cur} \in SUBSET adds
  OBVIOUS
<1> QED BY <1>1, <1>2, <1>3, NextMemberKeeps

\* A place where nothing is on its way and no block is being settled.
LEMMA QuietPlaceKeeps ==
    ASSUME RemovalInv, pc \notin {"idle", "read"}, pc' \in {"idle", "final"},
           UNCHANGED <<blocks, promotions, adds, cur, wait, seen>>,
           \A i \in adds : blocks[i].host \in HostsOf(installed'.members) => blocks[i].host \in added'
    PROVE  RemovalInv'
BY DEF RemovalInv, QueuesDisjoint, OneHostChanges, AddsAreOurs, CurIsQueued,
       InAdd, InRollback, InSettle, BeforeMembers

\* The reconfig that is on its way gets in: the blocks still to add stay ours.
LEMMA InstallKeepsAdds ==
    ASSUME TypeInv, RemovalInv, pc = "send", UNCHANGED blocks,
           \/ UNCHANGED <<installed, added>>
           \/ installed' = cfg /\ added' = IF op = "add" THEN added \cup {CurBlock.host} ELSE added
    PROVE  \A i \in adds : blocks[i].host \in HostsOf(installed'.members) => blocks[i].host \in added'
BY DEF RemovalInv, OneHostChanges, AddsAreOurs

LEMMA ReturnKeeps ==
    ASSUME TypeInv, RemovalInv, pc = "send", NEW ok \in BOOLEAN, ReconfigReturns(ok),
           UNCHANGED <<blocks, op, seen>>,
           \/ UNCHANGED <<installed, added>>
           \/ installed' = cfg /\ added' = IF op = "add" THEN added \cup {CurBlock.host} ELSE added
    PROVE  RemovalInv'
<1>1. \A i \in adds : blocks[i].host \in HostsOf(installed'.members) => blocks[i].host \in added'
  BY InstallKeepsAdds
<1>2. CASE op = "settings" /\ ok
  <2>1. NextMember(promotions, adds) /\ seen = {}
    BY <1>2 DEF ReconfigReturns, RemovalInv, CurIsQueued, BeforeMembers
  <2> QED BY <1>1, <2>1, NextMemberKeeps
<1>3. CASE op = "promote" /\ ok
  <2>1. MemberSettled
    BY <1>3 DEF ReconfigReturns
  <2> QED BY <1>1, <2>1, SettledKeeps
<1>4. CASE (op \in {"settings", "promote"} /\ ~ok) \/ op = "remove"
  <2>1. pc' \in {"idle", "final"} /\ UNCHANGED <<promotions, adds, cur, wait>>
    BY <1>4 DEF ReconfigReturns, Abort, MemberError
  <2> QED BY <1>1, <2>1, QuietPlaceKeeps
<1>5. CASE op = "add"
  <2>1. pc' \in {"wait", "remove"} /\ UNCHANGED <<promotions, adds, cur, wait>>
    BY <1>5 DEF ReconfigReturns
  <2>2. cur \in adds /\ ~wait.everReachable
    BY <1>5 DEF RemovalInv, CurIsQueued, InAdd
  <2> QED BY <1>1, <2>1, <2>2
          DEF RemovalInv, QueuesDisjoint, OneHostChanges, AddsAreOurs, CurIsQueued,
              InAdd, InRollback, InSettle, BeforeMembers
<1> QED BY <1>2, <1>3, <1>4, <1>5 DEF TypeInv, PlaceTyped

\* A request built from the configuration just read.
LEMMA SendKeeps ==
    ASSUME RemovalInv, pc \in {"promote", "add", "remove"},
           NEW o \in {"promote", "add", "remove"}, o = pc, NEW ms, Send(o, ms),
           UNCHANGED <<installed, blocks, seen, added>>,
           HostsOf(installed.members) \ HostsOf(ms)
              \subseteq (IF o = "remove" THEN {CurBlock.host} ELSE {}),
           HostsOf(ms) \ HostsOf(installed.members)
              \subseteq (IF o = "add" THEN {CurBlock.host} ELSE {})
    PROVE  RemovalInv'
<1>1. /\ cfg'.members = ms /\ op' = o /\ pc' = "send"
      /\ UNCHANGED <<promotions, adds, cur, wait>>
  BY DEF Send
<1> QED BY <1>1 DEF RemovalInv, QueuesDisjoint, OneHostChanges, AddsAreOurs, CurIsQueued,
              InAdd, InRollback, InSettle, BeforeMembers, CurBlock

LEMMA RemovalStep == TypeInv /\ RemovalInv /\ [Next]_vars => RemovalInv'
<1> SUFFICES ASSUME TypeInv, RemovalInv, [Next]_vars PROVE RemovalInv'
  OBVIOUS
<1>1. CASE BeginApply
  <2>1. pc' = "read" /\ seen' = {}
    BY <1>1 DEF BeginApply
  <2> QED BY <2>1 DEF RemovalInv, QueuesDisjoint, OneHostChanges, AddsAreOurs, CurIsQueued,
                      InAdd, InRollback, InSettle, BeforeMembers
<1>2. CASE ReadConfig
  <2>1. /\ pc = "read" /\ ValidateMemberOverrides(blocks) /\ op' = "settings"
        /\ cfg'.members = MergeMembers(installed.members, blocks)
        /\ promotions' = PromotingBlocks(installed.members, blocks)
        /\ adds' = MissingBlocks(installed.members, blocks)
        /\ pc' \in {"preflight", "send"}
        /\ UNCHANGED <<installed, blocks, cur, wait, added, seen>>
    BY <1>2 DEF ReadConfig, server, history
  <2>2. blocks \in Seq(Block)
    BY DEF TypeInv, PlaceTyped
  <2>3. seen = {}
    BY <2>1 DEF RemovalInv, CurIsQueued, BeforeMembers
  <2>4. HostsOf(cfg'.members) = HostsOf(installed.members)
    BY <2>1, <2>2, InstalledTyped, MergeMembersKeeps DEF TypeInv
  <2>5. /\ promotions' \cap adds' = {}
        /\ \A i \in adds' : blocks[i].host \notin HostsOf(installed.members)
    BY <2>1, <2>2, PartitionIsDisjoint
  <2>6. QueuesDisjoint' /\ AddsAreOurs'
    BY <2>1, <2>3, <2>5 DEF QueuesDisjoint, AddsAreOurs
  <2>7. OneHostChanges' /\ CurIsQueued'
    BY <2>1, <2>3, <2>4 DEF OneHostChanges, CurIsQueued, InAdd, InRollback, InSettle, BeforeMembers
  <2> QED BY <2>6, <2>7 DEF RemovalInv
<1>3. CASE pc' = "idle" /\ pc \in {"read", "preflight", "final"}
  BY <1>3 DEF RemovalInv, QueuesDisjoint, OneHostChanges, AddsAreOurs, CurIsQueued,
              InAdd, InRollback, InSettle, BeforeMembers
<1>4. CASE \/ ReadConfigFails \/ PreflightInterrupted \/ FinalRead \/ FinalReadFails
  BY <1>3, <1>4 DEF ReadConfigFails, PreflightInterrupted, FinalRead, FinalReadFails, Abort
<1>5. CASE Preflight
  <2>1. /\ pc = "preflight" /\ pc' \in {"send", "idle"} /\ op = "settings"
        /\ UNCHANGED <<installed, cfg, op, blocks, promotions, adds, cur, wait, added, seen>>
    BY <1>5 DEF Preflight, Abort, server, TypeInv, PlaceTyped
  <2> QED BY <2>1 DEF RemovalInv, QueuesDisjoint, OneHostChanges, AddsAreOurs, CurIsQueued,
                      InAdd, InRollback, InSettle, BeforeMembers, CurBlock
<1>6. CASE ReconfigSucceeds
  BY <1>6, ReturnKeeps DEF ReconfigSucceeds, Install
<1>7. CASE ReconfigLost
  BY <1>7, ReturnKeeps DEF ReconfigLost, Install
<1>8. CASE ReconfigFails
  BY <1>8, ReturnKeeps DEF ReconfigFails, server, history
<1>9. CASE ReconfigRefused
  BY <1>9, ReturnKeeps DEF ReconfigRefused, server, history
<1>10. CASE ReconfigConflict
  <2>1. cfg'.members = cfg.members
    BY <1>10 DEF ReconfigConflict, TypeInv, SentTyped, Config
  <2>2. UNCHANGED <<installed, pc, op, blocks, promotions, adds, cur, wait, added, seen>>
    BY <1>10 DEF ReconfigConflict, server, history
  <2> QED BY <2>1, <2>2 DEF RemovalInv, QueuesDisjoint, OneHostChanges, AddsAreOurs, CurIsQueued,
                      InAdd, InRollback, InSettle, BeforeMembers, CurBlock
<1>11. CASE AutoReconfig
  <2>1. installed'.members = installed.members
    BY <1>11 DEF AutoReconfig, TypeInv, ServerTyped, Config
  <2>2. UNCHANGED <<cfg, pc, op, blocks, promotions, adds, cur, wait, added, seen>>
    BY <1>11 DEF AutoReconfig, work, history
  <2> QED BY <2>1, <2>2 DEF RemovalInv, QueuesDisjoint, OneHostChanges, AddsAreOurs, CurIsQueued,
                      InAdd, InRollback, InSettle, BeforeMembers, CurBlock
<1>12. CASE PollStatus
  <2> DEFINE up == Reachable(installed.members, CurBlock.host, node[CurBlock.host])
  <2>1. /\ pc = "wait" /\ seen' \subseteq (IF up THEN seen \cup {CurBlock.host} ELSE seen)
        /\ UNCHANGED <<installed, blocks, op, cfg, added>>
    BY <1>12 DEF PollStatus, server
  <2>2. cur \in promotions \cup adds
    BY <2>1 DEF RemovalInv, CurIsQueued, InSettle
  <2>3. promotions \cup adds \subseteq DOMAIN blocks
    BY DEF TypeInv, PlaceTyped
  <2>4. \A i \in adds : i # cur => blocks[i].host # CurBlock.host /\ blocks[i].host \notin seen'
    <3> SUFFICES ASSUME NEW i \in adds, i # cur
                 PROVE  blocks[i].host # CurBlock.host /\ blocks[i].host \notin seen'
      OBVIOUS
    <3>1. blocks[i].host # blocks[cur].host
      BY <2>1, <2>2, <2>3 DEF RemovalInv, QueuesDisjoint, ValidateMemberOverrides
    <3>2. blocks[i].host \notin seen
      BY <2>1 DEF RemovalInv, AddsAreOurs
    <3> QED BY <2>1, <3>1, <3>2 DEF CurBlock
  <2>5. cur \in adds /\ CurBlock.host \in seen => wait.everReachable
    BY <2>1 DEF RemovalInv, AddsAreOurs, CurBlock
  <2>6. \A i \in adds : blocks[i].host \in HostsOf(installed.members) => blocks[i].host \in added
    BY <2>1 DEF RemovalInv, AddsAreOurs
  <2>7. CASE MemberSettled
    <3>1. NextMember(promotions \ {cur}, adds \ {cur})
      BY <2>7 DEF MemberSettled
    <3>2. promotions \ {cur} \in SUBSET promotions /\ adds \ {cur} \in SUBSET adds
      OBVIOUS
    <3> HIDE DEF up
    <3> QED BY <2>1, <2>4, <2>6, <3>1, <3>2, NextMemberKeeps
  <2>8. CASE /\ pc' \in {"wait", "promote"} /\ UNCHANGED <<promotions, adds, cur>>
             /\ wait'.everReachable = TRUE \/ (wait'.everReachable = wait.everReachable /\ ~up)
    <3> HIDE DEF up
    <3>1. AddsAreOurs'
      BY <2>1, <2>4, <2>5, <2>6, <2>8 DEF AddsAreOurs, CurBlock
    <3> QED BY <2>1, <2>2, <2>8, <3>1
            DEF RemovalInv, QueuesDisjoint, OneHostChanges, CurIsQueued,
                InAdd, InRollback, InSettle, BeforeMembers
  <2>9. MemberSettled \/
        (/\ pc' \in {"wait", "promote"} /\ UNCHANGED <<promotions, adds, cur>>
         /\ wait'.everReachable = TRUE \/ (wait'.everReachable = wait.everReachable /\ ~up))
    <3> DEFINE met == up /\ TargetMet(WaitTargetFor(CurBlock), node[CurBlock.host])
    <3>1. CASE ~met
      <4>1. wait' = [observed |-> TRUE, everReachable |-> wait.everReachable \/ up]
        BY <1>12, <3>1 DEF PollStatus
      <4>2. UNCHANGED <<pc, promotions, adds, cur>>
        BY <1>12, <3>1 DEF PollStatus
      <4>3. wait.everReachable \in BOOLEAN /\ up \in BOOLEAN
        BY DEF TypeInv, PlaceTyped, Reachable
      <4> HIDE DEF up, met
      <4>4. wait'.everReachable = (wait.everReachable \/ up)
        BY <4>1
      <4>5. CASE up
        BY <2>1, <4>2, <4>4, <4>5
      <4>6. CASE ~up
        BY <2>1, <4>2, <4>3, <4>4, <4>6
      <4> QED BY <4>5, <4>6
    <3>2. CASE met /\ NeedsPromotion(CurBlock)
      BY <1>12, <3>2 DEF PollStatus
    <3>3. CASE met /\ ~NeedsPromotion(CurBlock)
      BY <1>12, <3>3 DEF PollStatus
    <3> QED BY <3>1, <3>2, <3>3
  <2> QED BY <2>7, <2>8, <2>9
<1>13. CASE WaitTimeout \/ WaitInterrupted
  <2>1. /\ pc = "wait" /\ UNCHANGED <<installed, blocks, op, cfg, added, seen>>
        /\ \/ /\ pc' = "remove" /\ cur \in adds /\ ~wait.everReachable
              /\ UNCHANGED <<promotions, adds, cur, wait>>
           \/ MemberSettled
           \/ pc' = "final" /\ UNCHANGED <<promotions, adds, cur, wait>>
    BY <1>13 DEF WaitTimeout, WaitInterrupted, NeverSeenUp, AddedNow, MemberError, server, history
  <2>2. \A i \in adds : blocks[i].host \in HostsOf(installed.members) => blocks[i].host \in added
    BY <2>1 DEF RemovalInv, AddsAreOurs
  <2>3. CASE pc' = "remove" /\ cur \in adds /\ ~wait.everReachable
             /\ UNCHANGED <<promotions, adds, cur, wait>>
    BY <2>1, <2>3 DEF RemovalInv, QueuesDisjoint, OneHostChanges, AddsAreOurs, CurIsQueued,
                      InAdd, InRollback, InSettle, BeforeMembers
  <2>4. CASE MemberSettled
    BY <2>1, <2>2, <2>4, SettledKeeps
  <2>5. CASE pc' = "final" /\ UNCHANGED <<promotions, adds, cur, wait>>
    BY <2>1, <2>2, <2>5, QuietPlaceKeeps
  <2> QED BY <2>1, <2>3, <2>4, <2>5
<1>14. CASE PromoteMember
  <2>1. pc = "promote" /\ UNCHANGED <<installed, blocks, added, seen>>
    BY <1>14 DEF PromoteMember, server, history
  <2>2. CurBlock \in Block
    BY <2>1, BlocksTyped DEF TypeInv, PlaceTyped, CurBlock
  <2> DEFINE new == {IF m.host = CurBlock.host THEN Promoted(m, CurBlock) ELSE m :
                        m \in installed.members}
  <2>3. HostsOf(new) = HostsOf(installed.members)
    BY <2>2, InstalledTyped, PromotedKeeps DEF TypeInv
  <2>4. MemberError \/ MemberSettled \/ Send("promote", new)
    BY <1>14, PromotedSet DEF PromoteMember
  <2>5. \A i \in adds : blocks[i].host \in HostsOf(installed.members) => blocks[i].host \in added
    BY <2>1 DEF RemovalInv, AddsAreOurs
  <2> HIDE DEF new
  <2>6. CASE MemberError
    BY <2>1, <2>5, <2>6, QuietPlaceKeeps DEF MemberError
  <2>7. CASE MemberSettled
    BY <2>1, <2>5, <2>7, SettledKeeps
  <2>8. CASE Send("promote", new)
    BY <2>1, <2>3, <2>8, SendKeeps
  <2> QED BY <2>4, <2>6, <2>7, <2>8
<1>15. CASE AddMember
  <2>1. pc = "add" /\ UNCHANGED <<installed, blocks, added, seen>>
    BY <1>15 DEF AddMember, server, history
  <2>2. CurBlock \in Block
    BY <2>1, BlocksTyped DEF TypeInv, PlaceTyped, CurBlock
  <2> DEFINE new == installed.members \cup {StagedMember(CurBlock, NextMemberID(installed.members))}
  <2>3. HostsOf(new) = HostsOf(installed.members) \cup {CurBlock.host}
    BY <2>2, InstalledTyped, NextMemberIDIsFresh, StagedHosts DEF TypeInv
  <2>4. Send("add", new)
    BY <1>15 DEF AddMember
  <2> HIDE DEF new
  <2> QED BY <2>1, <2>3, <2>4, SendKeeps
<1>16. CASE RemoveMember
  <2>1. pc = "remove" /\ UNCHANGED <<installed, blocks, added, seen>>
    BY <1>16 DEF RemoveMember, server, history
  <2> DEFINE new == {m \in installed.members : m.host # CurBlock.host}
  <2>2. HostsOf(new) = HostsOf(installed.members) \ {CurBlock.host}
    BY DEF HostsOf
  <2>3. \/ Send("remove", new)
        \/ pc' = "final" /\ UNCHANGED <<promotions, adds, cur, wait>>
    BY <1>16 DEF RemoveMember
  <2>4. \A i \in adds : blocks[i].host \in HostsOf(installed.members) => blocks[i].host \in added
    BY <2>1 DEF RemovalInv, AddsAreOurs
  <2> HIDE DEF new
  <2>5. CASE Send("remove", new)
    BY <2>1, <2>2, <2>5, SendKeeps
  <2>6. CASE pc' = "final" /\ UNCHANGED <<promotions, adds, cur, wait>>
    BY <2>1, <2>4, <2>6, QuietPlaceKeeps
  <2> QED BY <2>3, <2>5, <2>6
<1>17. CASE MemberReadFails
  <2>1. /\ pc \in {"promote", "add", "remove"} /\ pc' = "final"
        /\ UNCHANGED <<installed, blocks, promotions, adds, cur, wait, added, seen>>
    BY <1>17 DEF MemberReadFails, MemberError, server, history
  <2>2. \A i \in adds : blocks[i].host \in HostsOf(installed.members) => blocks[i].host \in added
    BY <2>1 DEF RemovalInv, AddsAreOurs
  <2> QED BY <2>1, <2>2, QuietPlaceKeeps
<1>18. CASE Refresh \/ Import \/ Interrupt \/ ContextExpires \/ Nodes \/ Rest \/ UNCHANGED vars
  <2>1. UNCHANGED <<installed, cfg, pc, op, blocks, promotions, adds, cur, wait, added, seen>>
    BY <1>18 DEF Refresh, Import, Interrupt, ContextExpires, Nodes, NodeUp, NodeCatchesUp, NodeDown,
                 NodeOnly, Rest, vars, server, work, history
  <2> QED BY <2>1 DEF RemovalInv, QueuesDisjoint, OneHostChanges, AddsAreOurs, CurIsQueued,
                      InAdd, InRollback, InSettle, BeforeMembers, CurBlock
<1> QED
  BY <1>1, <1>2, <1>4, <1>5, <1>6, <1>7, <1>8, <1>9, <1>10, <1>11, <1>12, <1>13, <1>14, <1>15,
     <1>16, <1>17, <1>18
  DEF Next, Provider, Terraform

LEMMA RemovalInit == Init => RemovalInv
BY DEF Init, RemovalInv, QueuesDisjoint, OneHostChanges, AddsAreOurs, CurIsQueued,
       InAdd, InRollback, InSettle, BeforeMembers

\* A host leaves the set only if the same apply put it there and never saw
\* it up and settled.  (SHARD-017, SHARD-019)
THEOREM RollbackOnly == Spec => RemovesOnlyOwnAdds
<1>1. TypeInv /\ RemovalInv /\ [Next]_vars =>
         \A h \in HostsOf(installed.members) \ HostsOf(installed'.members) :
            h \in added /\ h \notin seen
  <2> SUFFICES ASSUME TypeInv, RemovalInv, [Next]_vars,
                      NEW h \in HostsOf(installed.members) \ HostsOf(installed'.members)
               PROVE  h \in added /\ h \notin seen
    OBVIOUS
  <2>1. pc = "send" /\ installed' = cfg
    BY InstalledChanges
  <2>2. op = "remove" /\ h = CurBlock.host
    BY <2>1 DEF RemovalInv, OneHostChanges
  <2>3. cur \in adds /\ ~wait.everReachable
    BY <2>1, <2>2 DEF RemovalInv, CurIsQueued, InRollback
  <2> QED BY <2>1, <2>2, <2>3 DEF RemovalInv, AddsAreOurs, CurBlock
<1> QED BY <1>1, RemovalInit, TypeInit, TypeStep, RemovalStep, PTL DEF Spec, RemovesOnlyOwnAdds

---------------------------------------------------------------------------
(* Hosts keep their _ids *)

SameIds(old, new) == \A m \in old, k \in new : m.host = k.host <=> m.id = k.id

UniqueInstalled == UniqueHostsAndIds(installed.members)

RequestIds == pc \in {"preflight", "send"} => SameIds(installed.members, cfg.members)

\* A block still to add names a host outside the set, except while the member
\* just added is waited for, promoted or rolled back.
StillOut ==
    pc \notin {"idle", "read", "final"} =>
        \A i \in adds : blocks[i].host \in HostsOf(installed.members) =>
            i = cur /\ (InSettle \/ InRollback)

IdInv == UniqueInstalled /\ RequestIds /\ StillOut

LEMMA IdsOfMembers ==
    ASSUME NEW old, UniqueHostsAndIds(old), NEW new,
           \A k \in new : \E m \in old : m.host = k.host /\ m.id = k.id
    PROVE  SameIds(old, new)
BY DEF UniqueHostsAndIds, SameIds

LEMMA PromotedKeepsIds ==
    ASSUME NEW members \in SUBSET Member, NEW b \in Block
    PROVE  \A k \in {IF m.host = b.host THEN Promoted(m, b) ELSE m : m \in members} :
              \E m \in members : m.host = k.host /\ m.id = k.id
<1> DEFINE change(m) == IF m.host = b.host THEN Promoted(m, b) ELSE m
<1>1. \A m \in members : change(m).host = m.host /\ change(m).id = m.id
  BY DEF Promoted, Member
<1> HIDE DEF change
<1>2. \A k \in {change(m) : m \in members} : \E m \in members : m.host = k.host /\ m.id = k.id
  BY <1>1
<1> QED BY <1>2 DEF change

\* The _id of a staged member is new, and so is its host.  (SHARD-014)
LEMMA StagedIsNew ==
    ASSUME NEW members \in SUBSET Member, BoundedIds(members), UniqueHostsAndIds(members),
           NEW b \in Block, b.host \notin HostsOf(members)
    PROVE  LET new == members \cup {StagedMember(b, NextMemberID(members))} IN
           /\ SameIds(members, new)
           /\ \A k \in new : k.host = b.host => k.arbiter = b.arbiter
           /\ Voters(new) \subseteq Voters(members) \cup {b.host}
<1> DEFINE s == StagedMember(b, NextMemberID(members))
<1>1. NextMemberID(members) \in Nat /\ \A m \in members : m.id < NextMemberID(members)
  BY NextMemberIDIsFresh
<1>2. s.host = b.host /\ s.id = NextMemberID(members)
  BY <1>1, StagedMemberHasNoDataVote
<1>3. s.arbiter = b.arbiter
  BY DEF StagedMember, BuildConfigMember, Block
<1>4. \A m \in members : m.host # s.host /\ m.id # s.id
  BY <1>1, <1>2 DEF HostsOf, Member
<1> HIDE DEF s
<1>5. SameIds(members, members \cup {s})
  BY <1>4 DEF SameIds, UniqueHostsAndIds
<1>6. \A k \in members \cup {s} : k.host = b.host => k.arbiter = b.arbiter
  BY <1>2, <1>3, <1>4
<1>7. Voters(members \cup {s}) \subseteq Voters(members) \cup {b.host}
  BY <1>2 DEF Voters
<1> QED BY <1>5, <1>6, <1>7 DEF s

\* What the server accepts names each host and each _id once.
LEMMA UniqueStep == TypeInv /\ UniqueInstalled /\ [Next]_vars => UniqueInstalled'
BY InstalledChanges DEF UniqueInstalled, Acceptable, WellFormedMembers

\* The queues after a member is settled or the settings are in.
LEMMA NextMemberStays ==
    ASSUME NEW ps, NEW as \in SUBSET adds, NextMember(ps, as), UNCHANGED blocks,
           \A i \in as : blocks[i].host \notin HostsOf(installed'.members)
    PROVE  RequestIds' /\ StillOut'
BY DEF NextMember, RequestIds, StillOut

LEMMA SettledStays ==
    ASSUME IdInv, pc \in {"wait", "promote", "send"}, MemberSettled, UNCHANGED blocks,
           HostsOf(installed'.members) \subseteq HostsOf(installed.members)
    PROVE  RequestIds' /\ StillOut'
<1>1. NextMember(promotions \ {cur}, adds \ {cur})
  BY DEF MemberSettled
<1>2. adds \ {cur} \in SUBSET adds
  OBVIOUS
<1>3. \A i \in adds \ {cur} : blocks[i].host \notin HostsOf(installed'.members)
  BY DEF IdInv, StillOut
<1> QED BY <1>1, <1>2, <1>3, NextMemberStays

\* The call that carries a request returns.
LEMMA ReturnStays ==
    ASSUME TypeInv, RemovalInv, IdInv, pc = "send", NEW ok \in BOOLEAN, ReconfigReturns(ok),
           UNCHANGED <<blocks, op>>, UNCHANGED installed \/ installed' = cfg
    PROVE  RequestIds' /\ StillOut'
<1>1. HostsOf(installed'.members) \subseteq
          HostsOf(installed.members) \cup (IF op = "add" THEN {CurBlock.host} ELSE {})
  BY DEF RemovalInv, OneHostChanges
<1>2. CASE op = "settings" /\ ok
  <2>1. NextMember(promotions, adds)
    BY <1>2 DEF ReconfigReturns
  <2>2. \A i \in adds : blocks[i].host \notin HostsOf(installed'.members)
    BY <1>1, <1>2 DEF IdInv, StillOut, InSettle, InRollback
  <2> QED BY <2>1, <2>2, NextMemberStays
<1>3. CASE op = "promote" /\ ok
  BY <1>1, <1>3, SettledStays DEF ReconfigReturns
<1>4. CASE (op \in {"settings", "promote"} /\ ~ok) \/ op = "remove"
  <2>1. pc' \in {"idle", "final"}
    BY <1>4 DEF ReconfigReturns, Abort, MemberError
  <2> QED BY <2>1 DEF RequestIds, StillOut
<1>5. CASE op = "add"
  <2>1. pc' \in {"wait", "remove"} /\ UNCHANGED <<promotions, adds, cur>>
    BY <1>5 DEF ReconfigReturns
  <2>2. cur \in adds /\ \A i \in adds : blocks[i].host \notin HostsOf(installed.members)
    BY <1>5 DEF RemovalInv, CurIsQueued, InAdd, IdInv, StillOut, InSettle, InRollback
  <2>3. \A i \in adds : i # cur => blocks[i].host # CurBlock.host
    BY <2>2 DEF RemovalInv, QueuesDisjoint, ValidateMemberOverrides, CurBlock, TypeInv, PlaceTyped
  <2>4. \A i \in adds : i # cur => blocks[i].host \notin HostsOf(installed'.members)
    BY <1>1, <2>2, <2>3
  <2> QED BY <2>1, <2>4 DEF RequestIds, StillOut, InSettle, InRollback
<1> QED BY <1>2, <1>3, <1>4, <1>5 DEF TypeInv, PlaceTyped

\* A request built from the configuration just read.
LEMMA SendStays ==
    ASSUME IdInv, pc \in {"promote", "add", "remove"},
           NEW o \in {"promote", "add", "remove"}, o = pc, NEW ms, Send(o, ms),
           UNCHANGED <<installed, blocks>>, SameIds(installed.members, ms)
    PROVE  RequestIds' /\ StillOut'
<1>1. cfg'.members = ms /\ op' = o /\ pc' = "send" /\ UNCHANGED <<adds, cur>>
  BY DEF Send
<1> QED BY <1>1 DEF IdInv, RequestIds, StillOut, InSettle, InRollback

LEMMA IdStep == TypeInv /\ RemovalInv /\ IdInv /\ [Next]_vars => IdInv'
<1> SUFFICES ASSUME TypeInv, RemovalInv, IdInv, [Next]_vars PROVE IdInv'
  OBVIOUS
<1>0. UniqueInstalled'
  BY UniqueStep DEF IdInv
<1> SUFFICES RequestIds' /\ StillOut'
  BY <1>0 DEF IdInv
<1>1. CASE pc' \in {"idle", "read", "final"}
  BY <1>1 DEF RequestIds, StillOut
<1>2. CASE ReadConfig
  <2>1. /\ cfg'.members = MergeMembers(installed.members, blocks)
        /\ adds' = MissingBlocks(installed.members, blocks)
        /\ UNCHANGED <<installed, blocks>>
    BY <1>2 DEF ReadConfig, server
  <2>2. blocks \in Seq(Block)
    BY DEF TypeInv, PlaceTyped
  <2>3. \A k \in cfg'.members : \E m \in installed.members : m.host = k.host /\ m.id = k.id
    BY <2>1, <2>2, InstalledTyped, MergeMembersKeeps DEF TypeInv
  <2>4. RequestIds'
    BY <2>1, <2>3, IdsOfMembers DEF IdInv, UniqueInstalled, RequestIds
  <2>5. \A i \in adds' : blocks[i].host \notin HostsOf(installed.members)
    BY <2>1 DEF MissingBlocks
  <2> QED BY <2>1, <2>4, <2>5 DEF StillOut
<1>3. CASE Preflight /\ pc' = "send"
  <2>1. pc = "preflight" /\ op = "settings" /\ UNCHANGED <<installed, cfg, op, blocks, adds, cur>>
    BY <1>3 DEF Preflight, Abort, server, TypeInv, PlaceTyped
  <2> QED BY <1>3, <2>1 DEF IdInv, RequestIds, StillOut, InSettle, InRollback
<1>4. CASE ReconfigSucceeds
  BY <1>4, ReturnStays DEF ReconfigSucceeds, Install
<1>5. CASE ReconfigLost
  BY <1>5, ReturnStays DEF ReconfigLost, Install
<1>6. CASE ReconfigFails \/ ReconfigRefused
  BY <1>6, ReturnStays DEF ReconfigFails, ReconfigRefused, server
<1>7. CASE ReconfigConflict \/ AutoReconfig
  <2>1. cfg'.members = cfg.members /\ installed'.members = installed.members
    BY <1>7 DEF ReconfigConflict, AutoReconfig, server, work, TypeInv, SentTyped, ServerTyped, Config
  <2>2. UNCHANGED <<pc, op, blocks, adds, cur>>
    BY <1>7 DEF ReconfigConflict, AutoReconfig, work
  <2> QED BY <2>1, <2>2 DEF IdInv, RequestIds, StillOut, InSettle, InRollback
<1>8. CASE PollStatus \/ WaitTimeout \/ WaitInterrupted
  <2>1. /\ pc = "wait" /\ UNCHANGED <<installed, blocks>>
        /\ \/ MemberSettled
           \/ pc' \in {"wait", "promote", "remove"} /\ UNCHANGED <<adds, cur>>
           \/ pc' = "final"
    BY <1>8 DEF PollStatus, WaitTimeout, WaitInterrupted, MemberError, server
  <2>2. CASE MemberSettled
    BY <2>1, <2>2, SettledStays
  <2>3. CASE pc' \in {"wait", "promote", "remove"} /\ UNCHANGED <<adds, cur>>
    BY <2>1, <2>3 DEF IdInv, RequestIds, StillOut, InSettle, InRollback
  <2> QED BY <1>1, <2>1, <2>2, <2>3
<1>9. CASE PromoteMember
  <2>1. pc = "promote" /\ UNCHANGED <<installed, blocks>>
    BY <1>9 DEF PromoteMember, server
  <2>2. CurBlock \in Block
    BY <2>1, BlocksTyped DEF TypeInv, PlaceTyped, CurBlock
  <2> DEFINE new == {IF m.host = CurBlock.host THEN Promoted(m, CurBlock) ELSE m :
                        m \in installed.members}
  <2>3. \A k \in new : \E m \in installed.members : m.host = k.host /\ m.id = k.id
    BY <2>2, InstalledTyped, PromotedKeepsIds DEF TypeInv
  <2>4. MemberError \/ MemberSettled \/ Send("promote", new)
    BY <1>9, PromotedSet DEF PromoteMember
  <2> HIDE DEF new
  <2>5. SameIds(installed.members, new)
    BY <2>3, IdsOfMembers DEF IdInv, UniqueInstalled
  <2>6. CASE MemberError
    BY <1>1, <2>6 DEF MemberError
  <2>7. CASE MemberSettled
    BY <2>1, <2>7, SettledStays
  <2>8. CASE Send("promote", new)
    BY <2>1, <2>5, <2>8, SendStays
  <2> QED BY <2>4, <2>6, <2>7, <2>8
<1>10. CASE AddMember
  <2>1. pc = "add" /\ UNCHANGED <<installed, blocks>>
    BY <1>10 DEF AddMember, server
  <2>2. CurBlock \in Block
    BY <2>1, BlocksTyped DEF TypeInv, PlaceTyped, CurBlock
  <2>3. CurBlock.host \notin HostsOf(installed.members)
    BY <2>1 DEF RemovalInv, CurIsQueued, InAdd, IdInv, StillOut, InSettle, InRollback, CurBlock
  <2> DEFINE new == installed.members \cup {StagedMember(CurBlock, NextMemberID(installed.members))}
  <2>4. SameIds(installed.members, new)
    BY <2>2, <2>3, InstalledTyped, StagedIsNew DEF TypeInv, IdInv, UniqueInstalled
  <2>5. Send("add", new)
    BY <1>10 DEF AddMember
  <2> HIDE DEF new
  <2> QED BY <2>1, <2>4, <2>5, SendStays
<1>11. CASE RemoveMember
  <2>1. pc = "remove" /\ UNCHANGED <<installed, blocks>>
    BY <1>11 DEF RemoveMember, server
  <2> DEFINE new == {m \in installed.members : m.host # CurBlock.host}
  <2>2. \/ Send("remove", new)
        \/ pc' = "final"
    BY <1>11 DEF RemoveMember
  <2>3. SameIds(installed.members, new)
    BY IdsOfMembers DEF IdInv, UniqueInstalled
  <2> HIDE DEF new
  <2> QED BY <1>1, <2>1, <2>2, <2>3, SendStays
<1>12. CASE \/ BeginApply \/ ReadConfigFails \/ (Preflight /\ pc' # "send")
            \/ PreflightInterrupted \/ MemberReadFails \/ FinalRead \/ FinalReadFails
  BY <1>1, <1>12 DEF BeginApply, ReadConfigFails, Preflight, PreflightInterrupted,
     MemberReadFails, FinalRead, FinalReadFails, Abort, MemberError
<1>13. CASE Refresh \/ Import \/ Interrupt \/ ContextExpires \/ Nodes \/ Rest \/ UNCHANGED vars
  <2>1. UNCHANGED <<installed, cfg, pc, op, blocks, adds, cur>>
    BY <1>13 DEF Refresh, Import, Interrupt, ContextExpires, Nodes, NodeUp, NodeCatchesUp, NodeDown,
       NodeOnly, Rest, vars, server, work
  <2> QED BY <2>1 DEF IdInv, RequestIds, StillOut, InSettle, InRollback
<1> QED
  BY <1>2, <1>3, <1>4, <1>5, <1>6, <1>7, <1>8, <1>9, <1>10, <1>11, <1>12, <1>13
  DEF Next, Provider, Terraform

LEMMA IdInit == Init => IdInv
BY ConfigsAssumption DEF Init, IdInv, UniqueInstalled, RequestIds, StillOut, WellFormedMembers

\* A request never gives a host another _id nor an _id to another host, over
\* any sequence of adds, rollbacks and repeated applies.  (SHARD-014)
THEOREM IdsAreKept == Spec => []RequestKeepsIds
<1>1. IdInv => RequestKeepsIds
  BY DEF IdInv, RequestIds, SameIds, RequestKeepsIds
<1> QED BY <1>1, RemovalInit, IdInit, TypeInit, TypeStep, RemovalStep, IdStep, PTL DEF Spec

---------------------------------------------------------------------------
(* The majority moves by one *)

\* A request on its way gives at most the vote of the block being settled.
OneNewVote ==
    pc \in {"preflight", "send"} =>
        Voters(cfg.members) \ Voters(installed.members) \subseteq {CurBlock.host}

\* An arbiter is added only after it answered, and is the arbiter of its block.
AnsweredFirst ==
    /\ ArbitersInspected
    /\ BeforeMembers => added = {}
    /\ pc \notin {"idle", "read", "preflight"} =>
           \A i \in adds : blocks[i].arbiter => blocks[i].host \in inspected
    /\ pc = "send" /\ op = "add" =>
           \A k \in cfg.members : k.host = CurBlock.host => k.arbiter = CurBlock.arbiter

MajorityInv == OneNewVote /\ AnsweredFirst

LEMMA AtMostOne ==
    ASSUME NEW x, NEW S, S \subseteq {x} PROVE Cardinality(S) <= 1
<1>1. S = {} \/ S = {x}
  OBVIOUS
<1>2. Cardinality({}) = 0 /\ Cardinality({x}) = 1
  BY FS_EmptySet, FS_Singleton
<1> QED BY <1>1, <1>2

LEMMA MajorityImplies == RemovalInv /\ MajorityInv => MajorityMovesByOne
<1> SUFFICES ASSUME RemovalInv, MajorityInv PROVE MajorityMovesByOne
  OBVIOUS
<1>1. ASSUME pc = "send"
      PROVE  /\ Cardinality(Voters(cfg.members) \ Voters(installed.members)) <= 1
             /\ Cardinality(HostsOf(cfg.members) \ HostsOf(installed.members)) <= 1
  <2>1. Voters(cfg.members) \ Voters(installed.members) \subseteq {CurBlock.host}
    BY <1>1 DEF MajorityInv, OneNewVote
  <2>2. HostsOf(cfg.members) \ HostsOf(installed.members) \subseteq {CurBlock.host}
    BY <1>1 DEF RemovalInv, OneHostChanges
  <2> QED BY <2>1, <2>2, AtMostOne
<1> QED BY <1>1 DEF MajorityInv, AnsweredFirst, MajorityMovesByOne, OneVoterPerRequest

\* The settings reconfig gives nobody a vote.  (SHARD-023)
LEMMA MergeGivesNoVote ==
    ASSUME NEW members \in SUBSET Member, NEW bs \in Seq(Block)
    PROVE  Voters(MergeMembers(members, bs)) \subseteq Voters(members)
<1>1. \A k \in MergeMembers(members, bs) :
         \E m \in members : m.host = k.host /\ k.votes <= m.votes
  BY MergeMembersKeeps
<1>2. \A m \in members : m.votes \in {0, 1}
  BY DEF Member
<1> QED BY <1>1, <1>2 DEF Voters

LEMMA OneNewVoteStep == TypeInv /\ RemovalInv /\ IdInv /\ MajorityInv /\ [Next]_vars => OneNewVote'
<1> SUFFICES ASSUME TypeInv, RemovalInv, IdInv, MajorityInv, [Next]_vars PROVE OneNewVote'
  OBVIOUS
<1>0. CASE pc' \notin {"preflight", "send"}
  BY <1>0 DEF OneNewVote
<1>1. CASE ReadConfig
  <2>1. Voters(cfg'.members) \subseteq Voters(installed.members) /\ UNCHANGED installed
    BY <1>1, InstalledTyped, MergeGivesNoVote DEF ReadConfig, server, TypeInv, PlaceTyped
  <2> QED BY <2>1 DEF OneNewVote
<1>2. CASE Preflight
  <2>1. pc = "preflight" /\ UNCHANGED <<installed, cfg, blocks, cur>>
    BY <1>2 DEF Preflight, Abort, server
  <2> QED BY <2>1 DEF MajorityInv, OneNewVote, CurBlock
<1>3. CASE PromoteMember
  <2>1. CASE pc' = "send"
    <3> DEFINE new == {IF m.host = CurBlock.host THEN Promoted(m, CurBlock) ELSE m :
                          m \in installed.members}
    <3>1. cfg'.members = new /\ UNCHANGED <<installed, blocks, cur>>
      BY <1>3, <2>1, PromotedSet, SettledPlace DEF PromoteMember, Send, MemberError, server
    <3>2. CurBlock \in Block
      BY <1>3, BlocksTyped DEF PromoteMember, TypeInv, PlaceTyped, CurBlock
    <3>3. \A k \in new : k.host = CurBlock.host \/ k \in installed.members
      BY <3>2, InstalledTyped, PromotedKeeps DEF TypeInv
    <3> HIDE DEF new
    <3>4. Voters(new) \ Voters(installed.members) \subseteq {CurBlock.host}
      BY <3>3 DEF Voters
    <3> QED BY <3>1, <3>4 DEF OneNewVote, CurBlock
  <2>2. CASE pc' # "send"
    BY <1>0, <1>3, <2>2, SettledPlace DEF PromoteMember, Send, MemberError
  <2> QED BY <2>1, <2>2
<1>4. CASE AddMember
  <2>1. CurBlock \in Block /\ CurBlock.host \notin HostsOf(installed.members)
    BY <1>4, BlocksTyped DEF AddMember, TypeInv, PlaceTyped, CurBlock,
       RemovalInv, CurIsQueued, InAdd, IdInv, StillOut, InSettle, InRollback
  <2>2. Voters(cfg'.members) \subseteq Voters(installed.members) \cup {CurBlock.host}
    BY <1>4, <2>1, InstalledTyped, StagedIsNew DEF AddMember, Send, TypeInv, IdInv, UniqueInstalled
  <2> QED BY <1>4, <2>2 DEF AddMember, Send, server, OneNewVote, CurBlock
<1>5. CASE RemoveMember
  <2>1. CASE pc' = "send"
    <3>1. cfg'.members = {m \in installed.members : m.host # CurBlock.host}
      BY <1>5, <2>1 DEF RemoveMember, Send
    <3>2. Voters(cfg'.members) \subseteq Voters(installed.members)
      BY <3>1 DEF Voters
    <3> QED BY <1>5, <3>2 DEF RemoveMember, server, OneNewVote
  <2>2. CASE pc' # "send"
    BY <1>0, <1>5, <2>2 DEF RemoveMember, Send
  <2> QED BY <2>1, <2>2
<1>6. CASE ReconfigConflict \/ AutoReconfig
  <2>1. cfg'.members = cfg.members /\ installed'.members = installed.members
    BY <1>6 DEF ReconfigConflict, AutoReconfig, server, work, TypeInv, SentTyped, ServerTyped, Config
  <2>2. UNCHANGED <<pc, blocks, cur>>
    BY <1>6 DEF ReconfigConflict, AutoReconfig, work
  <2> QED BY <2>1, <2>2 DEF MajorityInv, OneNewVote, CurBlock
<1>7. CASE ReconfigSucceeds \/ ReconfigLost \/ ReconfigFails \/ ReconfigRefused
  BY <1>0, <1>7, ReturnPlace DEF ReconfigSucceeds, ReconfigLost, ReconfigFails, ReconfigRefused
<1>8. CASE PollStatus \/ WaitTimeout \/ WaitInterrupted
  BY <1>0, <1>8, SettledPlace DEF PollStatus, WaitTimeout, WaitInterrupted, MemberError
<1>9. CASE \/ BeginApply \/ ReadConfigFails \/ PreflightInterrupted \/ MemberReadFails
           \/ FinalRead \/ FinalReadFails
  BY <1>0, <1>9 DEF BeginApply, ReadConfigFails, PreflightInterrupted, MemberReadFails,
     FinalRead, FinalReadFails, MemberError, Abort
<1>10. CASE Refresh \/ Import \/ Interrupt \/ ContextExpires \/ Nodes \/ Rest \/ UNCHANGED vars
  <2>1. UNCHANGED <<installed, cfg, pc, blocks, cur>>
    BY <1>10 DEF Refresh, Import, Interrupt, ContextExpires, Nodes, NodeUp, NodeCatchesUp, NodeDown,
       NodeOnly, Rest, vars, server, work
  <2> QED BY <2>1 DEF MajorityInv, OneNewVote, CurBlock
<1> QED
  BY <1>1, <1>2, <1>3, <1>4, <1>5, <1>6, <1>7, <1>8, <1>9, <1>10 DEF Next, Provider, Terraform

\* A request gets in: an arbiter that is new is the one being added.
LEMMA InstallIsInspected ==
    ASSUME TypeInv, RemovalInv, IdInv, MajorityInv, pc = "send",
           installed' = cfg, Acceptable(installed.members, cfg.members), UNCHANGED inspected,
           added' = IF op = "add" THEN added \cup {CurBlock.host} ELSE added
    PROVE  ArbitersInspected'
<1> SUFFICES ASSUME NEW k \in cfg.members, k.arbiter, k.host \in added' PROVE k.host \in inspected
  BY DEF ArbitersInspected
<1>1. ArbitersInspected
  BY DEF MajorityInv, AnsweredFirst
<1>2. CASE k.host \in HostsOf(installed.members) /\ k.host \in added
  <2>1. PICK m \in installed.members : m.host = k.host
    BY <1>2 DEF HostsOf
  <2>2. m.arbiter = k.arbiter
    BY <2>1 DEF Acceptable, KeepsIdentity
  <2> QED BY <1>1, <1>2, <2>1, <2>2 DEF ArbitersInspected
<1>3. CASE op = "add" /\ k.host = CurBlock.host
  <2>1. CurBlock.arbiter /\ cur \in adds
    BY <1>3 DEF MajorityInv, AnsweredFirst, RemovalInv, CurIsQueued, InAdd
  <2> QED BY <1>3, <2>1 DEF MajorityInv, AnsweredFirst, CurBlock
<1>4. k.host \in HostsOf(installed.members) \/ (op = "add" /\ k.host = CurBlock.host)
  BY DEF RemovalInv, OneHostChanges, HostsOf
<1>5. k.host \in added \/ (op = "add" /\ k.host = CurBlock.host)
  OBVIOUS
<1> QED BY <1>2, <1>3, <1>4, <1>5

\* The call that carries a request returns.
LEMMA ReturnIsAnswered ==
    ASSUME TypeInv, RemovalInv, IdInv, MajorityInv, pc = "send", NEW ok \in BOOLEAN,
           ReconfigReturns(ok), UNCHANGED <<blocks, op, inspected>>,
           \/ UNCHANGED <<installed, added>>
           \/ /\ installed' = cfg /\ Acceptable(installed.members, cfg.members)
              /\ added' = IF op = "add" THEN added \cup {CurBlock.host} ELSE added
    PROVE  AnsweredFirst'
<1>1. ArbitersInspected'
  <2>1. CASE UNCHANGED <<installed, added>>
    BY <2>1 DEF MajorityInv, AnsweredFirst, ArbitersInspected
  <2> QED BY <2>1, InstallIsInspected
<1>2. pc' \in {"wait", "add", "remove", "final", "idle"}
  BY ReturnPlace
<1>3. adds' \subseteq adds
  BY DEF ReconfigReturns, NextMember, MemberSettled, Abort, MemberError
<1> QED BY <1>1, <1>2, <1>3 DEF MajorityInv, AnsweredFirst, BeforeMembers

\* A step of the member phase that installs nothing.
LEMMA MemberStepIsAnswered ==
    ASSUME TypeInv, MajorityInv, pc \in {"wait", "promote", "add", "remove", "final"},
           UNCHANGED <<installed, added, blocks, inspected>>, adds' \subseteq adds,
           pc' \in {"wait", "promote", "add", "remove", "final", "idle"}
              \/ (pc' = "send" /\ op' \in {"promote", "remove"})
    PROVE  AnsweredFirst'
BY DEF MajorityInv, AnsweredFirst, ArbitersInspected, BeforeMembers

LEMMA AnsweredStep ==
    TypeInv /\ RemovalInv /\ IdInv /\ MajorityInv /\ [Next]_vars => AnsweredFirst'
<1> SUFFICES ASSUME TypeInv, RemovalInv, IdInv, MajorityInv, [Next]_vars PROVE AnsweredFirst'
  OBVIOUS
<1>1. CASE BeginApply
  <2>1. added' = {} /\ pc' = "read"
    BY <1>1 DEF BeginApply
  <2> QED BY <2>1 DEF AnsweredFirst, ArbitersInspected
<1>2. CASE ReadConfig
  <2>1. /\ pc = "read" /\ UNCHANGED <<installed, added, inspected, blocks>> /\ op' = "settings"
        /\ pc' = (IF adds' # {} THEN "preflight" ELSE "send")
    BY <1>2 DEF ReadConfig, server, history
  <2>2. added = {}
    BY <2>1 DEF MajorityInv, AnsweredFirst, BeforeMembers
  <2> QED BY <2>1, <2>2 DEF AnsweredFirst, ArbitersInspected
<1>3. CASE Preflight
  <2>1. /\ pc = "preflight" /\ op = "settings"
        /\ UNCHANGED <<installed, added, blocks, adds, op>> /\ pc' \in {"send", "idle"}
    BY <1>3 DEF Preflight, Abort, server, TypeInv, PlaceTyped
  <2>2. added = {}
    BY <2>1 DEF MajorityInv, AnsweredFirst, BeforeMembers
  <2>3. ASSUME pc' = "send", NEW i \in adds, blocks[i].arbiter PROVE blocks[i].host \in inspected'
    <3>1. PICK answers \in [adds -> PossibleAnswers] :
             /\ inspected' = {blocks[j].host : j \in {l \in adds : CheckAddTarget(answers[l]) = "ok"}}
             /\ \A j \in adds : PreflightPasses(blocks[j], answers[j])
      BY <1>3, <2>3 DEF Preflight, Abort
    <3>2. CheckAddTarget(answers[i]) = "ok"
      BY <2>3, <3>1 DEF PreflightPasses
    <3> QED BY <3>1, <3>2
  <2> QED BY <2>1, <2>2, <2>3 DEF AnsweredFirst, ArbitersInspected
<1>4. CASE ReconfigSucceeds
  BY <1>4, ReturnIsAnswered DEF ReconfigSucceeds, Install
<1>5. CASE ReconfigLost
  BY <1>5, ReturnIsAnswered DEF ReconfigLost, Install
<1>6. CASE ReconfigFails \/ ReconfigRefused
  BY <1>6, ReturnIsAnswered DEF ReconfigFails, ReconfigRefused, server, history
<1>7. CASE ReconfigConflict \/ AutoReconfig
  <2>1. cfg'.members = cfg.members /\ installed'.members = installed.members
    BY <1>7 DEF ReconfigConflict, AutoReconfig, server, work, TypeInv, SentTyped, ServerTyped, Config
  <2>2. UNCHANGED <<pc, op, blocks, adds, cur, added, inspected>>
    BY <1>7 DEF ReconfigConflict, AutoReconfig, work, history
  <2> QED BY <2>1, <2>2 DEF MajorityInv, AnsweredFirst, ArbitersInspected, BeforeMembers, CurBlock
<1>8. CASE PollStatus \/ WaitTimeout \/ WaitInterrupted \/ MemberReadFails
  <2>1. /\ pc \in {"wait", "promote", "add", "remove"}
        /\ UNCHANGED <<installed, added, blocks, inspected>> /\ adds' \subseteq adds
        /\ pc' \in {"wait", "promote", "add", "remove", "final"}
    BY <1>8 DEF PollStatus, WaitTimeout, WaitInterrupted, MemberReadFails, MemberSettled,
       NextMember, MemberError, server, history
  <2> QED BY <2>1, MemberStepIsAnswered
<1>9. CASE PromoteMember
  <2>1. /\ pc = "promote" /\ UNCHANGED <<installed, added, blocks, inspected>>
        /\ adds' \subseteq adds
        /\ pc' \in {"wait", "add", "final"} \/ (pc' = "send" /\ op' = "promote")
    BY <1>9 DEF PromoteMember, MemberSettled, NextMember, MemberError, Send, server, history
  <2> QED BY <2>1, MemberStepIsAnswered
<1>10. CASE AddMember
  <2> DEFINE new == installed.members \cup {StagedMember(CurBlock, NextMemberID(installed.members))}
  <2>1. /\ pc = "add" /\ pc' = "send" /\ op' = "add" /\ cfg'.members = new
        /\ UNCHANGED <<installed, blocks, added, inspected, adds, cur>>
    BY <1>10 DEF AddMember, Send, server, history
  <2>2. CurBlock \in Block
    BY <2>1, BlocksTyped DEF TypeInv, PlaceTyped, CurBlock
  <2>3. CurBlock.host \notin HostsOf(installed.members)
    BY <2>1 DEF RemovalInv, CurIsQueued, InAdd, IdInv, StillOut, InSettle, InRollback, CurBlock
  <2>4. \A k \in new : k.host = CurBlock.host => k.arbiter = CurBlock.arbiter
    BY <2>2, <2>3, InstalledTyped, StagedIsNew DEF TypeInv, IdInv, UniqueInstalled
  <2> HIDE DEF new
  <2>5. CurBlock' = CurBlock
    BY <2>1 DEF CurBlock
  <2>6. \A i \in adds : blocks[i].arbiter => blocks[i].host \in inspected
    BY <2>1 DEF MajorityInv, AnsweredFirst
  <2> QED BY <2>1, <2>4, <2>5, <2>6 DEF MajorityInv, AnsweredFirst, ArbitersInspected, BeforeMembers
<1>11. CASE RemoveMember
  <2>1. /\ pc = "remove" /\ UNCHANGED <<installed, added, blocks, inspected, adds>>
        /\ pc' = "final" \/ (pc' = "send" /\ op' = "remove")
    BY <1>11 DEF RemoveMember, Send, server, history
  <2> QED BY <2>1, MemberStepIsAnswered
<1>12. CASE FinalRead \/ FinalReadFails
  <2>1. pc = "final" /\ pc' = "idle" /\ UNCHANGED <<installed, added, blocks, inspected, adds>>
    BY <1>12 DEF FinalRead, FinalReadFails, server, history, work
  <2> QED BY <2>1, MemberStepIsAnswered
<1>13. CASE ReadConfigFails \/ PreflightInterrupted
  <2>1. pc' = "idle" /\ UNCHANGED <<installed, added, inspected>>
    BY <1>13 DEF ReadConfigFails, PreflightInterrupted, Abort, server, history
  <2> QED BY <2>1 DEF MajorityInv, AnsweredFirst, ArbitersInspected, BeforeMembers
<1>14. CASE Refresh \/ Import \/ Interrupt \/ ContextExpires \/ Nodes \/ Rest \/ UNCHANGED vars
  <2>1. UNCHANGED <<installed, cfg, pc, op, blocks, adds, cur, added, inspected>>
    BY <1>14 DEF Refresh, Import, Interrupt, ContextExpires, Nodes, NodeUp, NodeCatchesUp, NodeDown,
       NodeOnly, Rest, vars, server, work, history
  <2> QED BY <2>1 DEF MajorityInv, AnsweredFirst, ArbitersInspected, BeforeMembers, CurBlock
<1> QED
  BY <1>1, <1>2, <1>3, <1>4, <1>5, <1>6, <1>7, <1>8, <1>9, <1>10, <1>11, <1>12, <1>13, <1>14
  DEF Next, Provider, Terraform

\* No request brings in more than one host or gives more than one vote, and an
\* arbiter, which votes at once, is added only after it answered.  (SHARD-013,
\* SHARD-028)
THEOREM OneLiveVoteAtATime == Spec => []MajorityMovesByOne
<1>1. Init => MajorityInv
  BY DEF Init, MajorityInv, OneNewVote, AnsweredFirst, ArbitersInspected, BeforeMembers
<1>2. MajorityInv /\ TypeInv /\ RemovalInv /\ IdInv /\ [Next]_vars => MajorityInv'
  BY OneNewVoteStep, AnsweredStep DEF MajorityInv
<1> QED BY <1>1, <1>2, MajorityImplies, RemovalInit, IdInit, TypeInit, TypeStep, RemovalStep,
           IdStep, PTL DEF Spec

---------------------------------------------------------------------------
(* The apply implements ReplicaSetMembership *)

\* RoleOf as a function of the member list.
Part(members, h) ==
    CASE \E m \in members : m.host = h /\ m.arbiter -> "arbiter"
      [] \E m \in members : m.host = h /\ ~m.arbiter /\ m.votes = 1 -> "voter"
      [] \E m \in members : m.host = h /\ ~m.arbiter /\ m.votes = 0 -> "nonvoter"
      [] OTHER -> "out"

LEMMA RoleIsPart == \A h : RoleOf(h) = Part(installed.members, h)
BY DEF RoleOf, Part

LEMMA PartOfMember ==
    ASSUME NEW members \in SUBSET Member, UniqueHostsAndIds(members), NEW m \in members
    PROVE  Part(members, m.host) =
              IF m.arbiter THEN "arbiter" ELSE IF m.votes = 1 THEN "voter" ELSE "nonvoter"
<1>1. \A k \in members : k.host = m.host => k = m
  BY DEF UniqueHostsAndIds
<1>2. m.votes \in {0, 1} /\ m.arbiter \in BOOLEAN
  BY DEF Member
<1>3. CASE m.arbiter
  BY <1>1, <1>3 DEF Part
<1>4. CASE ~m.arbiter /\ m.votes = 1
  BY <1>1, <1>4 DEF Part
<1>5. CASE ~m.arbiter /\ m.votes = 0
  BY <1>1, <1>5 DEF Part
<1> QED BY <1>2, <1>3, <1>4, <1>5

LEMMA PartOfStranger ==
    ASSUME NEW members, NEW h, h \notin HostsOf(members)
    PROVE  Part(members, h) = "out"
BY DEF Part, HostsOf

LEMMA HostsHaveMembers ==
    ASSUME NEW members, NEW h \in HostsOf(members)
    PROVE  \E m \in members : m.host = h
BY DEF HostsOf

\* Two member lists that agree but for one host.
LEMMA OthersKeepPart ==
    ASSUME NEW old \in SUBSET Member, NEW new \in SUBSET Member, NEW h,
           \A k \in Member : k.host # h => (k \in old <=> k \in new)
    PROVE  \A g : g # h => Part(new, g) = Part(old, g)
<1> SUFFICES ASSUME NEW g, g # h PROVE Part(new, g) = Part(old, g)
  OBVIOUS
<1>1. (\E m \in new : m.host = g /\ m.arbiter) <=> (\E m \in old : m.host = g /\ m.arbiter)
  OBVIOUS
<1>2. (\E m \in new : m.host = g /\ ~m.arbiter /\ m.votes = 1)
         <=> (\E m \in old : m.host = g /\ ~m.arbiter /\ m.votes = 1)
  OBVIOUS
<1>3. (\E m \in new : m.host = g /\ ~m.arbiter /\ m.votes = 0)
         <=> (\E m \in old : m.host = g /\ ~m.arbiter /\ m.votes = 0)
  OBVIOUS
<1> QED BY <1>1, <1>2, <1>3 DEF Part

\* A host that stays: its part changes with its vote only.
LEMMA PartOfStayer ==
    ASSUME NEW old \in SUBSET Member, UniqueHostsAndIds(old),
           NEW new \in SUBSET Member, UniqueHostsAndIds(new),
           KeepsIdentity(old, new), NEW h \in HostsOf(old), h \in HostsOf(new)
    PROVE  \/ Part(new, h) = Part(old, h)
           \/ Part(old, h) = "voter" /\ Part(new, h) = "nonvoter"
           \/ /\ Part(old, h) = "nonvoter" /\ Part(new, h) = "voter"
              /\ h \in DataVoters(new) \ Voters(old)
<1>1. PICK m \in old : m.host = h
  BY HostsHaveMembers
<1>2. PICK k \in new : k.host = h
  BY HostsHaveMembers
<1>3. /\ Part(old, h) = IF m.arbiter THEN "arbiter" ELSE IF m.votes = 1 THEN "voter" ELSE "nonvoter"
      /\ Part(new, h) = IF k.arbiter THEN "arbiter" ELSE IF k.votes = 1 THEN "voter" ELSE "nonvoter"
  BY <1>1, <1>2, PartOfMember
<1>4. k.arbiter = m.arbiter
  BY <1>1, <1>2 DEF KeepsIdentity
<1>5. ASSUME ~k.arbiter, k.votes = 1, m.votes # 1 PROVE h \in DataVoters(new) \ Voters(old)
  BY <1>1, <1>2, <1>5 DEF DataVoters, Voters, UniqueHostsAndIds
<1> QED BY <1>3, <1>4, <1>5

---------------------------------------------------------------------------
\* The shape of the request on its way: the settings reconfig gives no vote,
\* each of the others leaves every host but one as it is.
RequestShape ==
    /\ pc \in {"preflight", "send"} /\ op = "settings" =>
           Voters(cfg.members) \subseteq Voters(installed.members)
    /\ pc = "send" /\ op # "settings" =>
           \A k \in Member : k.host # CurBlock.host =>
               (k \in installed.members <=> k \in cfg.members)
    /\ pc = "send" /\ op = "add" => CurBlock.host \in HostsOf(cfg.members)
    /\ pc = "send" /\ op = "remove" => CurBlock.host \notin HostsOf(cfg.members)

LEMMA ShapeStep == TypeInv /\ RequestShape /\ [Next]_vars => RequestShape'
<1> SUFFICES ASSUME TypeInv, RequestShape, [Next]_vars PROVE RequestShape'
  OBVIOUS
<1>0. CASE pc' \notin {"preflight", "send"}
  BY <1>0 DEF RequestShape
<1>1. CASE ReadConfig
  <2>1. Voters(cfg'.members) \subseteq Voters(installed.members) /\ UNCHANGED installed /\ op' = "settings"
    BY <1>1, InstalledTyped, MergeGivesNoVote DEF ReadConfig, server, TypeInv, PlaceTyped
  <2> QED BY <2>1 DEF RequestShape
<1>2. CASE Preflight
  <2>1. pc = "preflight" /\ op = "settings" /\ UNCHANGED <<installed, cfg, op, blocks, cur>>
    BY <1>2 DEF Preflight, Abort, server, TypeInv, PlaceTyped
  <2> QED BY <2>1 DEF RequestShape
<1>3. CASE PromoteMember /\ pc' = "send"
  <2> DEFINE new == {IF m.host = CurBlock.host THEN Promoted(m, CurBlock) ELSE m :
                        m \in installed.members}
  <2>1. cfg'.members = new /\ op' = "promote" /\ UNCHANGED <<installed, blocks, cur>>
    BY <1>3, PromotedSet, SettledPlace DEF PromoteMember, Send, MemberError, server
  <2>2. CurBlock \in Block
    BY <1>3, BlocksTyped DEF PromoteMember, TypeInv, PlaceTyped, CurBlock
  <2>3. \A k \in new : k.host = CurBlock.host \/ k \in installed.members
    BY <2>2, InstalledTyped, PromotedKeeps DEF TypeInv
  <2>4. \A k \in installed.members : k.host # CurBlock.host => k \in new
    OBVIOUS
  <2> HIDE DEF new
  <2>5. CurBlock' = CurBlock
    BY <2>1 DEF CurBlock
  <2> QED BY <2>1, <2>3, <2>4, <2>5 DEF RequestShape
<1>4. CASE AddMember
  <2> DEFINE s == StagedMember(CurBlock, NextMemberID(installed.members))
  <2>1. cfg'.members = installed.members \cup {s} /\ op' = "add" /\ UNCHANGED <<installed, blocks, cur>>
    BY <1>4 DEF AddMember, Send, server
  <2>2. CurBlock \in Block
    BY <1>4, BlocksTyped DEF AddMember, TypeInv, PlaceTyped, CurBlock
  <2>3. s.host = CurBlock.host
    BY <2>2, InstalledTyped, NextMemberIDIsFresh, StagedMemberHasNoDataVote DEF TypeInv
  <2> HIDE DEF s
  <2>4. CurBlock' = CurBlock
    BY <2>1 DEF CurBlock
  <2> QED BY <2>1, <2>3, <2>4 DEF RequestShape, HostsOf
<1>5. CASE RemoveMember /\ pc' = "send"
  <2>1. /\ cfg'.members = {m \in installed.members : m.host # CurBlock.host}
        /\ op' = "remove" /\ UNCHANGED <<installed, blocks, cur>>
    BY <1>5 DEF RemoveMember, Send, server
  <2>2. CurBlock' = CurBlock
    BY <2>1 DEF CurBlock
  <2> QED BY <2>1, <2>2 DEF RequestShape, HostsOf
<1>6. CASE ReconfigConflict \/ AutoReconfig
  <2>1. cfg'.members = cfg.members /\ installed'.members = installed.members
    BY <1>6 DEF ReconfigConflict, AutoReconfig, server, work, TypeInv, SentTyped, ServerTyped, Config
  <2>2. UNCHANGED <<pc, op, blocks, cur>>
    BY <1>6 DEF ReconfigConflict, AutoReconfig, work
  <2> QED BY <2>1, <2>2 DEF RequestShape, CurBlock
<1>7. CASE ReconfigSucceeds \/ ReconfigLost \/ ReconfigFails \/ ReconfigRefused
  BY <1>0, <1>7, ReturnPlace DEF ReconfigSucceeds, ReconfigLost, ReconfigFails, ReconfigRefused
<1>8. CASE PollStatus \/ WaitTimeout \/ WaitInterrupted
  BY <1>0, <1>8, SettledPlace DEF PollStatus, WaitTimeout, WaitInterrupted, MemberError
<1>9. CASE \/ BeginApply \/ ReadConfigFails \/ PreflightInterrupted \/ MemberReadFails
           \/ FinalRead \/ FinalReadFails
  BY <1>0, <1>9 DEF BeginApply, ReadConfigFails, PreflightInterrupted, MemberReadFails,
     FinalRead, FinalReadFails, MemberError, Abort
<1>10. CASE (PromoteMember \/ RemoveMember) /\ pc' # "send"
  BY <1>0, <1>10, SettledPlace DEF PromoteMember, RemoveMember, Send, MemberError
<1>11. CASE Refresh \/ Import \/ Interrupt \/ ContextExpires \/ Nodes \/ Rest \/ UNCHANGED vars
  <2>1. UNCHANGED <<installed, cfg, pc, op, blocks, cur>>
    BY <1>11 DEF Refresh, Import, Interrupt, ContextExpires, Nodes, NodeUp, NodeCatchesUp, NodeDown,
       NodeOnly, Rest, vars, server, work
  <2> QED BY <2>1 DEF RequestShape, CurBlock
<1> QED
  BY <1>1, <1>2, <1>3, <1>4, <1>5, <1>6, <1>7, <1>8, <1>9, <1>10, <1>11 DEF Next, Provider, Terraform

---------------------------------------------------------------------------
RefinementInv == TypeInv /\ VoteInv /\ RemovalInv /\ IdInv /\ RequestShape

\* What a step does to the member list and to what the apply saw and added.
LEMMA MembershipChanges ==
    ASSUME TypeInv, [Next]_vars
    PROVE  \/ installed'.members = installed.members /\ UNCHANGED <<seen, added>>
           \/ installed' = installed /\ seen' = {} /\ added' = {}
           \/ /\ installed' = installed /\ added' = added
              /\ \E h \in HostsOf(installed.members) : seen' = seen \cup {h}
           \/ pc = "send" /\ Install /\ UNCHANGED seen
<1>1. CASE BeginApply
  BY <1>1 DEF BeginApply, server
<1>2. CASE PollStatus
  BY <1>2 DEF PollStatus, server, Reachable
<1>3. CASE ReconfigSucceeds \/ ReconfigLost
  BY <1>3 DEF ReconfigSucceeds, ReconfigLost
<1>4. CASE \/ ReadConfig \/ ReadConfigFails \/ Preflight \/ PreflightInterrupted
           \/ ReconfigFails \/ ReconfigRefused \/ ReconfigConflict
           \/ WaitTimeout \/ WaitInterrupted \/ PromoteMember \/ AddMember \/ RemoveMember
           \/ MemberReadFails \/ FinalRead \/ FinalReadFails
  BY <1>4
  DEF ReadConfig, ReadConfigFails, Preflight, PreflightInterrupted, ReconfigFails,
      ReconfigRefused, ReconfigConflict, WaitTimeout, WaitInterrupted, PromoteMember,
      AddMember, RemoveMember, MemberReadFails, FinalRead, FinalReadFails, history, server
<1>5. CASE Refresh \/ Import \/ Nodes \/ Interrupt \/ ContextExpires \/ Rest \/ UNCHANGED vars
  BY <1>5
  DEF Refresh, Import, Nodes, NodeUp, NodeCatchesUp, NodeDown, NodeOnly, Interrupt, ContextExpires,
      Rest, vars, history, server
<1>6. CASE AutoReconfig
  BY <1>6 DEF AutoReconfig, history, TypeInv, ServerTyped, Config
<1> QED BY <1>1, <1>2, <1>3, <1>4, <1>5, <1>6 DEF Next, Provider, Terraform

\* The host a request is for comes in, gets its vote or goes, or nothing is to
\* be seen of the request; the settings reconfig takes votes.
LEMMA InstallMaps ==
    ASSUME RefinementInv, pc = "send", Install, UNCHANGED seen
    PROVE  [Membership!MembershipNext]_Membership!membershipVars
<1> DEFINE old  == installed.members
           new  == cfg.members
           b    == CurBlock.host
           role == [h \in Hosts |-> Part(old, h)]
           next == [h \in Hosts |-> Part(new, h)]
<1>1. /\ old \in SUBSET Member /\ UniqueHostsAndIds(old)
      /\ new \in SUBSET Member /\ UniqueHostsAndIds(new)
      /\ KeepsIdentity(old, new) /\ WellFormedMembers(new)
  BY InstalledTyped DEF RefinementInv, TypeInv, SentTyped, Config, IdInv, UniqueInstalled,
     Install, Acceptable, WellFormedMembers
<1>2. /\ [h \in Hosts |-> RoleOf(h)] = role
      /\ [h \in Hosts |-> RoleOf(h)]' = next
  BY RoleIsPart DEF RoleOf, Part, Install
<1>3. /\ HostsOf(old) \ HostsOf(new) \subseteq (IF op = "remove" THEN {b} ELSE {})
      /\ HostsOf(new) \ HostsOf(old) \subseteq (IF op = "add" THEN {b} ELSE {})
  BY DEF RefinementInv, RemovalInv, OneHostChanges
<1>4. op \in {"settings", "promote", "add", "remove"}
  BY DEF RefinementInv, TypeInv, PlaceTyped
<1> HIDE DEF old, new, b
<1>5. CASE op = "settings"
  <2> DEFINE S == {h \in Hosts : Part(old, h) = "voter" /\ Part(new, h) = "nonvoter"}
  <2>1. added' = added
    BY <1>5 DEF Install
  <2>2. Voters(new) \subseteq Voters(old) /\ HostsOf(new) = HostsOf(old)
    BY <1>3, <1>5 DEF RefinementInv, RequestShape, old, new
  <2>3. ASSUME NEW h \in Hosts PROVE Part(new, h) = Part(old, h) \/ h \in S
    <3>1. CASE h \notin HostsOf(old)
      BY <2>2, <3>1, PartOfStranger
    <3>2. CASE h \in HostsOf(old)
      <4>1. h \notin DataVoters(new) \ Voters(old)
        BY <2>2 DEF DataVoters, Voters
      <4> QED BY <1>1, <2>2, <3>2, <4>1, PartOfStayer
    <3> QED BY <3>1, <3>2
  <2>4. next = [h \in Hosts |-> IF h \in S THEN "nonvoter" ELSE role[h]]
    BY <2>3
  <2>5. S \in SUBSET Hosts /\ \A h \in S : role[h] = "voter"
    OBVIOUS
  <2> HIDE DEF S, role, next
  <2> QED BY <1>2, <2>1, <2>4, <2>5 DEF Membership!MembershipNext, Membership!LoseVotes
<1>6. ASSUME op # "settings" PROVE /\ b \in Hosts
                                  /\ \A g \in Hosts : g # b => next[g] = role[g]
  <2>1. CurBlock \in Block
    BY <1>6, BlocksTyped DEF RefinementInv, TypeInv, PlaceTyped, CurBlock
  <2>2. \A k \in Member : k.host # b => (k \in old <=> k \in new)
    BY <1>6 DEF RefinementInv, RequestShape, old, new, b
  <2>3. \A g : g # b => Part(new, g) = Part(old, g)
    BY <1>1, <2>2, OthersKeepPart
  <2> QED BY <2>1, <2>3 DEF Block, b
<1>7. ASSUME op # "settings", NEW r, r = next[b] PROVE next = [role EXCEPT ![b] = r]
  BY <1>6, <1>7
<1>8. CASE op = "promote"
  <2>1. added' = added
    BY <1>8 DEF Install
  <2>2. CASE next[b] = role[b]
    <3>1. next = role
      BY <1>6, <1>8, <2>2
    <3> QED BY <1>2, <2>1, <3>1 DEF Membership!membershipVars
  <2>3. CASE next[b] # role[b]
    <3>1. b \in HostsOf(old) /\ b \in HostsOf(new)
      BY <1>3, <1>6, <1>8, <2>3, PartOfStranger
    <3>2. \/ role[b] = "voter" /\ next[b] = "nonvoter"
          \/ role[b] = "nonvoter" /\ next[b] = "voter" /\ b \in DataVoters(new) \ Voters(old)
      BY <1>1, <1>6, <1>8, <2>3, <3>1, PartOfStayer
    <3>3. DataVoters(new) \ Voters(old) \subseteq seen
      BY DEF RefinementInv, VoteInv, old, new
    <3>4. CASE role[b] = "voter" /\ next[b] = "nonvoter"
      <4>1. next = [h \in Hosts |-> IF h \in {b} THEN "nonvoter" ELSE role[h]]
        BY <1>6, <1>8, <3>4
      <4>2. {b} \in SUBSET Hosts /\ \A h \in {b} : role[h] = "voter"
        BY <1>6, <1>8, <3>4
      <4> HIDE DEF role, next
      <4> QED BY <1>2, <2>1, <4>1, <4>2 DEF Membership!MembershipNext, Membership!LoseVotes
    <3>5. CASE role[b] = "nonvoter" /\ next[b] = "voter" /\ b \in seen
      <4>1. next = [role EXCEPT ![b] = "voter"]
        BY <1>7, <1>8, <3>5
      <4> HIDE DEF role, next
      <4> QED BY <1>2, <1>6, <1>8, <2>1, <3>5, <4>1
              DEF Membership!MembershipNext, Membership!GetVote
    <3> QED BY <3>2, <3>3, <3>4, <3>5
  <2> QED BY <2>2, <2>3
<1>9. CASE op = "add"
  <2>1. added' = added \cup {b}
    BY <1>9 DEF Install, b
  <2>2. cur \in adds /\ ~wait.everReachable /\ b \notin HostsOf(old)
    BY <1>9 DEF RefinementInv, RemovalInv, CurIsQueued, InAdd, IdInv, StillOut, InSettle,
       InRollback, CurBlock, old, b
  <2>3. b \notin seen
    BY <2>2 DEF RefinementInv, RemovalInv, AddsAreOurs, CurBlock, b
  <2>4. PICK k \in new : k.host = b
    BY <1>9, HostsHaveMembers DEF RefinementInv, RequestShape, new, b
  <2>5. b \notin DataVoters(new)
    BY <2>2, <2>3 DEF RefinementInv, VoteInv, Voters, HostsOf, old, new
  <2>6. k.arbiter \/ k.votes # 1
    BY <2>4, <2>5 DEF DataVoters
  <2>7. next[b] \in {"nonvoter", "arbiter"}
    BY <1>1, <1>6, <1>9, <2>4, <2>6, PartOfMember
  <2>8. role[b] = "out"
    BY <1>6, <1>9, <2>2, PartOfStranger
  <2>9. next = [role EXCEPT ![b] = next[b]]
    BY <1>7, <1>9
  <2> HIDE DEF role, next
  <2> QED BY <1>2, <1>6, <1>9, <2>1, <2>7, <2>8, <2>9 DEF Membership!MembershipNext, Membership!Join
<1>10. CASE op = "remove"
  <2>1. added' = added
    BY <1>10 DEF Install
  <2>2. next[b] = "out"
    BY <1>6, <1>10, PartOfStranger DEF RefinementInv, RequestShape, new, b
  <2>3. CASE role[b] = "out"
    <3>1. next = role
      BY <1>6, <1>10, <2>2, <2>3
    <3> QED BY <1>2, <2>1, <3>1 DEF Membership!membershipVars
  <2>4. CASE role[b] # "out"
    <3>1. b \in HostsOf(old)
      BY <1>6, <1>10, <2>4, PartOfStranger
    <3>2. cur \in adds /\ ~wait.everReachable
      BY <1>10 DEF RefinementInv, RemovalInv, CurIsQueued, InRollback
    <3>3. b \in added /\ b \notin seen
      BY <3>1, <3>2 DEF RefinementInv, RemovalInv, AddsAreOurs, CurBlock, old, b
    <3>4. next = [role EXCEPT ![b] = "out"]
      BY <1>7, <1>10, <2>2
    <3> HIDE DEF role, next
    <3> QED BY <1>2, <1>6, <1>10, <2>1, <2>4, <3>3, <3>4
            DEF Membership!MembershipNext, Membership!RollBack
  <2> QED BY <2>3, <2>4
<1> QED BY <1>4, <1>5, <1>8, <1>9, <1>10

\* Every step of the apply, a reconfig whose answer is lost and a rollback
\* included, is a step of the membership that ReplicaSetMembership allows, or
\* does not touch it.  (SHARD-013, SHARD-017, SHARD-022, SHARD-023)
THEOREM MembershipIsImplemented == Spec => ImplementsMembership
<1>1. Init => Membership!MembershipInit
  <2>1. \A h : RoleOf(h) \in Membership!Roles
    BY DEF RoleOf, Membership!Roles
  <2> QED BY <2>1 DEF Init, Membership!MembershipInit
<1>2. RefinementInv /\ [Next]_vars => [Membership!MembershipNext]_Membership!membershipVars
  <2> SUFFICES ASSUME RefinementInv, [Next]_vars
               PROVE  [Membership!MembershipNext]_Membership!membershipVars
    OBVIOUS
  <2>1. CASE installed'.members = installed.members /\ UNCHANGED <<seen, added>>
    BY <2>1 DEF Membership!membershipVars, RoleOf
  <2>2. CASE installed' = installed /\ seen' = {} /\ added' = {}
    BY <2>2 DEF Membership!MembershipNext, Membership!StartApply, RoleOf
  <2>3. CASE /\ installed' = installed /\ added' = added
             /\ \E h \in HostsOf(installed.members) : seen' = seen \cup {h}
    <3>1. PICK h \in HostsOf(installed.members) : seen' = seen \cup {h}
      BY <2>3
    <3>2. PICK m \in installed.members : m.host = h
      BY HostsHaveMembers
    <3>3. installed.members \in SUBSET Member /\ UniqueHostsAndIds(installed.members)
      BY InstalledTyped DEF RefinementInv, TypeInv, IdInv, UniqueInstalled
    <3>4. h \in Hosts /\ RoleOf(h) # "out"
      BY <3>2, <3>3, PartOfMember, RoleIsPart DEF Member
    <3>5. \A g : RoleOf(g)' = RoleOf(g)
      BY <2>3 DEF RoleOf
    <3> QED BY <2>3, <3>1, <3>4, <3>5 DEF Membership!MembershipNext, Membership!SeeSynced
  <2>4. CASE pc = "send" /\ Install /\ UNCHANGED seen
    BY <2>4, InstallMaps
  <2> QED BY <2>1, <2>2, <2>3, <2>4, MembershipChanges DEF RefinementInv
<1>3. Init => RefinementInv
  BY TypeInit, RemovalInit, IdInit DEF Init, RefinementInv, VoteInv, RequestShape
<1>4. RefinementInv /\ [Next]_vars => RefinementInv'
  BY TypeStep, VoteStep, RemovalStep, IdStep, ShapeStep DEF RefinementInv
<1> QED BY <1>1, <1>2, <1>3, <1>4, PTL DEF Spec, ImplementsMembership, Membership!MembershipSpec

---------------------------------------------------------------------------
(* The preview *)

\* The preview, computed from rows of state, against the partition of the
\* blocks, computed from the live members.
LEMMA PreviewMatches ==
    ASSUME NEW members \in SUBSET Member, WellFormedMembers(members),
           NEW list \in Seq(Block), NEW bs, bs = ExtractMemberOverrides(list),
           NEW rows, ValidateMemberOverrides(bs),
           rows = MembersToState(members, HostsOf(rows)),
           \A i \in DOMAIN bs, m \in members : m.host = bs[i].host => m.arbiter = bs[i].arbiter,
           NEW toAdd, toAdd = MissingBlocks(members, bs),
           NEW toPromote,
           toPromote = PromotingBlocks(members, bs) \cup {i \in toAdd : NeedsPromotion(bs[i])}
    PROVE  /\ toAdd \subseteq PreviewedAdds(rows, list)
           /\ toPromote \subseteq PreviewedPromotions(rows, list)
           /\ HostsOf(members) \cap HostsOf(Rows(bs)) \subseteq HostsOf(rows) =>
                  /\ toAdd = PreviewedAdds(rows, list)
                  /\ toPromote = PreviewedPromotions(rows, list)
<1>1. DOMAIN bs = DOMAIN list
  BY DEF ExtractMemberOverrides
<1>2. \A i \in DOMAIN list :
         /\ list[i] \in Block /\ bs[i].host = list[i].host /\ bs[i].votes = list[i].votes
         /\ bs[i].arbiter = list[i].arbiter /\ (NeedsPromotion(bs[i]) <=> NeedsPromotion(list[i]))
  <2> SUFFICES ASSUME NEW i \in DOMAIN list
               PROVE  /\ list[i] \in Block /\ bs[i].host = list[i].host /\ bs[i].votes = list[i].votes
                      /\ bs[i].arbiter = list[i].arbiter
                      /\ NeedsPromotion(bs[i]) <=> NeedsPromotion(list[i])
    OBVIOUS
  <2>1. bs[i] = IF list[i].arbiter THEN [list[i] EXCEPT !.priority = 0] ELSE list[i]
    BY DEF ExtractMemberOverrides, ExtractOverride
  <2>2. list[i] \in Block
    OBVIOUS
  <2> QED BY <2>1, <2>2 DEF Block, NeedsPromotion
<1>3. FirstOfHost(list) = DOMAIN list
  <2>1. \A i, j \in DOMAIN list : list[j].host = list[i].host => i = j
    BY <1>1, <1>2 DEF ValidateMemberOverrides
  <2>2. DOMAIN list \subseteq Nat
    OBVIOUS
  <2>3. ASSUME NEW i \in DOMAIN list, NEW j \in DOMAIN list, list[j].host = list[i].host
        PROVE  i <= j
    <3>1. i = j /\ i \in Nat
      BY <2>1, <2>2, <2>3
    <3> QED BY <3>1
  <2> QED BY <2>3 DEF FirstOfHost
<1>4. \A r \in rows : \E m \in members : m.host = r.host /\ m.votes = r.votes
  BY DEF MembersToState, MemberView
<1>5. \A m \in members : m.host \in HostsOf(rows) =>
         \E r \in rows : r.host = m.host /\ r.votes = m.votes
  <2> SUFFICES ASSUME NEW m \in members, m.host \in HostsOf(rows)
               PROVE  \E r \in rows : r.host = m.host /\ r.votes = m.votes
    OBVIOUS
  <2>1. MemberView(m) \in rows
    BY DEF MembersToState
  <2> QED BY <2>1 DEF MemberView
<1>6. HostsOf(rows) \subseteq HostsOf(members)
  BY <1>4 DEF HostsOf
<1>7. /\ toAdd = {i \in DOMAIN list : list[i].host \notin HostsOf(members)}
      /\ PreviewedAdds(rows, list) = {i \in DOMAIN list : list[i].host \notin HostsOf(rows)}
  BY <1>1, <1>2, <1>3 DEF MissingBlocks, PreviewedAdds
<1>8. toAdd \subseteq PreviewedAdds(rows, list)
  BY <1>6, <1>7
<1>9. \A i \in PromotingBlocks(members, bs) :
         /\ i \in DOMAIN list
         /\ \E m \in members : m.host = list[i].host /\ list[i].votes > m.votes
  BY <1>1, <1>2 DEF PromotingBlocks
<1>10. ASSUME NEW i \in PromotingBlocks(members, bs) PROVE i \in PreviewedPromotions(rows, list)
  <2>1. PICK m \in members : m.host = list[i].host /\ list[i].votes > m.votes
    BY <1>9
  <2>2. i \in DOMAIN list /\ list[i] \in Block /\ m \in Member
    BY <1>2, <1>9
  <2>3. CASE m.host \in HostsOf(rows)
    BY <1>3, <1>5, <2>1, <2>2, <2>3 DEF PreviewedPromotions
  <2>4. CASE m.host \notin HostsOf(rows)
    <3>1. m.votes = 0 /\ list[i].votes = 1
      BY <2>1, <2>2 DEF Member, Block
    <3>2. ~m.arbiter
      BY <3>1 DEF WellFormedMembers
    <3>3. ~list[i].arbiter
      BY <1>1, <1>2, <2>1, <2>2, <3>2
    <3>4. NeedsPromotion(list[i]) /\ i \in PreviewedAdds(rows, list)
      BY <1>7, <2>1, <2>2, <2>4, <3>1, <3>3 DEF NeedsPromotion
    <3> QED BY <3>4 DEF PreviewedPromotions
  <2> QED BY <2>3, <2>4
<1>11. \A i \in toAdd : NeedsPromotion(bs[i]) => i \in PreviewedPromotions(rows, list)
  BY <1>2, <1>7, <1>8 DEF PreviewedPromotions
<1>12. toPromote \subseteq PreviewedPromotions(rows, list)
  BY <1>10, <1>11
<1>13. ASSUME HostsOf(members) \cap HostsOf(Rows(bs)) \subseteq HostsOf(rows)
       PROVE  toAdd = PreviewedAdds(rows, list) /\ toPromote = PreviewedPromotions(rows, list)
  <2>1. \A i \in DOMAIN list : list[i].host \in HostsOf(Rows(bs))
    BY <1>1, <1>2 DEF HostsOf, Rows
  <2>2. toAdd = PreviewedAdds(rows, list)
    BY <1>6, <1>7, <1>13, <2>1
  <2>3. ASSUME NEW i \in DOMAIN list, NEW r \in rows, r.host = list[i].host, list[i].votes > r.votes
        PROVE  i \in PromotingBlocks(members, bs)
    BY <1>1, <1>2, <1>4, <2>3 DEF PromotingBlocks
  <2>4. PreviewedPromotions(rows, list) \subseteq toPromote
    BY <1>2, <1>3, <1>7, <2>2, <2>3 DEF PreviewedPromotions
  <2> QED BY <1>12, <2>2, <2>4
<1> QED BY <1>8, <1>12, <1>13

WellInstalled == WellFormedMembers(installed.members)

\* Whatever failed before, a plan that starts from rows that are true of the
\* server previews the adds and the promotions of its apply.  (PREVIEW-022,
\* PREVIEW-023)
THEOREM PreviewKeepsItsWord == Spec => []PreviewIsTrue
<1>1. Init => WellInstalled
  BY ConfigsAssumption DEF Init, WellInstalled
<1>2. TypeInv /\ WellInstalled /\ [Next]_vars => WellInstalled'
  BY InstalledChanges DEF WellInstalled, Acceptable
<1>3. TypeInv /\ WellInstalled => PreviewIsTrue
  <2> SUFFICES ASSUME TypeInv, WellInstalled PROVE PreviewIsTrue
    OBVIOUS
  <2>1. installed.members \in SUBSET Member
    BY InstalledTyped DEF TypeInv
  <2> SUFFICES ASSUME NEW list \in BlockLists,
                      LET bs   == ExtractMemberOverrides(list)
                          rows == PreviewState(data.tracked, data.members, list)
                      IN  /\ pc = "idle" /\ ValidateMemberOverrides(bs)
                          /\ rows = MembersToState(installed.members, HostsOf(rows))
                          /\ \A i \in DOMAIN bs, m \in installed.members :
                                 m.host = bs[i].host => m.arbiter = bs[i].arbiter
               PROVE  LET bs   == ExtractMemberOverrides(list)
                          rows == PreviewState(data.tracked, data.members, list)
                          toAdd     == MissingBlocks(installed.members, bs)
                          toPromote == PromotingBlocks(installed.members, bs)
                                         \cup {i \in toAdd : NeedsPromotion(bs[i])}
                      IN  /\ toAdd \subseteq PreviewedAdds(rows, list)
                          /\ toPromote \subseteq PreviewedPromotions(rows, list)
                          /\ HostsOf(installed.members) \cap HostsOf(Rows(bs)) \subseteq HostsOf(rows) =>
                                 /\ toAdd = PreviewedAdds(rows, list)
                                 /\ toPromote = PreviewedPromotions(rows, list)
    BY DEF PreviewIsTrue
  <2>2. list \in Seq(Block)
    BY BlocksAssumption
  <2> DEFINE bs   == ExtractMemberOverrides(list)
             rows == PreviewState(data.tracked, data.members, list)
             toAdd     == MissingBlocks(installed.members, bs)
             toPromote == PromotingBlocks(installed.members, bs)
                            \cup {i \in toAdd : NeedsPromotion(bs[i])}
  <2>3. /\ bs = ExtractMemberOverrides(list) /\ ValidateMemberOverrides(bs)
        /\ rows = MembersToState(installed.members, HostsOf(rows))
        /\ \A i \in DOMAIN bs, m \in installed.members :
               m.host = bs[i].host => m.arbiter = bs[i].arbiter
        /\ toAdd = MissingBlocks(installed.members, bs)
        /\ toPromote = PromotingBlocks(installed.members, bs)
                          \cup {i \in toAdd : NeedsPromotion(bs[i])}
        /\ WellFormedMembers(installed.members)
    BY DEF WellInstalled
  <2> HIDE DEF bs, rows, toAdd, toPromote
  <2>4. /\ toAdd \subseteq PreviewedAdds(rows, list)
        /\ toPromote \subseteq PreviewedPromotions(rows, list)
        /\ HostsOf(installed.members) \cap HostsOf(Rows(bs)) \subseteq HostsOf(rows) =>
               /\ toAdd = PreviewedAdds(rows, list)
               /\ toPromote = PreviewedPromotions(rows, list)
    BY <2>1, <2>2, <2>3, PreviewMatches
  <2> QED BY <2>4 DEF bs, rows, toAdd, toPromote
<1> QED BY <1>1, <1>2, <1>3, TypeInit, TypeStep, PTL DEF Spec

---------------------------------------------------------------------------
(* What a success leaves to do *)

\* After a success the rows in state are those of the managed members.
RowsSettled ==
    pc = "idle" /\ result = "ok" =>
        data.members = MembersToState(installed.members, HostsOf(Rows(blocks)))

\* A refresh reads the rows it finds in state, and finds them again.
LEMMA ReadTwice ==
    ASSUME NEW members, NEW hosts
    PROVE  MembersToState(members, HostsOf(MembersToState(members, hosts)))
             = MembersToState(members, hosts)
<1> DEFINE rows == MembersToState(members, hosts)
<1>1. ASSUME NEW m \in members, m.host \in hosts PROVE m.host \in HostsOf(rows)
  <2>1. MemberView(m) \in rows
    BY <1>1 DEF MembersToState
  <2>2. MemberView(m).host = m.host
    BY DEF MemberView
  <2> HIDE DEF rows
  <2> QED BY <2>1, <2>2 DEF HostsOf
<1>2. HostsOf(rows) \subseteq hosts
  BY DEF MembersToState, MemberView, HostsOf
<1> HIDE DEF rows
<1>3. {k \in members : k.host \in HostsOf(rows)} = {k \in members : k.host \in hosts}
  BY <1>1, <1>2
<1> QED BY <1>3 DEF MembersToState, rows

\* Only the final read ends in a success.
LEMMA SuccessfulStep ==
    ASSUME SettingsRecorded, [Next]_vars, pc' = "idle", result' = "ok"
    PROVE  \/ FinalRead \/ Refresh
           \/ UNCHANGED <<installed, data, pc, blocks, pending, result>>
<1>1. CASE ReadConfig \/ ReadConfigFails \/ Preflight \/ PreflightInterrupted
  BY <1>1 DEF ReadConfig, ReadConfigFails, Preflight, PreflightInterrupted, Abort
<1>2. CASE ReconfigSucceeds \/ ReconfigLost \/ ReconfigFails \/ ReconfigRefused
  <2>1. ASSUME NEW ok \in BOOLEAN, ReconfigReturns(ok) PROVE FALSE
    BY <2>1, SettledPlace DEF ReconfigReturns, NextMember, Abort, MemberError
  <2> QED BY <1>2, <2>1 DEF ReconfigSucceeds, ReconfigLost, ReconfigFails, ReconfigRefused
<1>3. CASE ReconfigConflict \/ AutoReconfig \/ Interrupt \/ ContextExpires
  BY <1>3 DEF ReconfigConflict, AutoReconfig, Interrupt, ContextExpires
<1>4. CASE PollStatus \/ WaitTimeout \/ WaitInterrupted
  BY <1>4, SettledPlace DEF PollStatus, WaitTimeout, WaitInterrupted, MemberError
<1>5. CASE PromoteMember \/ AddMember \/ RemoveMember \/ MemberReadFails
  BY <1>5, SettledPlace DEF PromoteMember, AddMember, RemoveMember, MemberReadFails, Send,
     MemberError
<1>6. CASE FinalReadFails \/ BeginApply \/ Import
  BY <1>6 DEF FinalReadFails, BeginApply, Import, SettingsRecorded
<1>7. CASE Nodes \/ Rest \/ UNCHANGED vars
  BY <1>7 DEF Nodes, NodeUp, NodeCatchesUp, NodeDown, NodeOnly, Rest, vars, server, work
<1> QED BY <1>1, <1>2, <1>3, <1>4, <1>5, <1>6, <1>7 DEF Next, Provider, Terraform

LEMMA RowsStep == ASSUME TypeInv, RowsSettled, SettingsRecorded, [Next]_vars PROVE RowsSettled'
<1> SUFFICES ASSUME pc' = "idle", result' = "ok"
             PROVE  data'.members = MembersToState(installed'.members, HostsOf(Rows(blocks')))
  BY DEF RowsSettled
<1>1. data \in [tracked : BOOLEAN, settings : SettingsValues, members : SUBSET Block]
  BY DEF TypeInv, DataTyped
<1>2. CASE FinalRead
  BY <1>1, <1>2 DEF FinalRead, ReadBack, server, work
<1>3. CASE Refresh
  <2>1. /\ data'.members = MembersToState(installed.members, HostsOf(data.members))
        /\ UNCHANGED <<installed, blocks, pc, result>>
    BY <1>1, <1>3 DEF Refresh, server
  <2>2. data.members = MembersToState(installed.members, HostsOf(Rows(blocks)))
    BY <2>1 DEF RowsSettled
  <2> QED BY <2>1, <2>2, ReadTwice
<1>4. CASE UNCHANGED <<installed, data, pc, blocks, pending, result>>
  BY <1>4 DEF RowsSettled
<1> QED BY <1>2, <1>3, <1>4, SuccessfulStep

\* A member that already has what its block asks for is merged into itself.
LEMMA DoneMergesToItself ==
    ASSUME NEW members \in SUBSET Member, UniqueHostsAndIds(members), NEW bs \in Seq(Block),
           \A i \in DOMAIN bs : DoneIn(members, bs[i], FALSE)
    PROVE  /\ MergeMembers(members, bs) = members
           /\ PromotingBlocks(members, bs) = {} /\ MissingBlocks(members, bs) = {}
           /\ MembersToState(members, HostsOf(Rows(bs))) = Rows(bs)
<1>1. \A i \in DOMAIN bs : \A m \in members : m.host = bs[i].host => MemberView(m) = bs[i]
  BY DEF DoneIn, UniqueHostsAndIds
<1>2. \A b \in Rows(bs) : b \in Block /\ \A m \in members : m.host = b.host => MemberView(m) = b
  BY <1>1 DEF Rows
<1>3. ASSUME NEW m \in members PROVE MergedMember(m, bs) = m
  <2>1. CASE m.host \in HostsOf(Rows(bs))
    <3> DEFINE b == BlockOf(bs, m.host)
    <3>1. b \in Rows(bs) /\ b.host = m.host
      <4>1. PICK i \in DOMAIN bs : bs[i].host = m.host
        BY <2>1 DEF HostsOf, Rows
      <4> DEFINE j == CHOOSE k \in DOMAIN bs : bs[k].host = m.host
      <4>2. j \in DOMAIN bs /\ bs[j].host = m.host
        BY <4>1
      <4>3. b = bs[j]
        BY DEF BlockOf
      <4> HIDE DEF j, b
      <4> QED BY <4>2, <4>3 DEF Rows
    <3>2. MergedMember(m, bs) = MergeMember(m, HoldPromotion(m, b))
      BY <2>1 DEF MergedMember
    <3> HIDE DEF b
    <3>3. b.votes = m.votes /\ b.priority = m.priority /\ b.arbiter = m.arbiter
      BY <1>2, <3>1 DEF MemberView
    <3>4. HoldPromotion(m, b) = b
      BY <3>3 DEF HoldPromotion, Member
    <3>5. MergeMember(m, b) = m
      BY <3>3 DEF MergeMember, Member
    <3> QED BY <3>2, <3>4, <3>5
  <2>2. CASE m.host \notin HostsOf(Rows(bs))
    BY <2>2 DEF MergedMember
  <2> QED BY <2>1, <2>2
<1>4. MergeMembers(members, bs) = members
  <2>1. MergeMembers(members, bs) = {MergedMember(m, bs) : m \in members}
    BY DEF MergeMembers, MergedMember
  <2> QED BY <1>3, <2>1
<1>5. PromotingBlocks(members, bs) = {}
  <2> SUFFICES ASSUME NEW i \in DOMAIN bs, NEW m \in members, m.host = bs[i].host,
                      bs[i].votes > m.votes
               PROVE  FALSE
    BY DEF PromotingBlocks
  <2>1. bs[i].votes = m.votes /\ m.votes \in {0, 1}
    BY <1>1 DEF MemberView, Member
  <2> QED BY <2>1
<1>6. MissingBlocks(members, bs) = {}
  BY DEF MissingBlocks, DoneIn, HostsOf
<1>7. MembersToState(members, HostsOf(Rows(bs))) = Rows(bs)
  <2>1. ASSUME NEW m \in members, m.host \in HostsOf(Rows(bs)) PROVE MemberView(m) \in Rows(bs)
    BY <1>2, <2>1 DEF HostsOf
  <2>2. ASSUME NEW b \in Rows(bs)
        PROVE  \E m \in members : m.host \in HostsOf(Rows(bs)) /\ MemberView(m) = b
    BY <2>2 DEF Rows, DoneIn, HostsOf
  <2> QED BY <2>1, <2>2 DEF MembersToState
<1> QED BY <1>4, <1>5, <1>6, <1>7

\* A member that is pending is not what its block asks for, and shows.
LEMMA PendingShows ==
    ASSUME NEW members \in SUBSET Member, UniqueHostsAndIds(members), NEW bs \in Seq(Block),
           NEW i \in DOMAIN bs, DoneIn(members, bs[i], TRUE)
    PROVE  MembersToState(members, HostsOf(Rows(bs))) # Rows(bs)
<1>1. PICK m \in members : /\ m.host = bs[i].host /\ m.votes = 0 /\ m.priority = 0
                           /\ NeedsPromotion(bs[i])
  BY DEF DoneIn
<1>2. ASSUME NEW k \in members, MemberView(k) = bs[i] PROVE FALSE
  <2>1. k.host = bs[i].host /\ k.votes = bs[i].votes /\ k.priority = bs[i].priority
    BY <1>2 DEF MemberView
  <2>2. k = m
    BY <1>1, <2>1 DEF UniqueHostsAndIds
  <2> QED BY <1>1, <2>1, <2>2 DEF NeedsPromotion
<1>3. bs[i] \in Rows(bs)
  BY DEF Rows
<1> QED BY <1>2, <1>3 DEF MembersToState

LEMMA SuccessIsQuiet ==
    ASSUME TypeInv, UniqueHostsAndIds(installed.members), RowsSettled, SettingsRecorded,
           OkMeansDoneOrPending
    PROVE  NextPlanIsQuiet
<1> SUFFICES ASSUME pc = "idle", result = "ok"
             PROVE  /\ PlanHasDiff(blocks, installed.settings) <=> pending # {}
                    /\ pending = {} =>
                          /\ MergeMembers(installed.members, blocks) = installed.members
                          /\ PromotingBlocks(installed.members, blocks) = {}
                          /\ MissingBlocks(installed.members, blocks) = {}
  BY DEF NextPlanIsQuiet
<1>1. /\ installed.members \in SUBSET Member /\ blocks \in Seq(Block)
      /\ pending \subseteq DOMAIN blocks
  BY InstalledTyped DEF TypeInv, PlaceTyped
<1>2. /\ data.tracked /\ data.settings = installed.settings
      /\ data.members = MembersToState(installed.members, HostsOf(Rows(blocks)))
      /\ \A i \in DOMAIN blocks : DoneIn(installed.members, blocks[i], i \in pending)
  BY DEF RowsSettled, SettingsRecorded, OkMeansDoneOrPending
<1>3. CASE pending = {}
  <2>1. \A i \in DOMAIN blocks : DoneIn(installed.members, blocks[i], FALSE)
    BY <1>2, <1>3 DEF DoneIn
  <2>2. /\ MergeMembers(installed.members, blocks) = installed.members
        /\ PromotingBlocks(installed.members, blocks) = {}
        /\ MissingBlocks(installed.members, blocks) = {}
        /\ data.members = Rows(blocks)
    BY <1>1, <1>2, <2>1, DoneMergesToItself
  <2> QED BY <1>2, <1>3, <2>2 DEF PlanHasDiff
<1>4. CASE pending # {}
  <2>1. PICK i \in pending : TRUE
    BY <1>4
  <2>2. i \in DOMAIN blocks /\ DoneIn(installed.members, blocks[i], TRUE)
    BY <1>1, <1>2, <2>1 DEF DoneIn
  <2>3. data.members # Rows(blocks)
    BY <1>1, <1>2, <2>2, PendingShows
  <2> QED BY <1>4, <2>3 DEF PlanHasDiff
<1> QED BY <1>3, <1>4

LEMMA RowsInit == Init => RowsSettled
BY DEF Init, RowsSettled

\* An apply that reports success has done what its blocks ask for, or reports
\* the member as pending; the next plan of these blocks shows a difference
\* exactly if one is pending, and if none is, sending the blocks again would
\* change no member.  (SHARD-017, SHARD-018, SHARD-021, SHARD-023)
THEOREM SuccessIsWhole == Spec => []SuccessMeansDone
<1>1. TypeInv /\ IdInv /\ RowsSettled /\ HonestInv /\ OutcomeInv => SuccessMeansDone
  BY SuccessIsQuiet DEF SuccessMeansDone, IdInv, UniqueInstalled, HonestInv, SettingsInv,
     OutcomeInv, ServerServes
<1>2. Init => HonestInv
  BY DEF Init, HonestInv, SettingsInv, SettingsRecorded, RowsRead, InMemberPhase
<1>3. TypeInv /\ RowsSettled /\ HonestInv /\ [Next]_vars => RowsSettled'
  BY RowsStep DEF HonestInv, SettingsInv
<1> QED BY <1>1, <1>2, <1>3, TypeInit, TypeStep, RemovalInit, RemovalStep, IdInit, IdStep,
       OutcomeInit, OutcomeStep, HonestStep, RowsInit, PTL DEF Spec

---------------------------------------------------------------------------
(* Beside a second operator *)

\* A second operator's rs.add() gives the set one member more, without a
\* vote, and leaves the apply where it is.
LEMMA RivalAddsOne ==
    ASSUME TypeInv, NEW h \in Hosts, RivalAdds(h)
    PROVE  /\ TypeInv'
           /\ installed.members \subseteq installed'.members
           /\ \A k \in installed'.members : k \in installed.members \/ k.host = h
           /\ UniqueInstalled => UniqueInstalled'
           /\ Voters(installed'.members) = Voters(installed.members)
           /\ installed'.settings = installed.settings
           /\ UNCHANGED <<data, pc, blocks, work, interrupted, result, history>>
<1> DEFINE id == NextMemberID(installed.members)
           m == [id |-> id, host |-> h, votes |-> 0, priority |-> 0, arbiter |-> FALSE]
           new == installed.members \cup {m}
<1>1. /\ installed \in Config /\ installed.version \in Nat /\ installed.settings \in SettingsValues
      /\ installed.members \in SUBSET Member /\ BoundedIds(installed.members)
  BY InstalledTyped DEF TypeInv, ServerTyped
<1>2. id \in Nat /\ \A k \in installed.members : k.id < id
  BY <1>1, NextMemberIDIsFresh
<1> HIDE DEF id
<1>3. m \in Member /\ m.id = id /\ m.votes = 0 /\ m.host = h
  BY <1>2 DEF Member
<1> HIDE DEF m
<1>4. new \in SUBSET Member /\ \A k \in new : k.id <= id
  BY <1>1, <1>2, <1>3 DEF Member
<1>5. BoundedIds(new) /\ Voters(new) = Voters(installed.members)
  BY <1>2, <1>3, <1>4 DEF BoundedIds, Voters
<1>6. installed' = [installed EXCEPT !.version = installed.version + 1, !.members = new]
  BY DEF RivalAdds, id, m
<1>7. installed.members \subseteq new /\ \A k \in new : k \in installed.members \/ k.host = h
  BY <1>3
<1>12. ASSUME UniqueInstalled PROVE UniqueHostsAndIds(new)
  <2>1. \A k \in installed.members : k.host # h /\ k.id # id
    BY <1>1, <1>2 DEF RivalAdds, HostsOf, Member
  <2> QED BY <1>3, <1>12, <2>1 DEF UniqueInstalled, UniqueHostsAndIds
<1> HIDE DEF new
<1>8. /\ installed' \in Config /\ installed'.members = new
      /\ installed'.settings = installed.settings
  <2>1. new \in SUBSET Member /\ installed.version + 1 \in Nat
    BY <1>1, <1>4
  <2>2. installed \in [version : Nat, settings : SettingsValues, members : SUBSET Member]
    BY <1>1 DEF Config
  <2>3. installed' \in [version : Nat, settings : SettingsValues, members : SUBSET Member]
    BY <1>6, <2>1, <2>2
  <2> QED BY <1>6, <2>2, <2>3 DEF Config
<1>9. ServerTyped'
  BY <1>5, <1>8 DEF RivalAdds, TypeInv, ServerTyped
<1>10. /\ UNCHANGED <<data, pc, blocks, work, interrupted, result, history>>
       /\ UNCHANGED <<applies, timeouts>> /\ faults' = faults + 1
  BY DEF RivalAdds, Charge
<1>11. SentTyped' /\ DataTyped' /\ PlaceTyped' /\ FlagsTyped'
  BY <1>10 DEF TypeInv, SentTyped, DataTyped, PlaceTyped, FlagsTyped, work, history
<1>13. UniqueInstalled => UniqueInstalled'
  BY <1>8, <1>12 DEF UniqueInstalled
<1> QED BY <1>5, <1>7, <1>8, <1>9, <1>10, <1>11, <1>13 DEF TypeInv

\* The rival's member is none of those a successful apply vouches for.
LEMMA RivalLeavesRows ==
    ASSUME TypeInv, RowsSettled, OkMeansDoneOrPending, NEW h \in Hosts, RivalAdds(h)
    PROVE  RowsSettled'
<1> SUFFICES ASSUME pc' = "idle", result' = "ok"
             PROVE  data'.members = MembersToState(installed'.members, HostsOf(Rows(blocks')))
  BY DEF RowsSettled
<1>1. /\ installed.members \subseteq installed'.members
      /\ \A k \in installed'.members : k \in installed.members \/ k.host = h
      /\ UNCHANGED <<data, pc, blocks, pending, result>>
  BY RivalAddsOne DEF work
<1>2. h \notin HostsOf(Rows(blocks))
  <2>1. \A i \in DOMAIN blocks : \E m \in installed.members : m.host = blocks[i].host
    BY <1>1 DEF OkMeansDoneOrPending, DoneIn
  <2>2. h \notin HostsOf(installed.members)
    BY DEF RivalAdds
  <2> QED BY <2>1, <2>2 DEF HostsOf, Rows
<1>3. {k \in installed'.members : k.host \in HostsOf(Rows(blocks))}
        = {k \in installed.members : k.host \in HostsOf(Rows(blocks))}
  BY <1>1, <1>2
<1>4. data.members = MembersToState(installed.members, HostsOf(Rows(blocks)))
  BY <1>1 DEF RowsSettled
<1> QED BY <1>1, <1>3, <1>4 DEF MembersToState

\* What holds of the apply whoever else works on the set.  (RemovalInv does
\* not: see OnlyRollbackRemoves.)
RivalInv == TypeInv /\ VoteInv /\ HonestInv /\ OutcomeInv /\ UniqueInstalled /\ RowsSettled

LEMMA RivalStep ==
    ASSUME RivalInv, [RivalNext]_vars
    PROVE  RivalInv' /\ (DataVoters(installed'.members) \ Voters(installed.members) \subseteq seen)
<1>1. CASE [Next]_vars
  <2>1. RivalInv'
    <3>1. (TypeInv /\ VoteInv /\ HonestInv /\ OutcomeInv)'
      BY <1>1, TypeStep, VoteStep, HonestStep, OutcomeStep DEF RivalInv
    <3>2. RowsSettled'
      BY <1>1, RowsStep DEF RivalInv, HonestInv, SettingsInv
    <3>3. UniqueInstalled'
      BY <1>1, InstalledChanges DEF RivalInv, UniqueInstalled, Acceptable, WellFormedMembers
    <3> QED BY <3>1, <3>2, <3>3 DEF RivalInv
  <2>2. CASE installed'.members = installed.members
    BY <2>1, <2>2 DEF DataVoters, Voters
  <2>3. CASE pc = "send" /\ installed' = cfg
    BY <2>1, <2>3 DEF RivalInv, VoteInv
  <2> QED BY <1>1, <2>2, <2>3, InstalledChanges DEF RivalInv
<1>2. CASE \E h \in Hosts : RivalAdds(h)
  <2>1. /\ TypeInv' /\ UniqueInstalled' /\ installed.members \subseteq installed'.members
        /\ Voters(installed'.members) = Voters(installed.members)
        /\ installed'.settings = installed.settings
        /\ UNCHANGED <<data, pc, blocks, work, interrupted, result, history>>
    BY <1>2, RivalAddsOne DEF RivalInv
  <2>2. /\ UNCHANGED <<op, cfg, cur, seen, CurBlock>>
    BY <2>1 DEF work, history, CurBlock
  <2>3. VoteInv'
    BY <2>1, <2>2 DEF RivalInv, VoteInv
  <2>4. HonestInv'
    BY <2>1, <2>2 DEF RivalInv, HonestInv, SettingsInv, SettingsRecorded, RowsRead, InMemberPhase
  <2>5. OutcomeInv'
    BY <2>1, QuietServes DEF RivalInv
  <2>6. DataVoters(installed'.members) \subseteq Voters(installed.members)
    BY <2>1 DEF DataVoters, Voters
  <2>7. RowsSettled'
    BY <1>2, RivalLeavesRows DEF RivalInv, OutcomeInv, ServerServes
  <2> QED BY <2>1, <2>3, <2>4, <2>5, <2>6, <2>7 DEF RivalInv
<1> QED BY <1>1, <1>2 DEF RivalNext

\* Beside an operator who adds members to the same set, an apply that
\* reports success has still done its work, all that is missing still shows in
\* state, and no member gets a vote before its sync.  (SHARD-018, SHARD-021,
\* SHARD-022)
THEOREM RivalsAreOutlived == RivalSpec => OutlivesRivals
<1>1. Init => RivalInv
  <2>1. Init => VoteInv /\ HonestInv
    BY DEF Init, VoteInv, HonestInv, SettingsInv, SettingsRecorded, RowsRead, InMemberPhase
  <2>2. Init => UniqueInstalled
    BY IdInit DEF IdInv
  <2> QED BY <2>1, <2>2, TypeInit, OutcomeInit, RowsInit DEF RivalInv
<1>2. RivalInv => SuccessMeansDone /\ NoHiddenWork
  <2> SUFFICES ASSUME RivalInv PROVE SuccessMeansDone /\ NoHiddenWork
    OBVIOUS
  <2>1. OkMeansDoneOrPending /\ NoHiddenWork /\ SettingsRecorded
    BY HonestImplies DEF RivalInv, OutcomeInv, ServerServes, StateIsHonest
  <2>2. NextPlanIsQuiet
    BY <2>1, SuccessIsQuiet DEF RivalInv, UniqueInstalled
  <2> QED BY <2>1, <2>2 DEF SuccessMeansDone
<1>3. RivalInv /\ [RivalNext]_vars =>
         RivalInv' /\ (DataVoters(installed'.members) \ Voters(installed.members) \subseteq seen)
  BY RivalStep
<1> QED BY <1>1, <1>2, <1>3, PTL DEF RivalSpec, OutlivesRivals, VotesFollowSync
===========================================================================
