----------------------- MODULE MCShardConfigApply -----------------------
(* Instances of ShardConfigApply for TLC. *)
EXTENDS ShardConfigApply, TLC

CONSTANTS h1, h2, h3, s1, s2

Voter(h)    == [host |-> h, votes |-> 1, priority |-> 1, arbiter |-> FALSE]
NonVoter(h) == [host |-> h, votes |-> 0, priority |-> 0, arbiter |-> FALSE]
Electable(h) == [host |-> h, votes |-> 0, priority |-> 1, arbiter |-> FALSE]
Arbiter(h)  == [host |-> h, votes |-> 1, priority |-> 1, arbiter |-> TRUE]

M(id, b) == BuildConfigMember(ExtractOverride(b), id)
ConfigWith(ms) == [version |-> 1, settings |-> s1, members |-> ms]

\* A fresh set of one member, and a set that lost a member (an _id is
\* missing) and where another waits for its votes.
MCInitialConfigs ==
    {ConfigWith({M(0, Voter(h1))}),
     ConfigWith({M(0, Voter(h1)), M(2, NonVoter(h2))})}

MCBlockLists ==
    {<<Voter(h1), Voter(h2), Voter(h3)>>,
     <<Voter(h1), NonVoter(h2), Arbiter(h3)>>,
     <<Voter(h3), Voter(h2)>>,
     <<NonVoter(h1), NonVoter(h2), Voter(h3)>>,
     <<Voter(h1), Electable(h2)>>,
     <<Voter(h2), Voter(h2)>>}
\* One plan, applied until it shows no difference.
MCOnePlan == {<<Voter(h2), Voter(h1), Arbiter(h3)>>}
MCSettings == {s1, s2}
MCHosts == {h1, h2, h3}
=========================================================================
