------------------------- MODULE OplogResizeProofs -------------------------
(***************************************************************************)
(* The safety properties of OplogResize: no member is resized without a    *)
(* configured size, a size in state has been confirmed, and the fan-out    *)
(* reaches everybody, the primary last.  Only the last of them depends on  *)
(* the order of the fan-out and mentions the hosts still to visit.         *)
(***************************************************************************)
EXTENDS OplogResize, FiniteSetTheorems, WellFoundedInduction, TLAPS

\* What of the types the arguments need.
ServerTyped == oplog \in [Bearing -> Sizes] /\ late \in [Bearing -> Sizes \cup {Unset}]

LocalsTyped ==
    /\ config \in Configs \cup {Unset}
    /\ creating \in BOOLEAN /\ changed \in BOOLEAN
    /\ resizable \subseteq Bearing

\* What the plan made of the configuration, until the read-back.
PlanInv ==
    /\ pc \in {"members", "status"} =>
          IF config # Unset THEN data.size = config
          ELSE data.size = Unset \/ (~creating /\ ~changed)
    /\ pc = "resize" => config # Unset /\ data.size = config

DataTyped == data \in [tracked : BOOLEAN, tainted : BOOLEAN, size : Sizes \cup {Unset, Mismatch}]

ReadingsTyped == readings \in [Bearing -> Sizes \cup {Unread, Failed}]

\* A reading is the member's size until a late resize lands on it.
ReadingInv ==
    pc \in {"read", "idle"} =>
        \A h \in Bearing \ landed : readings[h] \in Sizes => oplog[h] = readings[h]

\* What a finished read-back left in state.
ConfirmedInv ==
    pc = "idle" /\ result \in {"ok", "refreshed"} /\ data.size \in Sizes =>
        /\ \A h \in Bearing : readings[h] \in Sizes => readings[h] = data.size
        /\ attempted => \E h \in Bearing : readings[h] = data.size

\* Nothing has been read before the read-back.
UnreadInv == pc \in {"members", "status", "resize"} => readings = NoReadings

---------------------------------------------------------------------------
LEMMA SizesAreNot == Unset \notin Sizes /\ Unread \notin Sizes /\ Failed \notin Sizes
                         /\ Mismatch \notin Sizes
BY SizesAssumption DEF Unset, Unread, Failed, Mismatch

\* The one size of the members that were read, and Mismatch if there are
\* several.  (OPLOG-008, OPLOG-013)
LEMMA CommonSizeIsCommon ==
    ASSUME NEW S \in SUBSET Sizes, IsFiniteSet(S), NEW kept
    PROVE  /\ S = {} => CommonSize(S, kept) = kept
           /\ S # {} /\ CommonSize(S, kept) \in Sizes =>
                 CommonSize(S, kept) \in S /\ \A s \in S : s = CommonSize(S, kept)
           /\ CommonSize(S, kept) \in Sizes \cup {kept, Mismatch}
<1>1. CASE S = {}
  BY <1>1 DEF CommonSize
<1>2. CASE S # {} /\ Cardinality(S) # 1
  BY <1>2, SizesAreNot DEF CommonSize
<1>3. CASE S # {} /\ Cardinality(S) = 1
  <2>1. PICK x : S = {x}
    BY <1>3, FS_Singleton
  <2>2. (CHOOSE s \in S : TRUE) = x
    BY <2>1
  <2>3. CommonSize(S, kept) = x
    BY <1>3, <2>2 DEF CommonSize
  <2> QED BY <2>1, <2>3
<1> QED BY <1>1, <1>2, <1>3

\* What the members that were read have told.
ReadSizes == {readings[h] : h \in Bearing} \ {Failed}

LEMMA ReadSizesTyped ==
    ASSUME ReadingsTyped, \A h \in Bearing : readings[h] # Unread
    PROVE  /\ ReadSizes \in SUBSET Sizes /\ IsFiniteSet(ReadSizes)
           /\ \A h \in Bearing : readings[h] \in Sizes <=> readings[h] \in ReadSizes
<1>1. ReadSizes \in SUBSET Sizes
  BY DEF ReadingsTyped, ReadSizes
<1>2. IsFiniteSet({readings[h] : h \in Bearing})
  <2>1. readings \in Surjection(Bearing, {readings[h] : h \in Bearing})
    BY DEF ReadingsTyped, Surjection
  <2> QED BY <2>1, MembersAssumption, FS_Surjection
<1>3. IsFiniteSet(ReadSizes)
  BY <1>2, FS_Subset DEF ReadSizes
<1> QED BY <1>1, <1>3, SizesAreNot DEF ReadSizes

---------------------------------------------------------------------------
(* Types *)

TypedInv == ServerTyped /\ LocalsTyped /\ DataTyped /\ ReadingsTyped

\* An apply that fails changes nothing in state but the taint.
LEMMA FailureTyped == DataTyped /\ LocalsTyped /\ ApplyFails => DataTyped'
BY DEF DataTyped, LocalsTyped, ApplyFails

LEMMA TypedStep == TypedInv /\ PlanInv /\ [Next]_vars => TypedInv'
<1> SUFFICES ASSUME TypedInv, PlanInv, [Next]_vars PROVE TypedInv'
  OBVIOUS
<1> USE SizesAssumption DEF TypedInv
<1>1. CASE BeginApply
  <2>1. ServerTyped' /\ ReadingsTyped'
    BY <1>1 DEF BeginApply, server, ServerTyped, ReadingsTyped, NoReadings
  <2>2. LocalsTyped' /\ DataTyped'
    BY <1>1 DEF BeginApply, LocalsTyped, DataTyped
  <2> QED BY <2>1, <2>2
<1>2. CASE MembersDone
  BY <1>2 DEF MembersDone, server, fanout, ServerTyped, LocalsTyped, DataTyped, ReadingsTyped
<1>3. CASE MembersFail
  <2>1. DataTyped'
    BY <1>3, FailureTyped DEF MembersFail, DataTyped
  <2> QED BY <1>3, <2>1 DEF MembersFail, server, fanout, ServerTyped, LocalsTyped, ReadingsTyped
<1>4. CASE SkipResize \/ SkipMember
  BY <1>4 DEF SkipResize, SkipMember, server, fanout,
              ServerTyped, LocalsTyped, DataTyped, ReadingsTyped
<1>5. CASE ReadStatus
  BY <1>5 DEF ReadStatus, server, ServerTyped, LocalsTyped, DataTyped, ReadingsTyped
<1>6. CASE ResizeMember
  <2>1. data.size \in Sizes
    BY <1>6 DEF ResizeMember, PlanInv, LocalsTyped
  <2> QED BY <1>6, <2>1 DEF ResizeMember, ServerTyped, LocalsTyped, DataTyped, ReadingsTyped
<1>7. CASE ResizeMemberFails
  <2>1. DataTyped'
    BY <1>7, FailureTyped DEF ResizeMemberFails
  <2> QED BY <1>7, <2>1 DEF ResizeMemberFails, server, fanout, ServerTyped, LocalsTyped, ReadingsTyped
<1>8. CASE ResizeMemberTimesOut
  <2>1. data.size \in Sizes
    BY <1>8 DEF ResizeMemberTimesOut, PlanInv, LocalsTyped
  <2>2. DataTyped'
    BY <1>8, FailureTyped DEF ResizeMemberTimesOut
  <2> QED BY <1>8, <2>1, <2>2
          DEF ResizeMemberTimesOut, fanout, ServerTyped, LocalsTyped, ReadingsTyped
<1>9. CASE FanOutEnds
  <2>1. DataTyped'
    BY <1>9, FailureTyped DEF FanOutEnds, DataTyped
  <2> QED BY <1>9, <2>1 DEF FanOutEnds, server, fanout, ServerTyped, LocalsTyped, ReadingsTyped
<1>10. CASE Refresh
  BY <1>10 DEF Refresh, server, ServerTyped, LocalsTyped, DataTyped, ReadingsTyped, NoReadings
<1>11. CASE ReadsCut \/ \E h \in Bearing : ReadMember(h) \/ ReadMemberFails(h)
  <2>1. ReadingsTyped'
    BY <1>11 DEF ReadsCut, ReadMember, ReadMemberFails, ReadingsTyped, ServerTyped
  <2> QED BY <1>11, <2>1 DEF ReadsCut, ReadMember, ReadMemberFails, server, fanout,
                             ServerTyped, LocalsTyped, DataTyped
<1>12. CASE FinishRead
  <2>1. data'.size = CommonSize(ReadSizes, Kept)
    BY <1>12 DEF FinishRead, DataTyped, ReadSizes
  <2>2. data'.size \in Sizes \cup {Unset, Mismatch}
    BY <1>12, <2>1, ReadSizesTyped, CommonSizeIsCommon DEF FinishRead, Kept, DataTyped
  <2>3. DataTyped'
    BY <1>12, <2>2 DEF FinishRead, DataTyped
  <2> QED BY <1>12, <2>3 DEF FinishRead, server, fanout, ServerTyped, LocalsTyped, ReadingsTyped
<1>13. CASE Members
  BY <1>13 DEF Members, Land, NodeRises, NodeFalls, MembersOnly, fanout,
               ServerTyped, LocalsTyped, DataTyped, ReadingsTyped
<1>14. CASE UNCHANGED vars
  BY <1>14 DEF vars, server, fanout, ServerTyped, LocalsTyped, DataTyped, ReadingsTyped
<1> HIDE DEF TypedInv
<1> QED
  BY <1>1, <1>2, <1>3, <1>4, <1>5, <1>6, <1>7, <1>8, <1>9, <1>10, <1>11, <1>12, <1>13, <1>14
  DEF Next, Provider, FanOut, ReadBack

---------------------------------------------------------------------------
(* No resize without a configured size *)

LEMMA PlanStep == TypedInv /\ PlanInv /\ [Next]_vars => PlanInv'
<1> SUFFICES ASSUME TypedInv, PlanInv, [Next]_vars PROVE PlanInv'
  OBVIOUS
<1>1. CASE BeginApply
  <2>1. PICK c \in Configs :
           LET new     == ~data.tracked \/ data.tainted
               planned == IF c # Unset THEN c ELSE IF new THEN Unset ELSE data.size
           IN  /\ config' = c /\ creating' = new /\ changed' = (planned # data.size)
               /\ data' = [tracked |-> ~new, tainted |-> FALSE, size |-> planned]
    BY <1>1 DEF BeginApply
  <2>2. IF config' # Unset THEN data'.size = config'
        ELSE data'.size = Unset \/ (~creating' /\ ~changed')
    BY <2>1
  <2> QED BY <1>1, <2>2 DEF BeginApply, PlanInv
<1>2. CASE MembersDone
  BY <1>2 DEF MembersDone, PlanInv, TypedInv, DataTyped
<1>3. CASE ReadStatus
  <2>1. config # Unset /\ data.size = config
    BY <1>3 DEF ReadStatus, WantsResize, PlanInv
  <2> QED BY <1>3, <2>1 DEF ReadStatus, PlanInv
<1>4. CASE SkipMember \/ ResizeMember
  BY <1>4 DEF SkipMember, ResizeMember, PlanInv
<1>5. CASE pc' \in {"idle", "read"}
  BY <1>5 DEF PlanInv
<1>6. CASE MembersFail \/ SkipResize \/ ResizeMemberFails \/ ResizeMemberTimesOut
           \/ FanOutEnds \/ Refresh \/ ReadBack
  BY <1>5, <1>6 DEF MembersFail, SkipResize, ResizeMemberFails, ResizeMemberTimesOut, FanOutEnds,
     Refresh, ReadBack, ReadsCut, ReadMember, ReadMemberFails, FinishRead, ApplyFails
<1>7. CASE Members \/ UNCHANGED vars
  BY <1>7 DEF Members, Land, NodeRises, NodeFalls, MembersOnly, vars, PlanInv
<1> QED BY <1>1, <1>2, <1>3, <1>4, <1>6, <1>7 DEF Next, Provider, FanOut

LEMMA OplogInit == Init => TypedInv /\ PlanInv
<1> SUFFICES ASSUME Init PROVE TypedInv /\ PlanInv
  OBVIOUS
<1>1. ServerTyped /\ LocalsTyped /\ ReadingsTyped /\ PlanInv
  BY DEF Init, ServerTyped, LocalsTyped, ReadingsTyped, NoReadings, PlanInv
<1>2. {oplog[h] : h \in Bearing} \in SUBSET Sizes /\ IsFiniteSet({oplog[h] : h \in Bearing})
  <2>1. oplog \in Surjection(Bearing, {oplog[h] : h \in Bearing})
    BY <1>1 DEF ServerTyped, Surjection
  <2> QED BY <1>1, <2>1, MembersAssumption, FS_Surjection DEF ServerTyped
<1>3. DataTyped
  <2> DEFINE common == CommonSize({oplog[h] : h \in Bearing}, Unset)
  <2>1. common \in Sizes \cup {Unset, Mismatch}
    BY <1>2, CommonSizeIsCommon
  <2>2. data \in {[tracked |-> FALSE, tainted |-> FALSE, size |-> Unset],
                  [tracked |-> TRUE, tainted |-> FALSE, size |-> common]}
    BY DEF Init
  <2> HIDE DEF common
  <2>3. \A b \in BOOLEAN, z \in Sizes \cup {Unset, Mismatch} :
           [tracked |-> b, tainted |-> FALSE, size |-> z]
              \in [tracked : BOOLEAN, tainted : BOOLEAN, size : Sizes \cup {Unset, Mismatch}]
    OBVIOUS
  <2> QED BY <2>1, <2>2, <2>3 DEF DataTyped
<1> QED BY <1>1, <1>3 DEF TypedInv

\* A member is resized only if the configuration asks for a size, and to it:
\* the size an unmanaged set shows in state, or its mismatch, is never sent.
\* (OPLOG-004, OPLOG-014, OPLOG-021)
THEOREM NoResizeUnasked == Spec => UnmanagedUntouched
<1>1. TypedInv /\ PlanInv /\ [Next]_vars =>
         \A h \in resized' \ resized : config # Unset /\ oplog'[h] = config
  <2> SUFFICES ASSUME TypedInv, PlanInv, [Next]_vars, NEW h \in resized' \ resized
               PROVE  config # Unset /\ oplog'[h] = config
    OBVIOUS
  <2>1. CASE ResizeMember
    <3>1. h = Head(todo) /\ Head(todo) \in Bearing
      BY <2>1 DEF ResizeMember, TypedInv, LocalsTyped
    <3> QED BY <2>1, <3>1 DEF ResizeMember, PlanInv, TypedInv, ServerTyped
  <2>2. CASE resized' \subseteq resized
    BY <2>2
  <2>3. CASE BeginApply \/ Refresh \/ MembersDone \/ MembersFail \/ SkipResize \/ ReadStatus \/ SkipMember
             \/ ResizeMemberFails \/ ResizeMemberTimesOut \/ FanOutEnds
    BY <2>2, <2>3 DEF BeginApply, Refresh, MembersDone, MembersFail, SkipResize, ReadStatus,
                      SkipMember, ResizeMemberFails, ResizeMemberTimesOut, FanOutEnds, fanout
  <2>4. CASE ReadBack \/ Members \/ UNCHANGED vars
    BY <2>2, <2>4 DEF ReadBack, ReadsCut, ReadMember, ReadMemberFails, FinishRead, Members, Land,
                      NodeRises, NodeFalls, MembersOnly, vars, fanout
  <2> QED BY <2>1, <2>3, <2>4 DEF Next, Provider, FanOut
<1> QED BY <1>1, OplogInit, TypedStep, PlanStep, PTL DEF Spec, UnmanagedUntouched

---------------------------------------------------------------------------
(* A size in state has been confirmed *)

StateInv == UnreadInv /\ ReadingInv /\ ConfirmedInv

\* Where no read-back has run, there is nothing to confirm.
LEMMA UnreadState == NoReadings \in [Bearing -> {Unread}] /\ Unread \notin Sizes
BY SizesAreNot DEF NoReadings

\* An apply that ends before its read-back.
LEMMA FailureConfirms ==
    ASSUME UnreadInv, pc \in {"members", "status", "resize"}, UNCHANGED readings,
           pc' = "idle", result' = "failed"
    PROVE  StateInv'
BY UnreadState DEF UnreadInv, StateInv, ReadingInv, ConfirmedInv

\* The read-back itself: what FinishRead records is what every member that
\* was read has.  (OPLOG-013, OPLOG-020)
LEMMA FinishConfirms == TypedInv /\ StateInv /\ FinishRead => StateInv'
<1> SUFFICES ASSUME TypedInv, StateInv, FinishRead PROVE StateInv'
  OBVIOUS
<1>1. ReadingInv' /\ UnreadInv'
  BY DEF FinishRead, StateInv, ReadingInv, UnreadInv, server, fanout
<1>2. data'.size = CommonSize(ReadSizes, Kept)
  BY DEF FinishRead, TypedInv, DataTyped, ReadSizes
<1>3. /\ ReadSizes \in SUBSET Sizes /\ IsFiniteSet(ReadSizes)
      /\ \A h \in Bearing : readings[h] \in Sizes <=> readings[h] \in ReadSizes
  BY ReadSizesTyped DEF FinishRead, TypedInv
<1>4. ASSUME data'.size \in Sizes
      PROVE  /\ \A h \in Bearing : readings[h] \in Sizes => readings[h] = data'.size
             /\ attempted => \E h \in Bearing : readings[h] = data'.size
  <2>1. CASE ReadSizes = {}
    <3>1. data'.size = Kept
      BY <1>2, <1>3, <2>1, CommonSizeIsCommon
    <3>2. ~attempted
      BY <1>4, <3>1, SizesAreNot DEF Kept
    <3> QED BY <1>3, <2>1, <3>2
  <2>2. CASE ReadSizes # {}
    <3>1. data'.size \in ReadSizes /\ \A s \in ReadSizes : s = data'.size
      BY <1>2, <1>3, <1>4, <2>2, CommonSizeIsCommon
    <3>2. \E h \in Bearing : readings[h] = data'.size
      BY <3>1 DEF ReadSizes
    <3> QED BY <1>3, <3>1, <3>2
  <2> QED BY <2>1, <2>2
<1>5. ConfirmedInv'
  BY <1>4 DEF FinishRead, fanout, ConfirmedInv
<1> QED BY <1>1, <1>5 DEF StateInv

LEMMA StateStep == TypedInv /\ StateInv /\ [Next]_vars => StateInv'
<1> SUFFICES ASSUME TypedInv, StateInv, [Next]_vars PROVE StateInv'
  OBVIOUS
<1>1. CASE BeginApply
  BY <1>1 DEF BeginApply, StateInv, UnreadInv, ReadingInv, ConfirmedInv
<1>2. CASE MembersDone \/ ReadStatus \/ SkipMember \/ ResizeMember
  BY <1>2 DEF MembersDone, ReadStatus, SkipMember, ResizeMember, fanout,
              StateInv, UnreadInv, ReadingInv, ConfirmedInv
<1>3. CASE SkipResize
  BY <1>3, UnreadState DEF SkipResize, StateInv, UnreadInv, ReadingInv, ConfirmedInv
<1>4. CASE MembersFail \/ ResizeMemberFails \/ ResizeMemberTimesOut
  BY <1>4, FailureConfirms
  DEF MembersFail, ResizeMemberFails, ResizeMemberTimesOut, ApplyFails, StateInv
<1>5. CASE FanOutEnds
  <2>1. CASE resized = {}
    BY <1>5, <2>1, FailureConfirms DEF FanOutEnds, ApplyFails, StateInv
  <2>2. CASE resized # {}
    BY <1>5, <2>2, UnreadState DEF FanOutEnds, StateInv, UnreadInv, ReadingInv, ConfirmedInv
  <2> QED BY <2>1, <2>2
<1>6. CASE Refresh
  BY <1>6, UnreadState DEF Refresh, StateInv, UnreadInv, ReadingInv, ConfirmedInv
<1>7. CASE ReadsCut \/ \E h \in Bearing : ReadMember(h) \/ ReadMemberFails(h)
  <2>1. pc = "read" /\ pc' = "read" /\ UNCHANGED <<oplog, landed>>
    BY <1>7 DEF ReadsCut, ReadMember, ReadMemberFails, server
  <2>2. \A h \in Bearing : readings'[h] \in {readings[h], oplog[h], Failed}
    BY <1>7 DEF ReadsCut, ReadMember, ReadMemberFails, TypedInv, ReadingsTyped
  <2> QED BY <2>1, <2>2, SizesAreNot DEF StateInv, UnreadInv, ReadingInv, ConfirmedInv
<1>8. CASE FinishRead
  BY <1>8, FinishConfirms
<1>9. CASE Members
  <2>1. UNCHANGED <<data, pc, attempted, readings, result>>
    BY <1>9 DEF Members, Land, NodeRises, NodeFalls, MembersOnly, fanout
  <2>2. landed \subseteq landed' /\ \A h \in Bearing \ landed' : oplog'[h] = oplog[h]
    BY <1>9 DEF Members, Land, NodeRises, NodeFalls, TypedInv, ServerTyped
  <2> QED BY <2>1, <2>2 DEF StateInv, UnreadInv, ReadingInv, ConfirmedInv
<1>10. CASE UNCHANGED vars
  BY <1>10 DEF vars, server, fanout, StateInv, UnreadInv, ReadingInv, ConfirmedInv
<1> QED BY <1>1, <1>2, <1>3, <1>4, <1>5, <1>6, <1>7, <1>8, <1>9, <1>10
        DEF Next, Provider, FanOut, ReadBack

\* A size in state after a read-back is the size of every member that was
\* read, and after a fan-out at least one member was read with it; a late
\* resize is the one thing the read-back cannot vouch for.  (OPLOG-013,
\* OPLOG-020)
THEOREM SizeIsConfirmed == Spec => []StateIsConfirmed
<1>1. Init => StateInv
  BY UnreadState DEF Init, StateInv, UnreadInv, ReadingInv, ConfirmedInv
<1>2. TypedInv /\ StateInv => StateIsConfirmed
  <2> SUFFICES ASSUME TypedInv, StateInv, pc = "idle", result \in {"ok", "refreshed"},
                      data.size \in Sizes
               PROVE  /\ \A h \in Bearing \ landed : readings[h] \in Sizes => oplog[h] = data.size
                      /\ attempted => \E h \in Bearing : readings[h] = data.size
    BY DEF StateIsConfirmed
  <2> QED BY DEF StateInv, ReadingInv, ConfirmedInv
<1> QED BY <1>1, <1>2, OplogInit, TypedStep, PlanStep, StateStep, PTL DEF Spec

---------------------------------------------------------------------------
(* The order of the fan-out.  InOrder is a recursive function, a CHOOSE:   *)
(* what it computes is proved by the least place that would be an          *)
(* exception.                                                              *)

LEMMA LeastExists ==
    ASSUME NEW S \in SUBSET Nat, S # {}
    PROVE  \E x \in S : \A y \in S : x <= y
<1>1. PICK x \in S : \A y \in S : ~(<<y, x>> \in OpToRel(<, Nat))
  BY WFMin, NatLessThanWellFounded
<1>2. \A y \in S : x <= y
  <2> SUFFICES ASSUME NEW y \in S PROVE x <= y
    OBVIOUS
  <2>1. ~(<<y, x>> \in OpToRel(<, Nat))
    BY <1>1
  <2>2. ~(y < x)
    BY <2>1 DEF OpToRel
  <2> QED BY <2>2
<1> QED BY <1>2

\* The equation of InOrder, for the first n members.
IsUpTo(f, hosts, n) ==
    f = [k \in 0 .. n |->
            IF k = 0 THEN <<>>
            ELSE IF MemberList[k] \in hosts THEN Append(f[k - 1], MemberList[k]) ELSE f[k - 1]]

LEMMA UpToExists ==
    ASSUME NEW hosts, NEW n \in Nat
    PROVE  \E f : IsUpTo(f, hosts, n)
<1> DEFINE Bad == {k \in Nat : ~ \E f : IsUpTo(f, hosts, k)}
<1>1. Bad = {}
  <2> SUFFICES ASSUME Bad # {} PROVE FALSE
    OBVIOUS
  <2>1. Bad \in SUBSET Nat
    OBVIOUS
  <2>2. PICK k \in Bad : \A y \in Bad : k <= y
    <3> HIDE DEF Bad
    <3> QED BY <2>1, LeastExists
  <2>3. k # 0
    <3>1. IsUpTo([i \in 0 .. 0 |-> <<>>], hosts, 0)
      BY DEF IsUpTo
    <3> QED BY <3>1
  <2>4. k - 1 \in Nat /\ k - 1 \notin Bad
    BY <2>2, <2>3
  <2>5. PICK f : IsUpTo(f, hosts, k - 1)
    BY <2>4
  <2> DEFINE Step(h, i) == IF i = 0 THEN <<>>
                           ELSE IF MemberList[i] \in hosts THEN Append(h[i - 1], MemberList[i])
                           ELSE h[i - 1]
             g == [i \in 0 .. k |-> Step(f, i)]
  <2>6. \A i \in 0 .. k : i # 0 => g[i - 1] = f[i - 1]
    <3> SUFFICES ASSUME NEW i \in 0 .. k, i # 0 PROVE g[i - 1] = f[i - 1]
      OBVIOUS
    <3>1. i - 1 \in 0 .. k /\ i - 1 \in 0 .. (k - 1)
      BY <2>3
    <3>2. f = [j \in 0 .. (k - 1) |-> Step(f, j)]
      BY <2>5 DEF IsUpTo
    <3> HIDE DEF Step
    <3>3. f[i - 1] = Step(f, i - 1)
      BY <3>1, <3>2
    <3> QED BY <3>1, <3>3
  <2>7. \A i \in 0 .. k : Step(g, i) = Step(f, i)
    <3> HIDE DEF g
    <3> QED BY <2>6
  <2>8. g = [i \in 0 .. k |-> Step(g, i)]
    <3>1. g = [i \in 0 .. k |-> Step(f, i)]
      OBVIOUS
    <3> HIDE DEF g, Step
    <3> QED BY <2>7, <3>1
  <2>9. IsUpTo(g, hosts, k)
    BY <2>8 DEF IsUpTo
  <2> QED BY <2>2, <2>9
<1> QED BY <1>1

LEMMA InOrderIs ==
    ASSUME NEW hosts
    PROVE  \E f : IsUpTo(f, hosts, Len(MemberList)) /\ InOrder(hosts) = f[Len(MemberList)]
<1>1. Len(MemberList) \in Nat
  BY MembersAssumption
<1>2. PICK f : IsUpTo(f, hosts, Len(MemberList))
  BY <1>1, UpToExists
<1> QED BY <1>2 DEF InOrder, IsUpTo

Elements(s) == {s[i] : i \in 1 .. Len(s)}
Distinct(s) == \A i, j \in 1 .. Len(s) : s[i] = s[j] => i = j

LEMMA AppendHas ==
    ASSUME NEW T, NEW s \in Seq(T), NEW x \in T
    PROVE  /\ Append(s, x) \in Seq(T)
           /\ Elements(Append(s, x)) = Elements(s) \cup {x}
           /\ Distinct(s) /\ x \notin Elements(s) => Distinct(Append(s, x))
<1> DEFINE t == Append(s, x)
<1>1. /\ t \in Seq(T) /\ Len(s) \in Nat /\ Len(t) = Len(s) + 1 /\ t[Len(s) + 1] = x
      /\ \A i \in 1 .. Len(s) : t[i] = s[i]
  OBVIOUS
<1> HIDE DEF t
<1>2. Elements(t) = Elements(s) \cup {x}
  <2>1. \A e \in Elements(t) : e \in Elements(s) \cup {x}
    <3> SUFFICES ASSUME NEW i \in 1 .. Len(s) + 1 PROVE t[i] \in Elements(s) \cup {x}
      BY <1>1 DEF Elements
    <3>1. CASE i = Len(s) + 1
      BY <1>1, <3>1
    <3>2. CASE i # Len(s) + 1
      <4>1. i \in 1 .. Len(s)
        BY <1>1, <3>2
      <4> QED BY <1>1, <4>1 DEF Elements
    <3> QED BY <3>1, <3>2
  <2>2. \A e \in Elements(s) : e \in Elements(t)
    <3> SUFFICES ASSUME NEW i \in 1 .. Len(s) PROVE s[i] \in Elements(t)
      BY DEF Elements
    <3>1. i \in 1 .. Len(t) /\ t[i] = s[i]
      BY <1>1
    <3> QED BY <3>1 DEF Elements
  <2>3. x \in Elements(t)
    <3>1. Len(s) + 1 \in 1 .. Len(t)
      BY <1>1
    <3> QED BY <1>1, <3>1 DEF Elements
  <2> QED BY <2>1, <2>2, <2>3
<1>3. ASSUME Distinct(s), x \notin Elements(s) PROVE Distinct(t)
  <2> SUFFICES ASSUME NEW i \in 1 .. Len(s) + 1, NEW j \in 1 .. Len(s) + 1, t[i] = t[j] PROVE i = j
    BY <1>1 DEF Distinct
  <2>1. \A k \in 1 .. Len(s) : t[k] # x
    BY <1>1, <1>3 DEF Elements
  <2>2. (i \in 1 .. Len(s) \/ i = Len(s) + 1) /\ (j \in 1 .. Len(s) \/ j = Len(s) + 1)
    BY <1>1
  <2>3. CASE i \in 1 .. Len(s) /\ j \in 1 .. Len(s)
    BY <1>1, <1>3, <2>3 DEF Distinct
  <2>4. CASE i = Len(s) + 1 \/ j = Len(s) + 1
    BY <1>1, <2>1, <2>2, <2>4
  <2> QED BY <2>2, <2>3, <2>4
<1> QED BY <1>1, <1>2, <1>3 DEF t

\* The members up to one, of a set, each once.
LEMMA UpToHolds ==
    ASSUME NEW hosts, NEW f, IsUpTo(f, hosts, Len(MemberList))
    PROVE  \A n \in 0 .. Len(MemberList) :
              /\ f[n] \in Seq(hosts) /\ Distinct(f[n])
              /\ Elements(f[n]) = {MemberList[i] : i \in 1 .. n} \cap hosts
<1> DEFINE L == Len(MemberList)
           upTo(n) == {MemberList[i] : i \in 1 .. n}
           Good(n) == /\ f[n] \in Seq(hosts) /\ Distinct(f[n])
                      /\ Elements(f[n]) = upTo(n) \cap hosts
           Bad == {n \in 0 .. L : ~Good(n)}
<1>1. L \in Nat /\ \A i, j \in 1 .. L : MemberList[i] = MemberList[j] => i = j
  BY MembersAssumption DEF IsInjective
<1>2. /\ f[0] = <<>>
      /\ \A n \in 1 .. L : f[n] = IF MemberList[n] \in hosts THEN Append(f[n - 1], MemberList[n])
                                  ELSE f[n - 1]
  <2> DEFINE Step(n) == IF n = 0 THEN <<>>
                        ELSE IF MemberList[n] \in hosts THEN Append(f[n - 1], MemberList[n])
                        ELSE f[n - 1]
  <2>1. f = [n \in 0 .. L |-> Step(n)]
    BY DEF IsUpTo
  <2>2. \A n \in 0 .. L : f[n] = Step(n)
    <3> HIDE DEF Step
    <3> QED BY <2>1
  <2>3. 0 \in 0 .. L /\ \A n \in 1 .. L : n \in 0 .. L /\ n # 0
    BY <1>1
  <2> QED BY <2>2, <2>3
<1> HIDE DEF L
<1>3. Bad = {}
  <2> SUFFICES ASSUME Bad # {} PROVE FALSE
    OBVIOUS
  <2>1. Bad \in SUBSET Nat
    BY <1>1
  <2>2. PICK k \in Bad : \A y \in Bad : k <= y
    <3> HIDE DEF Bad
    <3> QED BY <2>1, LeastExists
  <2>3. k \in 0 .. L /\ ~Good(k)
    BY <2>2
  <2>4. k # 0
    <3>1. Elements(<<>>) = {} /\ Distinct(<<>>) /\ <<>> \in Seq(hosts)
      BY DEF Elements, Distinct
    <3>2. upTo(0) = {}
      OBVIOUS
    <3>3. Good(0)
      BY <1>2, <3>1, <3>2
    <3> HIDE DEF Good
    <3> QED BY <2>3, <3>3
  <2>5. k \in 1 .. L /\ k - 1 \in 0 .. L
    BY <1>1, <2>3, <2>4
  <2>6. Good(k - 1)
    <3>1. k - 1 \notin Bad
      <4> HIDE DEF Bad
      <4> QED BY <2>1, <2>2, <2>5
    <3> HIDE DEF Good
    <3> QED BY <2>5, <3>1
  <2>7. upTo(k) = upTo(k - 1) \cup {MemberList[k]}
    <3>1. 1 .. k = (1 .. (k - 1)) \cup {k}
      BY <2>5, <1>1
    <3> QED BY <3>1
  <2>8. MemberList[k] \notin upTo(k - 1)
    <3> SUFFICES ASSUME NEW i \in 1 .. (k - 1), MemberList[i] = MemberList[k] PROVE FALSE
      OBVIOUS
    <3>1. i \in 1 .. L /\ i # k
      BY <1>1, <2>5
    <3> QED BY <1>1, <2>5, <3>1
  <2> HIDE DEF upTo
  <2>9. CASE MemberList[k] \in hosts
    <3>1. f[k] = Append(f[k - 1], MemberList[k])
      BY <1>2, <2>5, <2>9
    <3>2. MemberList[k] \notin Elements(f[k - 1])
      BY <2>6, <2>8
    <3>3. /\ f[k] \in Seq(hosts) /\ Distinct(f[k])
          /\ Elements(f[k]) = Elements(f[k - 1]) \cup {MemberList[k]}
      BY <2>6, <2>9, <3>1, <3>2, AppendHas
    <3>4. Elements(f[k]) = upTo(k) \cap hosts
      BY <2>6, <2>7, <2>9, <3>3
    <3>5. Good(k)
      BY <3>3, <3>4
    <3> QED BY <2>3, <3>5
  <2>10. CASE MemberList[k] \notin hosts
    <3>1. f[k] = f[k - 1]
      BY <1>2, <2>5, <2>10
    <3>2. upTo(k) \cap hosts = upTo(k - 1) \cap hosts
      BY <2>7, <2>10
    <3>3. Good(k)
      BY <2>6, <3>1, <3>2
    <3> QED BY <2>3, <3>3
  <2> QED BY <2>9, <2>10
<1>4. \A n \in 0 .. L : Good(n)
  BY <1>3
<1> QED BY <1>4 DEF L

LEMMA InOrderHas ==
    ASSUME NEW hosts \in SUBSET Bearing
    PROVE  InOrder(hosts) \in Seq(hosts) /\ Distinct(InOrder(hosts)) /\ Elements(InOrder(hosts)) = hosts
<1>1. Len(MemberList) \in Nat
  BY MembersAssumption
<1>2. PICK f : IsUpTo(f, hosts, Len(MemberList)) /\ InOrder(hosts) = f[Len(MemberList)]
  BY InOrderIs
<1>3. Len(MemberList) \in 0 .. Len(MemberList)
  BY <1>1
<1>4. {MemberList[i] : i \in 1 .. Len(MemberList)} \cap hosts = hosts
  <2>1. DOMAIN MemberList = 1 .. Len(MemberList)
    BY MembersAssumption
  <2>2. ToSet(MemberList) = {MemberList[i] : i \in 1 .. Len(MemberList)}
    BY <2>1 DEF ToSet
  <2>3. hosts \subseteq ToSet(MemberList)
    BY DEF Bearing
  <2> QED BY <2>2, <2>3
<1>5. /\ f[Len(MemberList)] \in Seq(hosts) /\ Distinct(f[Len(MemberList)])
      /\ Elements(f[Len(MemberList)]) = {MemberList[i] : i \in 1 .. Len(MemberList)} \cap hosts
  BY <1>2, <1>3, UpToHolds
<1> QED BY <1>2, <1>4, <1>5

\* The hosts still to visit hold whoever can be resized and has not been, the
\* primary at their end.
Orderly(left, prim, able, done) ==
    /\ left \in Seq(Bearing)
    /\ able \subseteq done \cup Elements(left)
    /\ \A i \in 1 .. Len(left) : left[i] \in prim => i = Len(left)

LEMMA FanOutStart ==
    ASSUME NEW prim \in SUBSET Bearing, \A g, h \in prim : g = h, NEW able \in SUBSET Bearing,
           NEW done
    PROVE  Orderly(OplogMemberHosts(prim), prim, able, done)
<1> DEFINE s == InOrder(Bearing \ prim)
           t == InOrder(Bearing \cap prim)
<1>1. /\ s \in Seq(Bearing \ prim) /\ Elements(s) = Bearing \ prim
      /\ t \in Seq(Bearing \cap prim) /\ Elements(t) = Bearing \cap prim /\ Distinct(t)
  BY InOrderHas
<1>2. OplogMemberHosts(prim) = s \o t
  BY DEF OplogMemberHosts
<1> HIDE DEF s, t
<1>3. Len(s) \in Nat /\ Len(t) \in Nat /\ s \in Seq(Bearing) /\ t \in Seq(Bearing)
  BY <1>1
<1>4. /\ s \o t \in Seq(Bearing) /\ Len(s \o t) = Len(s) + Len(t)
      /\ \A i \in 1 .. Len(s) + Len(t) : (s \o t)[i] = IF i <= Len(s) THEN s[i] ELSE t[i - Len(s)]
  BY <1>3
<1>5. Len(t) <= 1
  <2> SUFFICES ASSUME Len(t) > 1 PROVE FALSE
    BY <1>3
  <2>1. 1 \in 1 .. Len(t) /\ 2 \in 1 .. Len(t)
    BY <1>3
  <2>2. t[1] \in prim /\ t[2] \in prim
    BY <1>1, <2>1
  <2>3. t[1] = t[2]
    BY <2>2
  <2> QED BY <1>1, <2>1, <2>3 DEF Distinct
<1>6. Elements(s \o t) = Bearing
  <2>1. ASSUME NEW h \in Bearing PROVE h \in Elements(s \o t)
    <3>1. CASE h \in Elements(s)
      <4>1. PICK i \in 1 .. Len(s) : h = s[i]
        BY <3>1 DEF Elements
      <4>2. i \in 1 .. Len(s) + Len(t) /\ (s \o t)[i] = h
        BY <1>3, <1>4, <4>1
      <4> QED BY <1>4, <4>2 DEF Elements
    <3>2. CASE h \in Elements(t)
      <4>1. PICK i \in 1 .. Len(t) : h = t[i]
        BY <3>2 DEF Elements
      <4>2. i + Len(s) \in 1 .. Len(s) + Len(t) /\ (s \o t)[i + Len(s)] = h
        BY <1>3, <1>4, <4>1
      <4> QED BY <1>4, <4>2 DEF Elements
    <3> QED BY <1>1, <3>1, <3>2
  <2>2. \A h \in Elements(s \o t) : h \in Bearing
    BY <1>4 DEF Elements
  <2> QED BY <2>1, <2>2
<1>7. ASSUME NEW i \in 1 .. Len(s) + Len(t), (s \o t)[i] \in prim PROVE i = Len(s) + Len(t)
  <2>1. ~(i <= Len(s))
    <3> SUFFICES ASSUME i <= Len(s) PROVE FALSE
      OBVIOUS
    <3>1. i \in 1 .. Len(s) /\ (s \o t)[i] = s[i]
      BY <1>3, <1>4
    <3>2. s[i] \in Bearing \ prim
      BY <1>1, <3>1
    <3> QED BY <1>7, <3>1, <3>2
  <2> QED BY <1>3, <1>5, <2>1
<1> QED BY <1>2, <1>4, <1>6, <1>7 DEF Orderly

\* A host is left behind, resized or not to be resized.
LEMMA FanOutGoesOn ==
    ASSUME NEW left \in Seq(Bearing), NEW prim, NEW able, NEW done,
           Orderly(left, prim, able, done), left # <<>>
    PROVE  /\ Orderly(Tail(left), prim, able, done \cup {Head(left)})
           /\ Head(left) \notin able => Orderly(Tail(left), prim, able, done)
           /\ Head(left) \in prim => able \subseteq done \cup {Head(left)}
<1> DEFINE rest == Tail(left)
           n == Len(left)
           m == Len(rest)
<1>1. /\ n \in Nat /\ n > 0 /\ Head(left) = left[1]
      /\ rest \in Seq(Bearing) /\ m = n - 1
      /\ \A i \in 1 .. n - 1 : rest[i] = left[i + 1]
  OBVIOUS
<1>2. \A i \in 1 .. n : left[i] \in prim => i = n
  BY DEF Orderly
<1>3. /\ \A h \in Elements(left) : \E i \in 1 .. n : h = left[i]
      /\ \A i \in 1 .. m : rest[i] \in Elements(rest)
      /\ m = 0 => Elements(rest) = {}
  BY <1>1 DEF Elements
<1> HIDE DEF rest, n, m
<1>4. \A h \in Elements(left) : h = Head(left) \/ h \in Elements(rest)
  <2> SUFFICES ASSUME NEW i \in 1 .. n, i # 1 PROVE left[i] \in Elements(rest)
    BY <1>1, <1>3
  <2>1. i - 1 \in 1 .. m /\ rest[i - 1] = left[i]
    BY <1>1
  <2> QED BY <1>3, <2>1
<1>5. ASSUME NEW i \in 1 .. m, rest[i] \in prim PROVE i = m
  <2>1. i + 1 \in 1 .. n /\ left[i + 1] \in prim
    BY <1>1, <1>5
  <2>2. i + 1 = n
    BY <1>2, <2>1
  <2> QED BY <1>1, <2>2
<1>6. ASSUME Head(left) \in prim PROVE Elements(rest) = {}
  <2>1. 1 \in 1 .. n /\ left[1] \in prim
    BY <1>1, <1>6
  <2>2. 1 = n
    BY <1>2, <2>1
  <2> QED BY <1>1, <1>3, <2>2
<1>7. able \subseteq done \cup Elements(left)
  BY DEF Orderly
<1>8. \A x : Orderly(rest, prim, able, x) <=> able \subseteq x \cup Elements(rest)
  BY <1>1, <1>5 DEF Orderly, m
<1> QED BY <1>4, <1>6, <1>7, <1>8 DEF rest

---------------------------------------------------------------------------
(* The rest of the types *)

RestTyped ==
    /\ node \in [Bearing -> NodeStates]
    /\ pc \in {"idle", "members", "status", "resize", "read"}
    /\ primary \subseteq Bearing /\ todo \in Seq(Bearing) /\ resized \subseteq Bearing
    /\ attempted \in BOOLEAN
    /\ result \in {"none", "ok", "failed", "refreshed"} /\ landed \subseteq Bearing
    /\ faults \in 0 .. MaxFaults

LEMMA HostsTyped == ASSUME NEW prim PROVE OplogMemberHosts(prim) \in Seq(Bearing)
<1>1. InOrder(Bearing \ prim) \in Seq(Bearing \ prim) /\ InOrder(Bearing \cap prim) \in Seq(Bearing \cap prim)
  BY InOrderHas
<1>2. InOrder(Bearing \ prim) \in Seq(Bearing) /\ InOrder(Bearing \cap prim) \in Seq(Bearing)
  BY <1>1
<1> QED BY <1>2 DEF OplogMemberHosts

LEMMA FaultsTyped == ASSUME faults \in 0 .. MaxFaults, Charge \/ UNCHANGED faults
                     PROVE  faults' \in 0 .. MaxFaults
BY FaultsAssumption DEF Charge

LEMMA RestStep == RestTyped /\ [Next]_vars => RestTyped'
<1> SUFFICES ASSUME RestTyped, [Next]_vars PROVE RestTyped'
  OBVIOUS
<1> USE DEF RestTyped
<1>1. CASE BeginApply \/ Refresh
  <2>1. <<>> \in Seq(Bearing)
    OBVIOUS
  <2>2. /\ UNCHANGED <<node, faults>> /\ attempted' = FALSE /\ resized' = {} /\ landed' = {}
        /\ (primary' = {} \/ UNCHANGED primary) /\ (todo' = <<>> \/ UNCHANGED todo)
        /\ pc' \in {"members", "read"} /\ result' \in {"none", "refreshed"}
    BY <1>1 DEF BeginApply, Refresh, server
  <2> QED BY <2>1, <2>2
<1>2. CASE MembersDone \/ SkipResize
  BY <1>2 DEF MembersDone, SkipResize, server, fanout
<1>3. CASE MembersFail \/ ResizeMemberFails \/ ResizeMemberTimesOut \/ FanOutEnds
  <2>1. UNCHANGED <<node, primary, todo, resized, attempted, landed>>
    BY <1>3 DEF MembersFail, ResizeMemberFails, ResizeMemberTimesOut, FanOutEnds, server, fanout
  <2>2. pc' \in {"idle", "read"} /\ result' \in {"failed", result}
    BY <1>3 DEF MembersFail, ResizeMemberFails, ResizeMemberTimesOut, FanOutEnds, ApplyFails
  <2>3. Charge \/ UNCHANGED faults
    BY <1>3 DEF MembersFail, ResizeMemberFails, ResizeMemberTimesOut, FanOutEnds
  <2> QED BY <2>1, <2>2, <2>3, FaultsTyped
<1>4. CASE ReadStatus
  <2>1. todo' = OplogMemberHosts(primary') /\ UNCHANGED <<node, resized, landed, result>>
        /\ pc' = "resize" /\ attempted' = TRUE
    BY <1>4 DEF ReadStatus, server
  <2>2. todo' \in Seq(Bearing)
    BY <2>1, HostsTyped
  <2>3. primary' \subseteq Bearing /\ (Charge \/ UNCHANGED faults)
    BY <1>4 DEF ReadStatus
  <2> QED BY <2>1, <2>2, <2>3, FaultsTyped
<1>5. CASE SkipMember \/ ResizeMember
  <2>1. todo # <<>> /\ todo' = Tail(todo) /\ resized' \in {resized, resized \cup {Head(todo)}}
        /\ UNCHANGED <<node, pc, primary, attempted, result, landed, faults>>
    BY <1>5 DEF SkipMember, ResizeMember, server
  <2>2. Head(todo) \in Bearing /\ Tail(todo) \in Seq(Bearing)
    BY <2>1
  <2> QED BY <2>1, <2>2
<1>6. CASE ReadBack
  <2>1. UNCHANGED <<node, primary, todo, resized, attempted, landed>>
        /\ pc' \in {pc, "idle"} /\ result' \in {result, "refreshed", "ok"}
    BY <1>6 DEF ReadBack, ReadMember, ReadMemberFails, ReadsCut, FinishRead, server, fanout
  <2>2. Charge \/ UNCHANGED faults
    BY <1>6 DEF ReadBack, ReadMember, ReadMemberFails, ReadsCut, FinishRead
  <2> QED BY <2>1, <2>2, FaultsTyped
<1>7. CASE Members
  <2>1. PICK h \in Bearing : Land(h) \/ NodeRises(h) \/ NodeFalls(h)
    BY <1>7 DEF Members
  <2>2. UNCHANGED <<pc, primary, todo, resized, attempted, result>>
    BY <2>1 DEF Land, NodeRises, NodeFalls, MembersOnly, fanout
  <2>3. landed' \subseteq Bearing /\ (Charge \/ UNCHANGED faults)
    BY <2>1 DEF Land, NodeRises, NodeFalls
  <2>4. node' \in [Bearing -> NodeStates]
    BY <2>1 DEF Land, NodeRises, NodeFalls, NodeStates
  <2> QED BY <2>2, <2>3, <2>4, FaultsTyped
<1>8. CASE UNCHANGED vars
  BY <1>8 DEF vars, server, fanout
<1> QED BY <1>1, <1>2, <1>3, <1>4, <1>5, <1>6, <1>7, <1>8 DEF Next, Provider, FanOut

LEMMA RestInit == Init => RestTyped
<1> SUFFICES ASSUME Init PROVE RestTyped
  OBVIOUS
<1>1. node \in [Bearing -> {"syncing", "secondary", "primary"}]
  BY DEF Init
<1>2. node \in [Bearing -> NodeStates]
  BY <1>1 DEF NodeStates
<1>3. /\ pc = "idle" /\ primary = {} /\ todo = <<>> /\ resized = {} /\ attempted = FALSE
      /\ result = "none" /\ landed = {} /\ faults = 0
  BY DEF Init
<1>4. <<>> \in Seq(Bearing)
  OBVIOUS
<1>5. todo \in Seq(Bearing)
  BY <1>3, <1>4
<1>6. attempted \in BOOLEAN
  BY <1>3
<1>7. faults \in 0 .. MaxFaults
  BY <1>3, FaultsAssumption
<1> QED BY <1>2, <1>3, <1>5, <1>6, <1>7 DEF RestTyped

LEMMA TypedAlways == Spec => [](TypedInv /\ PlanInv /\ RestTyped)
BY OplogInit, TypedStep, PlanStep, RestInit, RestStep, PTL DEF Spec

\* A fan-out sends sizes to members that carry an oplog, and no fan-out
\* begins without one.
THEOREM OplogTyped == Spec => []TypeOK
<1>1. TypedInv /\ PlanInv /\ RestTyped => TypeOK
  <2> SUFFICES ASSUME TypedInv, PlanInv, RestTyped PROVE TypeOK
    OBVIOUS
  <2>1. config \in Sizes \cup {Unset} /\ (pc = "resize" => data.size \in Sizes)
    BY SizesAssumption DEF TypedInv, LocalsTyped, PlanInv
  <2> QED BY <2>1 DEF TypeOK, TypedInv, ServerTyped, LocalsTyped, DataTyped, ReadingsTyped, RestTyped
<1> QED BY <1>1, TypedAlways, PTL

---------------------------------------------------------------------------
(* The inductive invariant of the fan-out *)

OnePrimary == \A g, h \in Bearing : node[g] = "primary" /\ node[h] = "primary" => g = h

\* Every host of a set has a size, unless a late resize has landed on it.
Sized(hosts, size, logs, since) == \A h \in hosts \ since : logs[h] = size

\* What the fan-out has done, and after it the read-back and the success.
FanOutInv ==
    /\ pc \in {"members", "status"} => resized = {} /\ ~attempted
    /\ pc = "resize" =>
          /\ Orderly(todo, primary, resizable, resized)
          /\ Sized(resized, data.size, oplog, landed)
    /\ pc = "read" \/ (pc = "idle" /\ result = "ok") =>
          (attempted => resized # {} /\ Sized(resizable, config, oplog, landed))

LEMMA OnePrimaryStep == OnePrimary /\ RestTyped /\ [Next]_vars => OnePrimary'
<1> SUFFICES ASSUME OnePrimary, RestTyped, [Next]_vars PROVE OnePrimary'
  OBVIOUS
<1>1. CASE Members
  <2>1. PICK h \in Bearing : Land(h) \/ NodeRises(h) \/ NodeFalls(h)
    BY <1>1 DEF Members
  <2>2. CASE Land(h)
    BY <2>2 DEF Land, OnePrimary
  <2>3. CASE NodeRises(h)
    <3>1. PICK v \in NodeStates : /\ node' = [node EXCEPT ![h] = v]
                                  /\ v = "primary" => \A g \in Bearing : node[g] # "primary"
      BY <2>3 DEF NodeRises, NodeStates
    <3>2. \A g \in Bearing : node'[g] = IF g = h THEN v ELSE node[g]
      BY <3>1 DEF RestTyped
    <3> QED BY <3>1, <3>2 DEF OnePrimary
  <2>4. CASE NodeFalls(h)
    <3>1. PICK v \in {"secondary", "down"} : node' = [node EXCEPT ![h] = v]
      BY <2>4 DEF NodeFalls
    <3>2. \A g \in Bearing : node'[g] = IF g = h THEN v ELSE node[g]
      BY <3>1 DEF RestTyped
    <3> QED BY <3>2 DEF OnePrimary
  <2> QED BY <2>1, <2>2, <2>3, <2>4
<1>2. CASE ~Members
  <2>1. UNCHANGED node
    BY <1>2 DEF Next, Provider, FanOut, ReadBack, BeginApply, Refresh, MembersDone, MembersFail,
       SkipResize, ReadStatus, SkipMember, ResizeMember, ResizeMemberFails, ResizeMemberTimesOut,
       FanOutEnds, ReadMember, ReadMemberFails, ReadsCut, FinishRead, server, vars
  <2> QED BY <2>1 DEF OnePrimary
<1> QED BY <1>1, <1>2

\* Sizes are lost to late resizes only, and these are taken note of.
LEMMA SizedStays ==
    ASSUME NEW hosts \in SUBSET Bearing, NEW size, Sized(hosts, size, oplog, landed),
           landed \subseteq landed', \A h \in Bearing \ landed' : oplog'[h] = oplog[h]
    PROVE  Sized(hosts, size, oplog', landed')
BY DEF Sized

LEMMA FanOutStep ==
    TypedInv /\ PlanInv /\ RestTyped /\ OnePrimary /\ FanOutInv /\ [Next]_vars => FanOutInv'
<1> SUFFICES ASSUME TypedInv, PlanInv, RestTyped, OnePrimary, FanOutInv, [Next]_vars
             PROVE  FanOutInv'
  OBVIOUS
<1>1. CASE BeginApply
  BY <1>1 DEF BeginApply, FanOutInv
<1>2. CASE MembersDone
  BY <1>2 DEF MembersDone, fanout, FanOutInv
<1>3. CASE MembersFail \/ ResizeMemberFails \/ ResizeMemberTimesOut
  BY <1>3 DEF MembersFail, ResizeMemberFails, ResizeMemberTimesOut, ApplyFails, FanOutInv
<1>4. CASE SkipResize
  BY <1>4 DEF SkipResize, fanout, FanOutInv
<1>5. CASE ReadStatus
  <2>1. /\ pc = "status" /\ pc' = "resize" /\ attempted' = TRUE /\ resized' = resized /\ resized = {}
        /\ todo' = OplogMemberHosts(primary')
    BY <1>5 DEF ReadStatus, FanOutInv
  <2>2. primary' \in SUBSET Bearing /\ resizable' \in SUBSET Bearing
        /\ \A g, h \in primary' : g = h
    BY <1>5 DEF ReadStatus, OnePrimary
  <2>3. Orderly(todo', primary', resizable', resized')
    BY <2>1, <2>2, FanOutStart
  <2>4. Sized(resized', data'.size, oplog', landed')
    BY <2>1 DEF Sized
  <2> QED BY <2>1, <2>3, <2>4 DEF FanOutInv
<1>6. CASE SkipMember
  <2>1. /\ pc = "resize" /\ pc' = "resize" /\ todo # <<>> /\ Head(todo) \notin resizable
        /\ todo' = Tail(todo) /\ UNCHANGED <<primary, resizable, resized, data, oplog, landed>>
    BY <1>6 DEF SkipMember, server
  <2>2. Orderly(todo', primary', resizable', resized')
    <3>1. todo \in Seq(Bearing) /\ Orderly(todo, primary, resizable, resized)
      BY <2>1 DEF RestTyped, FanOutInv
    <3> QED BY <2>1, <3>1, FanOutGoesOn
  <2> QED BY <2>1, <2>2 DEF FanOutInv
<1>7. CASE ResizeMember
  <2>1. /\ pc = "resize" /\ pc' = "resize" /\ todo # <<>>
        /\ todo' = Tail(todo) /\ resized' = resized \cup {Head(todo)}
        /\ oplog' = [oplog EXCEPT ![Head(todo)] = data.size]
        /\ UNCHANGED <<primary, resizable, data, landed>>
    BY <1>7 DEF ResizeMember
  <2>2. todo \in Seq(Bearing) /\ Head(todo) \in Bearing
    BY <2>1 DEF RestTyped
  <2>3. Orderly(todo', primary', resizable', resized')
    <3>1. Orderly(todo, primary, resizable, resized)
      BY <2>1 DEF FanOutInv
    <3> QED BY <2>1, <2>2, <3>1, FanOutGoesOn
  <2>4. Sized(resized', data'.size, oplog', landed')
    <3>1. Sized(resized, data.size, oplog, landed)
      BY <2>1 DEF FanOutInv
    <3>2. \A h \in Bearing : oplog'[h] = IF h = Head(todo) THEN data.size ELSE oplog[h]
      BY <2>1, <2>2 DEF TypedInv, ServerTyped
    <3>3. resized' \subseteq Bearing
      BY <2>1, <2>2 DEF RestTyped
    <3> QED BY <2>1, <3>1, <3>2, <3>3 DEF Sized
  <2> QED BY <2>1, <2>3, <2>4 DEF FanOutInv
<1>8. CASE FanOutEnds
  <2>1. pc = "resize" /\ todo = <<>> /\ UNCHANGED <<resizable, resized, attempted, oplog, landed, config>>
    BY <1>8 DEF FanOutEnds, server, fanout
  <2>2. CASE resized = {}
    BY <1>8, <2>2 DEF FanOutEnds, ApplyFails, FanOutInv
  <2>3. CASE resized # {}
    <3>1. pc' = "read"
      BY <1>8, <2>3 DEF FanOutEnds
    <3>2. Elements(todo) = {}
      BY <2>1 DEF Elements
    <3>3. resizable \subseteq resized
      BY <2>1, <3>2 DEF FanOutInv, Orderly
    <3>4. Sized(resized, config, oplog, landed)
      BY <2>1 DEF FanOutInv, PlanInv
    <3>5. Sized(resizable, config, oplog, landed)
      BY <3>3, <3>4 DEF Sized
    <3> QED BY <2>1, <2>3, <3>1, <3>5 DEF FanOutInv
  <2> QED BY <2>2, <2>3
<1>9. CASE Refresh
  BY <1>9 DEF Refresh, FanOutInv
<1>10. CASE ReadBack
  <2>1. pc = "read" /\ pc' \in {"read", "idle"} /\ UNCHANGED <<fanout, oplog, landed, config>>
    BY <1>10 DEF ReadBack, ReadMember, ReadMemberFails, ReadsCut, FinishRead, server
  <2> QED BY <2>1 DEF FanOutInv, fanout
<1>11. CASE Members
  <2>1. UNCHANGED <<data, pc, config, fanout, result>>
    BY <1>11 DEF Members, Land, NodeRises, NodeFalls, MembersOnly
  <2>2. landed \subseteq landed' /\ \A h \in Bearing \ landed' : oplog'[h] = oplog[h]
    BY <1>11 DEF Members, Land, NodeRises, NodeFalls, TypedInv, ServerTyped
  <2>3. resized \in SUBSET Bearing /\ resizable \in SUBSET Bearing
    BY DEF RestTyped, TypedInv, LocalsTyped
  <2>4. \A x : /\ Sized(resized, x, oplog, landed) => Sized(resized, x, oplog', landed')
               /\ Sized(resizable, x, oplog, landed) => Sized(resizable, x, oplog', landed')
    BY <2>2, <2>3, SizedStays
  <2> QED BY <2>1, <2>4 DEF FanOutInv, fanout
<1>12. CASE UNCHANGED vars
  BY <1>12 DEF vars, server, fanout, FanOutInv
<1> QED BY <1>1, <1>2, <1>3, <1>4, <1>5, <1>6, <1>7, <1>8, <1>9, <1>10, <1>11, <1>12
        DEF Next, Provider, FanOut

\* A fan-out that ends well has reached everybody who was to be resized, and
\* at no moment has the primary been resized before one of them: this takes
\* that there was one primary when replSetGetStatus was asked, and that the
\* hosts still to visit end with it.  (OPLOG-009 to OPLOG-012, OPLOG-019)
THEOREM FanOutReachesAll == Spec => FanOutIsOrderly
<1>1. Init => OnePrimary /\ FanOutInv
  <2> SUFFICES ASSUME Init PROVE OnePrimary /\ FanOutInv
    OBVIOUS
  <2>1. Cardinality({h \in Bearing : node[h] = "primary"}) = 1
    BY DEF Init
  <2>2. IsFiniteSet({h \in Bearing : node[h] = "primary"})
    BY MembersAssumption, FS_Subset
  <2>3. PICK x : {h \in Bearing : node[h] = "primary"} = {x}
    BY <2>1, <2>2, FS_Singleton
  <2>4. OnePrimary
    BY <2>3 DEF OnePrimary
  <2>5. FanOutInv
    BY DEF Init, FanOutInv
  <2> QED BY <2>4, <2>5
<1>2. Spec => [](TypedInv /\ PlanInv /\ RestTyped /\ OnePrimary /\ FanOutInv)
  BY <1>1, TypedAlways, OnePrimaryStep, FanOutStep, PTL DEF Spec
<1>3. RestTyped /\ FanOutInv /\ [Next]_vars =>
         \A h \in resized' \ resized : h \in primary => resizable \subseteq resized'
  <2> SUFFICES ASSUME RestTyped, FanOutInv, [Next]_vars, NEW h \in resized' \ resized, h \in primary
               PROVE  resizable \subseteq resized'
    OBVIOUS
  <2>1. CASE ResizeMember
    <3>1. /\ pc = "resize" /\ todo # <<>> /\ todo \in Seq(Bearing)
          /\ resized' = resized \cup {Head(todo)} /\ h = Head(todo)
      BY <2>1 DEF ResizeMember, RestTyped
    <3>2. Orderly(todo, primary, resizable, resized)
      BY <3>1 DEF FanOutInv
    <3> QED BY <3>1, <3>2, FanOutGoesOn
  <2>2. CASE ~ResizeMember
    <3>1. resized' \subseteq resized
      BY <2>2 DEF Next, Provider, FanOut, ReadBack, Members, BeginApply, Refresh, MembersDone,
         MembersFail, SkipResize, ReadStatus, SkipMember, ResizeMemberFails, ResizeMemberTimesOut,
         FanOutEnds, ReadMember, ReadMemberFails, ReadsCut, FinishRead, Land, NodeRises, NodeFalls,
         MembersOnly, fanout, vars
    <3> QED BY <3>1
  <2> QED BY <2>1, <2>2
<1>4. FanOutInv => SuccessMeansResized
  BY DEF FanOutInv, SuccessMeansResized, Sized
<1> QED BY <1>2, <1>3, <1>4, PTL DEF Spec, FanOutIsOrderly, PrimaryLast
=============================================================================
