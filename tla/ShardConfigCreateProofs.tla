---------------------- MODULE ShardConfigCreateProofs ----------------------
(***************************************************************************)
(* Theorems about ShardConfigCreate, for every set of nodes, behind a      *)
(* mongos or not, and any number of faults.                                *)
(***************************************************************************)
EXTENDS ShardConfigCreate, TLAPS

---------------------------------------------------------------------------
(* The inductive invariant *)

\* The places of a create before it has sent a replSetInitiate that was
\* accepted, and those it reaches only as a user or without access control.
Before == {"connect", "probe", "getConfig", "initConnect", "initiate", "already"}
Beyond == {"getConfig", "initConnect", "initiate", "already", "awaitPrimary", "update"}

\* Access control is never switched off, and users are not dropped.
Granted ==
    /\ strict => enforces
    /\ strict /\ (initiated \/ pc \in Beyond) => ProviderHost \in users

InOrder ==
    /\ pc \in Before => ~initiated
    /\ UpdateFindsPrimary

Inv == TypeOK /\ Granted /\ InOrder

LEMMA InvImplies == Inv => InitiatesInOrder
BY DEF Inv, Granted, InOrder, InitiatesInOrder, WaitsForUser

---------------------------------------------------------------------------
(* The operators *)

LEMMA ResolvedIsHost == ASSUME TypeOK PROVE Resolved \subseteq Hosts /\ Resolved \subseteq Nodes
BY HostsAssumption DEF TypeOK, Resolved, Nodes

LEMMA ChargeTyped ==
    ASSUME faults \in 0 .. MaxFaults, Charge \/ UNCHANGED faults
    PROVE  faults' \in 0 .. MaxFaults
BY FaultsAssumption DEF Charge

LEMMA InvInit == Init => Inv
<1> SUFFICES ASSUME Init PROVE Inv
  OBVIOUS
<1>1. TypeOK
  <2>1. inSet \subseteq Hosts /\ elected = inSet
    BY DEF Init
  <2>2. /\ up \subseteq Nodes /\ users \subseteq Nodes /\ enforces \in BOOLEAN
        /\ pc = "idle" /\ first = NoHost /\ client = "none" /\ target = NoHost
        /\ noAuth = FALSE /\ initiated = FALSE /\ result = "none" /\ strict = FALSE /\ faults = 0
    BY DEF Init
  <2>3. faults \in 0 .. MaxFaults
    BY <2>2, FaultsAssumption
  <2>4. noAuth \in BOOLEAN /\ initiated \in BOOLEAN /\ strict \in BOOLEAN
    BY <2>2
  <2> QED BY <2>1, <2>2, <2>3, <2>4 DEF TypeOK
<1>2. pc = "idle" /\ ~initiated /\ ~strict
  BY DEF Init
<1> QED BY <1>1, <1>2 DEF Inv, Granted, InOrder, UpdateFindsPrimary, Before, Beyond

---------------------------------------------------------------------------
(* The steps of a create *)

\* A step that ends the create; what it initiated stays initiated.
LEMMA EndingStep ==
    ASSUME Inv, UNCHANGED <<server, first, strict, initiated>>, NEW r \in {"ok", "failed", "notReady"},
           End(r), faults' \in 0 .. MaxFaults, pc # "idle"
    PROVE  Inv'
<1>1. UNCHANGED <<up, inSet, elected, users, enforces, first, strict, initiated, client, target, noAuth>>
      /\ pc' = "idle" /\ result' = r
  BY DEF End, server
<1>2. TypeOK'
  BY <1>1 DEF Inv, TypeOK
<1> QED BY <1>1, <1>2 DEF Inv, Granted, InOrder, UpdateFindsPrimary, Before, Beyond

LEMMA BeginStep == ASSUME Inv, BeginCreate PROVE Inv'
<1>1. /\ UNCHANGED <<up, inSet, elected, users, enforces>>
      /\ first' \in Hosts \cup {NoHost} /\ pc' = "connect" /\ client' = "none"
      /\ target' = NoHost /\ noAuth' = FALSE /\ initiated' = FALSE /\ result' = "none"
      /\ strict' = enforces
  BY HostsAssumption DEF BeginCreate, server
<1>2. faults' \in 0 .. MaxFaults
  BY ChargeTyped DEF BeginCreate, Inv, TypeOK
<1>3. TypeOK'
  BY <1>1, <1>2 DEF Inv, TypeOK
<1> QED BY <1>1, <1>3 DEF Inv, Granted, InOrder, UpdateFindsPrimary, Before, Beyond

\* Up to the first host, a create goes on for a user that can log in, or
\* because there is no access control.
LEMMA ConnectStep ==
    ASSUME Inv, LogIn \/ LoginRefused \/ Probe \/ ProbeUnanswered \/ GetConfig
    PROVE  Inv'
<1>1. /\ UNCHANGED <<up, inSet, elected, users, enforces, first, strict, initiated, result, noAuth>>
      /\ pc \in Before
  BY DEF LogIn, LoginRefused, Probe, ProbeUnanswered, GetConfig, Goto, server, Before
<1>2. faults' \in 0 .. MaxFaults
  BY ChargeTyped DEF LogIn, LoginRefused, Probe, ProbeUnanswered, GetConfig, CallFails, Inv, TypeOK
<1>3. CASE LogIn
  <2>1. pc' = "getConfig" /\ client' = "auth" /\ target' \in Hosts /\ target' \in Nodes
        /\ ProviderHost \in users
    BY <1>3, ResolvedIsHost DEF LogIn, CanLogIn, Inv
  <2>2. TypeOK'
    BY <1>1, <1>2, <2>1 DEF Inv, TypeOK
  <2> QED BY <1>1, <2>1, <2>2 DEF Inv, Granted, InOrder, UpdateFindsPrimary, Before, Beyond
<1>4. CASE LoginRefused \/ ProbeUnanswered
  <2>1. pc' \in {"connect", "probe"} /\ UNCHANGED <<client, target>>
    BY <1>4 DEF LoginRefused, ProbeUnanswered, Goto
  <2>2. TypeOK'
    BY <1>1, <1>2, <2>1 DEF Inv, TypeOK
  <2> QED BY <1>1, <2>1, <2>2 DEF Inv, Granted, InOrder, UpdateFindsPrimary, Before, Beyond
<1>5. CASE Probe
  <2>1. pc' = (IF enforces THEN "connect" ELSE "initConnect") /\ UNCHANGED <<client, target>>
    BY <1>5 DEF Probe, Goto
  <2>2. TypeOK'
    BY <1>1, <1>2, <2>1 DEF Inv, TypeOK
  <2> QED BY <1>1, <2>1, <2>2 DEF Inv, Granted, InOrder, UpdateFindsPrimary, Before, Beyond
<1>6. CASE GetConfig
  <2>1. pc = "getConfig" /\ pc' \in {"update", "initConnect"} /\ UNCHANGED <<client, target>>
    BY <1>6 DEF GetConfig, Goto
  <2>2. TypeOK'
    BY <1>1, <1>2, <2>1 DEF Inv, TypeOK
  <2> QED BY <1>1, <2>1, <2>2 DEF Inv, Granted, InOrder, UpdateFindsPrimary, Before, Beyond
<1> QED BY <1>3, <1>4, <1>5, <1>6

LEMMA InitConnectStep == ASSUME Inv, InitConnect PROVE Inv'
<1>1. /\ UNCHANGED <<up, inSet, elected, users, enforces, first, strict, initiated, result, noAuth>>
      /\ pc = "initConnect" /\ pc' = "initiate" /\ target' = first /\ client' \in {"auth", "noauth"}
      /\ first \in up
  BY DEF InitConnect, server
<1>2. first \in Hosts /\ first \in Nodes
  BY <1>1, HostsAssumption DEF Inv, TypeOK, Nodes
<1>3. faults' \in 0 .. MaxFaults
  BY ChargeTyped DEF InitConnect, Inv, TypeOK
<1>4. TypeOK'
  BY <1>1, <1>2, <1>3 DEF Inv, TypeOK
<1> QED BY <1>1, <1>4 DEF Inv, Granted, InOrder, UpdateFindsPrimary, Before, Beyond

LEMMA InitiateStep == ASSUME Inv, Initiate PROVE Inv'
<1>1. /\ UNCHANGED <<up, elected, users, enforces, first, strict, client, target, noAuth>>
      /\ pc = "initiate" /\ inSet' = inSet \cup {target}
  BY DEF Initiate, Goto, End
<1>2. faults' \in 0 .. MaxFaults
  BY ChargeTyped DEF Initiate, Inv, TypeOK
<1>3. target \in Hosts
  BY <1>1 DEF Inv, TypeOK
<1>4. \/ pc' = "awaitPrimary" /\ initiated' = TRUE /\ UNCHANGED result
      \/ pc' = "idle" /\ result' = "failed" /\ UNCHANGED initiated
  BY DEF Initiate, Goto, End
<1>5. TypeOK'
  BY <1>1, <1>2, <1>3, <1>4 DEF Inv, TypeOK
<1> QED BY <1>1, <1>4, <1>5 DEF Inv, Granted, InOrder, UpdateFindsPrimary, Before, Beyond

\* After code 23 nothing was initiated, and after an election the primary is
\* there.
LEMMA UpdateStep ==
    ASSUME Inv, AlreadyInitialized \/ HandOver \/ PrimaryElected
    PROVE  Inv'
<1>1. /\ UNCHANGED <<up, inSet, elected, users, enforces, first, strict, initiated, result>>
      /\ faults' \in 0 .. MaxFaults
  BY FaultsAssumption DEF AlreadyInitialized, HandOver, PrimaryElected, Goto, server, Charge, Inv, TypeOK
<1>2. CASE AlreadyInitialized
  <2>1. pc = "initiate" /\ pc' = "already" /\ UNCHANGED <<client, target, noAuth>>
    BY <1>2 DEF AlreadyInitialized, Goto
  <2>2. TypeOK'
    BY <1>1, <2>1 DEF Inv, TypeOK
  <2> QED BY <1>1, <2>1, <2>2 DEF Inv, Granted, InOrder, UpdateFindsPrimary, Before, Beyond
<1>3. CASE HandOver
  <2>1. pc = "already" /\ pc' = "update" /\ noAuth' \in BOOLEAN
        /\ \/ client' = "auth" /\ target' \in Resolved
           \/ UNCHANGED <<client, target>>
    BY <1>3 DEF HandOver
  <2>2. TypeOK'
    BY <1>1, <2>1, ResolvedIsHost DEF Inv, TypeOK
  <2> QED BY <1>1, <2>1, <2>2 DEF Inv, Granted, InOrder, UpdateFindsPrimary, Before, Beyond
<1>4. CASE PrimaryElected
  <2>1. pc = "awaitPrimary" /\ pc' = "update" /\ noAuth' = TRUE /\ UNCHANGED <<client, target>>
        /\ target \in elected
    BY <1>4 DEF PrimaryElected
  <2>2. TypeOK'
    BY <1>1, <2>1 DEF Inv, TypeOK
  <2> QED BY <1>1, <2>1, <2>2 DEF Inv, Granted, InOrder, UpdateFindsPrimary, Before, Beyond
<1> QED BY <1>2, <1>3, <1>4

LEMMA EndingSteps ==
    ASSUME Inv,
           \/ LoginFails \/ NotReady \/ GetConfigFails \/ NoUsableBlocks \/ InitiateFails
           \/ NoPrimary \/ UpdateDone \/ UpdateFails
    PROVE  Inv'
<1>1. UNCHANGED <<server, first, strict, initiated>> /\ pc # "idle"
      /\ (End("ok") \/ End("failed") \/ End("notReady"))
  BY DEF LoginFails, NotReady, Waiting, GetConfigFails, NoUsableBlocks, InitiateFails, NoPrimary,
     UpdateDone, UpdateFails
<1>2. Charge \/ UNCHANGED faults
  BY DEF LoginFails, NotReady, GetConfigFails, NoUsableBlocks, InitiateFails, NoPrimary,
     UpdateDone, UpdateFails, CallFails
<1>3. faults' \in 0 .. MaxFaults
  BY <1>2, ChargeTyped DEF Inv, TypeOK
<1> QED BY <1>1, <1>3, EndingStep

---------------------------------------------------------------------------
(* The steps of the deployment: what is elected, and who may log in, stays *)

LEMMA DeploymentStep == ASSUME Inv, Deployment PROVE Inv'
<1>1. UNCHANGED <<pc, first, client, target, noAuth, initiated, result, strict, inSet>>
  BY DEF Deployment, NodeUp, NodeDown, Elect, CreateUser, EnableAccessControl, DeploymentOnly
<1>2. /\ elected \subseteq elected' /\ users \subseteq users' /\ (enforces => enforces')
      /\ up' \subseteq Nodes /\ elected' \subseteq inSet /\ users' \subseteq Nodes
      /\ enforces' \in BOOLEAN
  BY DEF Deployment, NodeUp, NodeDown, Elect, CreateUser, EnableAccessControl, Inv, TypeOK
<1>3. Charge \/ UNCHANGED faults
  BY DEF Deployment, NodeUp, NodeDown, Elect, CreateUser, EnableAccessControl
<1>4. faults' \in 0 .. MaxFaults
  BY <1>3, ChargeTyped DEF Inv, TypeOK
<1>5. TypeOK'
  BY <1>1, <1>2, <1>4 DEF Inv, TypeOK
<1> QED BY <1>1, <1>2, <1>5 DEF Inv, Granted, InOrder, UpdateFindsPrimary, Before, Beyond

LEMMA InvNext == Inv /\ [Next]_vars => Inv'
<1> SUFFICES ASSUME Inv, [Next]_vars PROVE Inv'
  OBVIOUS
<1>1. CASE UNCHANGED vars
  BY <1>1 DEF vars, server, Inv, TypeOK, Granted, InOrder, UpdateFindsPrimary
<1>2. CASE Next
  BY <1>1, <1>2, BeginStep, ConnectStep, InitConnectStep, InitiateStep, UpdateStep, EndingSteps,
     DeploymentStep DEF Next, Provider, Created
<1> QED BY <1>1, <1>2

---------------------------------------------------------------------------
\* The inductive invariant holds at every moment.
THEOREM Invariance == Spec => []Inv
BY InvInit, InvNext, PTL DEF Spec

\* Every variable keeps its type, whatever fails or is lost: above all a create
\* that has a connection has one to a node that can be a member, also behind a
\* mongos.
THEOREM TypeCorrect == Spec => []TypeOK
<1>1. Inv => TypeOK
  BY DEF Inv
<1> QED BY <1>1, Invariance, PTL

\* A set is initiated only for a user who can log in, or without access
\* control, and the update that follows finds its primary.
THEOREM OrderIsKept == Spec => []InitiatesInOrder
BY InvImplies, Invariance, PTL
=============================================================================
