--------------------------- MODULE AccountsProofs ---------------------------
(***************************************************************************)
(* Theorems about Accounts, for every set of names and passwords and any   *)
(* number of faults.                                                       *)
(***************************************************************************)
EXTENDS Accounts, TLAPS

---------------------------------------------------------------------------
(* The inductive invariant *)

SettingTyped ==
    /\ kind \in Kinds /\ previewing \in BOOLEAN /\ enforced \in BOOLEAN
    /\ cfg \in Config /\ Configurable(cfg)

AccountsTyped ==
    accounts \in [Names -> Existing \cup {Absent}]

ResourceTyped == res \in Resource \cup {NoResource} /\ plan \in Plan \cup {NoPlan}

PlaceTyped ==
    /\ pc \in {"idle", "refresh", "plan", "create", "update", "delete", "readCreated",
               "readUpdated"}
    /\ pc \in {"update", "delete", "readUpdated", "refresh"} => res # NoResource
    /\ pc \in {"create", "readCreated"} => res = NoResource /\ plan # NoPlan
    /\ pc = "update" => res.known = "tracked" /\ plan # NoPlan
    /\ pc = "readUpdated" => plan # NoPlan
    /\ faults \in 0 .. MaxFaults

\* TypeOK is not inductive: that no account gets an empty password rests on
\* where the planned password comes from.  What PreviewIsSent needs of the plan
\* is part of it: the command shown is the preview of this very plan.
PlanMeant ==
    /\ pc \in {"create", "delete"} /\ plan # NoPlan =>
           /\ kind # "original" => plan.secret # ""
           /\ previewing => plan.shown = Preview(NoResource, plan)
    /\ pc = "update" /\ kind # "original" =>
           /\ plan.secret # res.secret => plan.secret # ""
           /\ previewing => plan.shown = Preview(res, plan)

Inv == SettingTyped /\ AccountsTyped /\ ResourceTyped /\ PlaceTyped /\ PlanMeant

LEMMA InvImpliesTypeOK == Inv => TypeOK
BY DEF Inv, SettingTyped, AccountsTyped, ResourceTyped, PlaceTyped, TypeOK

LEMMA InvInit == Init => Inv
<1> SUFFICES ASSUME Init PROVE Inv
  OBVIOUS
<1>1. SettingTyped /\ ResourceTyped
  BY DEF Init, SettingTyped, ResourceTyped
<1>2. AccountsTyped
  BY DEF Init, AccountsTyped
<1>3. res = NoResource /\ plan = NoPlan /\ pc = "idle" /\ faults = 0
  BY DEF Init
<1>4. PlaceTyped /\ PlanMeant
  BY <1>3, FaultsAssumption DEF PlaceTyped, PlanMeant
<1> QED BY <1>1, <1>2, <1>4 DEF Inv

---------------------------------------------------------------------------
(* The operators *)

LEMMA Nothing ==
    /\ NoResource.known = "none" /\ NoResource.secret = "" /\ NoResource.shown \in Shown
    /\ NoResource \notin Resource /\ NoPlan \notin Plan
<1>1. NoResource.known = "none" /\ NoResource.secret = ""
  BY DEF NoResource
<1>2. NoResource.shown = NoCommand /\ NoPlan.name = ""
  BY DEF NoResource, NoPlan
<1>3. \A r \in Resource : r.known \in {"tracked", "tainted"}
  BY DEF Resource
<1>4. \A p \in Plan : p.name \in Names
  BY DEF Plan
<1> QED BY <1>1, <1>2, <1>3, <1>4, NamesAssumption DEF Shown

LEMMA PreviewTyped ==
    ASSUME NEW prior \in Resource \cup {NoResource},
           NEW p \in [name : Names, secret : Secrets \cup {""}, grants : Grants]
    PROVE  Preview(prior, p) \in Command
BY DEF Preview, Command, IncludesPassword

LEMMA PlanMade ==
    ASSUME NEW n \in Names, NEW s \in Secrets \cup {""}, NEW g \in Grants, NEW c \in Shown
    PROVE  [name |-> n, secret |-> s, grants |-> g, shown |-> c] \in Plan
BY DEF Plan

\* What a plan holds: attributes of the resource's type, a password that is
\* only empty if it was in state, and the preview of these attributes.
LEMMA PlanForTyped ==
    ASSUME SettingTyped, NEW prior \in Resource \cup {NoResource}
    PROVE  /\ PlanFor(prior) \in Plan
           /\ kind # "original" /\ PlanFor(prior).secret # prior.secret =>
                  PlanFor(prior).secret # ""
           /\ kind # "original" /\ prior = NoResource => PlanFor(prior).secret # ""
           /\ previewing /\ (kind = "original" => prior = NoResource) =>
                  PlanFor(prior).shown = Preview(prior, PlanFor(prior))
<1> DEFINE p == Planned(prior)
<1>1. p \in [name : Names, secret : Secrets \cup {""}, grants : Grants]
  BY Nothing DEF SettingTyped, Config, Planned, Resource
<1>2. Preview(prior, p) \in Command
  BY <1>1, PreviewTyped
<1>3. prior.shown \in Shown
  BY Nothing DEF Resource
<1>4. PlannedCommands(prior, p) \in Shown
  BY <1>2, <1>3 DEF PlannedCommands, Shown
<1>5. PlanFor(prior) = [name |-> p.name, secret |-> p.secret, grants |-> p.grants,
                        shown |-> PlannedCommands(prior, p)]
  BY DEF PlanFor
<1>6. PlanFor(prior) \in Plan
  <2>1. p.name \in Names /\ p.secret \in Secrets \cup {""} /\ p.grants \in Grants
    BY <1>1
  <2> HIDE DEF p
  <2> QED BY <2>1, <1>4, <1>5, PlanMade
<1>7. kind # "original" => p.secret # "" \/ (prior # NoResource /\ p.secret = prior.secret)
  BY DEF SettingTyped, Configurable, Planned
<1>8. Preview(prior, PlanFor(prior)) = Preview(prior, p)
  BY <1>5 DEF Preview, IncludesPassword
<1>9. /\ PlanFor(prior).secret = p.secret
      /\ PlanFor(prior).shown = PlannedCommands(prior, p)
  BY <1>5
<1> HIDE DEF p
<1> QED BY <1>6, <1>7, <1>8, <1>9, Nothing DEF PlannedCommands

LEMMA AccountParts ==
    ASSUME NEW a \in Existing \cup {Absent}
    PROVE  /\ a.grants \in Grants /\ a.secret \in Secrets \cup {""}
           /\ a # Absent => a.secret # ""
<1>1. Absent.grants \in Grants /\ Absent.secret = ""
  BY DEF Absent, Grants
<1>2. \A b \in Existing : b \in Account /\ b.secret # ""
  BY DEF Existing
<1>3. \A b \in Account : b.grants \in Grants /\ b.secret \in Secrets \cup {""}
  BY DEF Account
<1> QED BY <1>1, <1>2, <1>3

LEMMA AccountMade ==
    ASSUME NEW s \in Secrets, NEW g \in Grants
    PROVE  [secret |-> s, grants |-> g] \in Existing
BY SecretsAssumption DEF Existing, Account

LEMMA ChangedResource ==
    ASSUME NEW r \in Resource, NEW g \in Grants, NEW n \in Names
    PROVE  /\ [r EXCEPT !.grants = g, !.name = n] \in Resource
           /\ [r EXCEPT !.grants = g, !.name = n].known = r.known
BY DEF Resource

\* Read gives a resource its type.
LEMMA ReadIntoTyped ==
    ASSUME AccountsTyped, NEW r \in Resource
    PROVE  ReadInto(r) \in Resource /\ ReadInto(r).known = r.known
<1> DEFINE g == accounts[r.id].grants
           n == IF kind = "original" THEN r.name ELSE r.id
<1>1. r.id \in Names /\ r.name \in Names
  BY DEF Resource
<1>2. g \in Grants
  BY <1>1, AccountParts DEF AccountsTyped
<1>3. n \in Names
  BY <1>1
<1>4. ReadInto(r) = [r EXCEPT !.grants = g, !.name = n]
  BY DEF ReadInto
<1> HIDE DEF g, n
<1>5. /\ [r EXCEPT !.grants = g, !.name = n] \in Resource
      /\ [r EXCEPT !.grants = g, !.name = n].known = r.known
  BY <1>2, <1>3, ChangedResource
<1> QED BY ONLY <1>4, <1>5

LEMMA FromPlanTyped ==
    ASSUME plan \in Plan, NEW known \in {"tracked", "tainted"}, NEW id \in Names
    PROVE  FromPlan(known, id) \in Resource /\ FromPlan(known, id).known = known
BY DEF FromPlan, Plan, Resource

\* A command writes an account that has a password.
LEMMA SetTyped ==
    ASSUME AccountsTyped, NEW name \in Names,
           NEW a \in Existing \cup {Absent}, Set(name, a)
    PROVE  /\ AccountsTyped'
           /\ \A n \in Names : accounts'[n] = IF n = name THEN a ELSE accounts[n]
BY DEF AccountsTyped, Set

\* What a command writes is an account with a password.
LEMMA NewAccountTyped ==
    ASSUME Inv, pc = "create", kind = "original" => plan.secret # ""
    PROVE  plan.name \in Names /\ NewAccount \in Existing
<1>1. plan \in Plan /\ plan.secret # ""
  BY DEF Inv, ResourceTyped, PlaceTyped, PlanMeant
<1>2. plan.name \in Names /\ plan.secret \in Secrets /\ plan.grants \in Grants
  BY <1>1 DEF Plan
<1> QED BY <1>2, AccountMade DEF NewAccount, Grants

LEMMA UpdatedTyped ==
    ASSUME Inv, pc = "update", kind # "original", Exists(Target)
    PROVE  Target \in Names /\ Updated \in Existing
<1>1. plan \in Plan /\ res \in Resource
  BY DEF Inv, ResourceTyped, PlaceTyped
<1>2. plan.name \in Names /\ plan.secret \in Secrets \cup {""} /\ plan.grants \in Grants
  BY <1>1 DEF Plan
<1>3. Target \in Names
  BY <1>1, <1>2 DEF Target, Resource
<1>4. accounts[Target].secret \in Secrets
  BY <1>3, AccountParts DEF Inv, AccountsTyped, Exists
<1>5. IncludesPassword(res, plan) => plan.secret # ""
  BY DEF Inv, PlanMeant, IncludesPassword
<1> DEFINE s == IF kind = "user" /\ IncludesPassword(res, plan)
                THEN plan.secret ELSE accounts[Target].secret
<1>6. s \in Secrets
  BY <1>2, <1>4, <1>5
<1>7. Updated = [secret |-> s, grants |-> plan.grants]
  BY DEF Updated
<1> HIDE DEF s
<1> QED BY <1>2, <1>3, <1>6, <1>7, AccountMade

---------------------------------------------------------------------------
(* The steps *)

LEMMA ChargeTyped ==
    ASSUME PlaceTyped, Charge
    PROVE  faults' \in 0 .. MaxFaults
BY FaultsAssumption DEF PlaceTyped, Charge

LEMMA SettingKept ==
    ASSUME SettingTyped, UNCHANGED setting, enforced' \in BOOLEAN
    PROVE  SettingTyped'
BY DEF SettingTyped, setting, Configurable, Config

LEMMA EndTyped ==
    ASSUME End, faults' \in 0 .. MaxFaults
    PROVE  PlaceTyped' /\ PlanMeant' /\ plan' = NoPlan
BY DEF End, PlaceTyped, PlanMeant

\* Steps that end what they belong to, whatever they leave on the server and in
\* state.
LEMMA EndingStep ==
    ASSUME Inv, UNCHANGED setting, enforced' \in BOOLEAN, AccountsTyped', End,
           res' \in Resource \cup {NoResource}, faults' \in 0 .. MaxFaults
    PROVE  Inv'
BY SettingKept, EndTyped DEF Inv, ResourceTyped

LEMMA Kept ==
    ASSUME Inv
    PROVE  /\ enforced \in BOOLEAN /\ faults \in 0 .. MaxFaults
           /\ res \in Resource \cup {NoResource} /\ plan \in Plan \cup {NoPlan}
           /\ UNCHANGED accounts => AccountsTyped'
BY DEF Inv, SettingTyped, PlaceTyped, ResourceTyped, AccountsTyped

LEMMA MakePlanCases ==
    ASSUME Inv, MakePlan
    PROVE  \/ pc' = "create" /\ res = NoResource /\ plan' = PlanFor(NoResource)
           \/ pc' = "delete" /\ res # NoResource /\ plan' \in {PlanFor(NoResource), NoPlan}
           \/ pc' = "update" /\ res.known = "tracked" /\ plan' = PlanFor(res)
           \/ End
<1>1. CASE ~cfg.wanted
  BY <1>1 DEF MakePlan, Carry
<1>2. CASE cfg.wanted /\ res = NoResource
  BY <1>2, Nothing DEF MakePlan, Carry
<1>3. CASE cfg.wanted /\ res.known = "tainted"
  BY <1>3, Nothing DEF MakePlan, Carry
<1>4. CASE cfg.wanted /\ res # NoResource /\ res.known # "tainted"
  BY <1>4, Nothing DEF MakePlan, Carry
<1> QED BY <1>1, <1>2, <1>3, <1>4

LEMMA MakePlanStep == Inv /\ MakePlan => Inv'
<1> SUFFICES ASSUME Inv, MakePlan PROVE Inv'
  OBVIOUS
<1>1. UNCHANGED <<server, setting, res, faults>>
  BY DEF MakePlan
<1>2. AccountsTyped' /\ enforced' \in BOOLEAN /\ faults' \in 0 .. MaxFaults
      /\ res' \in Resource \cup {NoResource} /\ SettingTyped'
  BY <1>1, Kept, SettingKept DEF server, Inv
<1>3. kind' = kind /\ previewing' = previewing /\ res' = res
  BY <1>1 DEF setting
<1>4. CASE End
  BY <1>1, <1>2, <1>4, EndingStep
<1>5. CASE pc' = "create" /\ res = NoResource /\ plan' = PlanFor(NoResource)
  <2>1. plan' \in Plan /\ plan' # NoPlan
    BY <1>5, PlanForTyped, Nothing DEF Inv
  <2>2. PlaceTyped'
    BY <1>2, <1>3, <1>5, <2>1 DEF PlaceTyped
  <2>3. kind # "original" => plan'.secret # ""
    BY <1>5, PlanForTyped DEF Inv
  <2>4. previewing => plan'.shown = Preview(NoResource, plan')
    BY <1>5, PlanForTyped DEF Inv
  <2>5. PlanMeant'
    BY <1>3, <1>5, <2>3, <2>4 DEF PlanMeant, Preview, IncludesPassword
  <2> QED BY <1>2, <2>1, <2>2, <2>5 DEF Inv, ResourceTyped
<1>6. CASE pc' = "delete" /\ res # NoResource /\ plan' \in {PlanFor(NoResource), NoPlan}
  <2>1. plan' \in Plan \cup {NoPlan}
    BY <1>6, PlanForTyped DEF Inv
  <2>2. PlaceTyped'
    BY <1>2, <1>3, <1>6 DEF PlaceTyped
  <2>3. kind # "original" /\ plan' # NoPlan => plan'.secret # ""
    BY <1>6, PlanForTyped DEF Inv
  <2>4. previewing /\ plan' # NoPlan => plan'.shown = Preview(NoResource, plan')
    BY <1>6, PlanForTyped DEF Inv
  <2>5. PlanMeant'
    BY <1>3, <1>6, <2>3, <2>4 DEF PlanMeant, Preview, IncludesPassword
  <2> QED BY <1>2, <2>1, <2>2, <2>5 DEF Inv, ResourceTyped
<1>7. CASE pc' = "update" /\ res.known = "tracked" /\ plan' = PlanFor(res)
  <2>1. plan' \in Plan /\ plan' # NoPlan /\ res # NoResource
    BY <1>7, Kept, PlanForTyped, Nothing DEF Inv
  <2>2. PlaceTyped'
    BY <1>2, <1>3, <1>7, <2>1 DEF PlaceTyped
  <2>3. kind # "original" /\ plan'.secret # res.secret => plan'.secret # ""
    BY <1>7, Kept, PlanForTyped DEF Inv
  <2>4. kind # "original" /\ previewing => plan'.shown = Preview(res, plan')
    BY <1>7, Kept, PlanForTyped DEF Inv
  <2>5. PlanMeant'
    BY <1>3, <1>7, <2>3, <2>4 DEF PlanMeant, Preview, IncludesPassword
  <2> QED BY <1>2, <2>1, <2>2, <2>5 DEF Inv, ResourceTyped
<1> QED BY <1>4, <1>5, <1>6, <1>7, MakePlanCases

\* Steps to a place where no plan is carried out.
LEMMA GoingStep ==
    ASSUME Inv, UNCHANGED <<setting, plan>>, enforced' \in BOOLEAN, AccountsTyped',
           res' \in Resource \cup {NoResource}, faults' \in 0 .. MaxFaults,
           pc' \in {"idle", "plan", "refresh", "readCreated", "readUpdated"},
           pc' \in {"refresh", "readUpdated"} => res' # NoResource,
           pc' = "readCreated" => res' = NoResource,
           pc' \in {"readCreated", "readUpdated"} => plan # NoPlan
    PROVE  Inv'
<1>1. SettingTyped' /\ ResourceTyped'
  BY SettingKept DEF Inv, ResourceTyped
<1>2. PlaceTyped'
  BY DEF PlaceTyped
<1>3. PlanMeant'
  BY DEF PlanMeant
<1> QED BY <1>1, <1>2, <1>3 DEF Inv

\* Steps of the world around.
LEMMA OutsideStep ==
    ASSUME Inv, UNCHANGED <<setting, res, plan, pc>>, enforced' \in BOOLEAN, AccountsTyped',
           faults' \in 0 .. MaxFaults
    PROVE  Inv'
<1>1. SettingTyped' /\ ResourceTyped'
  BY SettingKept DEF Inv, ResourceTyped
<1>2. PlaceTyped'
  BY DEF Inv, PlaceTyped
<1>3. kind' = kind /\ previewing' = previewing
  BY DEF setting
<1>4. PlanMeant'
  BY <1>3 DEF Inv, PlanMeant, Preview, IncludesPassword
<1> QED BY <1>1, <1>2, <1>4 DEF Inv

LEMMA PlanningStep == Inv /\ (BeginPlan \/ Refresh \/ RefreshRefused \/ RefreshFails) => Inv'
<1>1. ASSUME Inv, BeginPlan PROVE Inv'
  <2>1. UNCHANGED <<server, setting, res, faults, plan>>
        /\ pc' = IF res = NoResource THEN "plan" ELSE "refresh"
    BY <1>1 DEF BeginPlan, GoTo
  <2> QED BY <1>1, <2>1, Kept, GoingStep DEF server
<1>2. ASSUME Inv, Refresh PROVE Inv'
  <2>1. UNCHANGED <<server, setting, faults, plan>> /\ pc' = "plan" /\ pc = "refresh"
        /\ res' = IF Exists(res.id) THEN ReadInto(res) ELSE NoResource
    BY <1>2 DEF Refresh, GoTo
  <2>2. res \in Resource
    BY <1>2, <2>1 DEF Inv, PlaceTyped, ResourceTyped
  <2>3. res' \in Resource \cup {NoResource}
    BY <1>2, <2>1, <2>2, ReadIntoTyped DEF Inv
  <2> QED BY <1>2, <2>1, <2>3, Kept, GoingStep DEF server
<1>3. ASSUME Inv, RefreshRefused PROVE Inv'
  <2>1. UNCHANGED <<server, setting, res, faults>> /\ End
    BY <1>3 DEF RefreshRefused
  <2> QED BY <1>3, <2>1, Kept, EndingStep DEF server
<1>4. ASSUME Inv, RefreshFails PROVE Inv'
  <2>1. UNCHANGED <<server, setting, res>> /\ End /\ Charge
    BY <1>4 DEF RefreshFails
  <2>2. faults' \in 0 .. MaxFaults
    BY <1>4, <2>1, ChargeTyped DEF Inv
  <2> QED BY <1>4, <2>1, <2>2, Kept, EndingStep DEF server
<1> QED BY <1>1, <1>2, <1>3, <1>4

LEMMA ImportStep == Inv /\ Import => Inv'
<1> SUFFICES ASSUME Inv, Import PROVE Inv'
  OBVIOUS
<1> DEFINE r == [known |-> "tracked", id |-> cfg.name, name |-> cfg.name, secret |-> "",
                 grants |-> accounts[cfg.name].grants, shown |-> NoCommand]
<1>1. UNCHANGED <<server, setting, plan, pc, faults>> /\ pc = "idle" /\ res' = r
  BY DEF Import
<1>2. cfg.name \in Names
  BY DEF Inv, SettingTyped, Config
<1>3. accounts[cfg.name].grants \in Grants
  BY <1>2, AccountParts DEF Inv, AccountsTyped
<1>4. r \in Resource
  BY <1>2, <1>3 DEF Resource, Shown
<1> HIDE DEF r
<1> QED BY <1>1, <1>4, Kept, GoingStep DEF server

LEMMA CreateStep == Inv /\ (Create \/ Adopt \/ CreateRefused \/ CreateFails) => Inv'
<1>1. ASSUME Inv, Create PROVE Inv'
  <2>1. /\ UNCHANGED <<enforced, setting, res, faults, plan>>
        /\ pc = "create" /\ pc' = "readCreated" /\ Set(plan.name, NewAccount)
        /\ kind = "original" => plan.secret # ""
    BY <1>1 DEF Create, GoTo
  <2>2. AccountsTyped'
    BY <1>1, <2>1, NewAccountTyped, SetTyped DEF Inv
  <2>3. res = NoResource /\ plan # NoPlan
    BY <1>1, <2>1 DEF Inv, PlaceTyped
  <2> QED BY <1>1, <2>1, <2>2, <2>3, Kept, GoingStep
<1>2. ASSUME Inv, Adopt PROVE Inv'
  <2>1. UNCHANGED <<server, setting, res, faults>> /\ pc = "create"
        /\ ((pc' = "readCreated" /\ plan' = plan) \/ End)
    BY <1>2 DEF Adopt, GoTo
  <2>2. res = NoResource /\ plan # NoPlan
    BY <1>2, <2>1 DEF Inv, PlaceTyped
  <2>3. CASE End
    BY <1>2, <2>1, <2>3, Kept, EndingStep DEF server
  <2>4. CASE pc' = "readCreated" /\ plan' = plan
    BY <1>2, <2>1, <2>2, <2>4, Kept, GoingStep DEF server
  <2> QED BY <2>1, <2>3, <2>4
<1>3. ASSUME Inv, CreateRefused PROVE Inv'
  <2>1. UNCHANGED <<server, setting, res, faults>> /\ End
    BY <1>3 DEF CreateRefused
  <2> QED BY <1>3, <2>1, Kept, EndingStep DEF server
<1>4. ASSUME Inv, CreateFails PROVE Inv'
  <2>1. /\ UNCHANGED <<enforced, setting, res>> /\ End /\ Charge /\ pc = "create"
        /\ \/ UNCHANGED accounts
           \/ (kind = "original" => plan.secret # "") /\ Set(plan.name, NewAccount)
    BY <1>4 DEF CreateFails, Unanswered
  <2>2. AccountsTyped'
    BY <1>4, <2>1, NewAccountTyped, SetTyped, Kept DEF Inv
  <2>3. faults' \in 0 .. MaxFaults
    BY <1>4, <2>1, ChargeTyped DEF Inv
  <2> QED BY <1>4, <2>1, <2>2, <2>3, Kept, EndingStep
<1> QED BY <1>1, <1>2, <1>3, <1>4

\* The name an update goes to.
LEMMA TargetTyped ==
    ASSUME plan \in Plan, res \in Resource
    PROVE  Target \in Names /\ plan.name \in Names /\ res.id \in Names
BY DEF Target, Plan, Resource

LEMMA ReadCreatedStep ==
    Inv /\ (ReadCreated \/ ReadCreatedRefused \/ ReadCreatedFails) => Inv'
<1> SUFFICES ASSUME Inv, ReadCreated \/ ReadCreatedRefused \/ ReadCreatedFails PROVE Inv'
  OBVIOUS
<1>1. /\ UNCHANGED <<server, setting>> /\ End /\ pc = "readCreated"
      /\ UNCHANGED faults \/ Charge
      /\ res' \in {ReadInto(FromPlan("tracked", plan.name)), NoResource,
                   FromPlan("tainted", plan.name)}
  BY DEF ReadCreated, ReadCreatedRefused, ReadCreatedFails
<1>2. plan \in Plan
  BY <1>1 DEF Inv, PlaceTyped, ResourceTyped
<1>3. plan.name \in Names
  BY <1>2 DEF Plan
<1>4. /\ FromPlan("tracked", plan.name) \in Resource
      /\ FromPlan("tainted", plan.name) \in Resource
  BY <1>2, <1>3, FromPlanTyped
<1>5. ReadInto(FromPlan("tracked", plan.name)) \in Resource
  BY <1>4, ReadIntoTyped DEF Inv
<1>6. faults' \in 0 .. MaxFaults
  BY <1>1, Kept, ChargeTyped DEF Inv
<1> QED BY <1>1, <1>4, <1>5, <1>6, Kept, EndingStep DEF server

LEMMA UpdateStep ==
    Inv /\ (Update \/ UpdateRefused \/ UpdateFails \/ ReadUpdated \/ ReadUpdatedFails) => Inv'
<1>1. ASSUME Inv, Update PROVE Inv'
  <2>1. /\ UNCHANGED <<enforced, setting, res, faults, plan>> /\ pc = "update"
        /\ pc' = "readUpdated" /\ Set(Target, Updated) /\ kind # "original" /\ Exists(Target)
    BY <1>1 DEF Update, GoTo
  <2>2. AccountsTyped'
    BY <1>1, <2>1, UpdatedTyped, SetTyped DEF Inv
  <2>3. res # NoResource /\ plan # NoPlan
    BY <1>1, <2>1 DEF Inv, PlaceTyped
  <2> QED BY <1>1, <2>1, <2>2, <2>3, Kept, GoingStep
<1>2. ASSUME Inv, UpdateRefused \/ UpdateFails PROVE Inv'
  <2>1. /\ UNCHANGED <<enforced, setting>> /\ End /\ pc = "update"
        /\ res' = FromPlan("tracked", res.id)
        /\ UNCHANGED faults \/ Charge
        /\ \/ UNCHANGED accounts
           \/ kind # "original" /\ Exists(Target) /\ Set(Target, Updated)
    BY <1>2 DEF UpdateRefused, UpdateFails, KeepPlanned, Unanswered, server
  <2>2. plan \in Plan /\ res \in Resource
    BY <1>2, <2>1 DEF Inv, PlaceTyped, ResourceTyped
  <2>3. res' \in Resource
    BY <2>1, <2>2, TargetTyped, FromPlanTyped
  <2>4. AccountsTyped'
    BY <1>2, <2>1, UpdatedTyped, SetTyped, Kept DEF Inv
  <2>5. faults' \in 0 .. MaxFaults
    BY <1>2, <2>1, Kept, ChargeTyped DEF Inv
  <2> QED BY <1>2, <2>1, <2>3, <2>4, <2>5, Kept, EndingStep
<1>3. ASSUME Inv, ReadUpdated \/ ReadUpdatedFails PROVE Inv'
  <2>1. /\ UNCHANGED <<server, setting>> /\ End /\ pc = "readUpdated"
        /\ UNCHANGED faults \/ Charge
        /\ res' \in {ReadInto(FromPlan("tracked", Target)), NoResource,
                     FromPlan("tracked", Target)}
    BY <1>3 DEF ReadUpdated, ReadUpdatedFails
  <2>2. plan \in Plan /\ res \in Resource
    BY <1>3, <2>1 DEF Inv, PlaceTyped, ResourceTyped
  <2>3. FromPlan("tracked", Target) \in Resource
    BY <2>2, TargetTyped, FromPlanTyped
  <2>4. ReadInto(FromPlan("tracked", Target)) \in Resource
    BY <1>3, <2>3, ReadIntoTyped DEF Inv
  <2>5. faults' \in 0 .. MaxFaults
    BY <1>3, <2>1, Kept, ChargeTyped DEF Inv
  <2> QED BY <1>3, <2>1, <2>3, <2>4, <2>5, Kept, EndingStep DEF server
<1> QED BY <1>1, <1>2, <1>3

LEMMA DeleteStep == Inv /\ (Delete \/ DeleteRefused \/ DeleteFails) => Inv'
<1>1. ASSUME Inv, Delete PROVE Inv'
  <2>1. /\ UNCHANGED <<enforced, setting, faults>> /\ pc = "delete" /\ res' = NoResource
        /\ UNCHANGED accounts \/ Set(res.id, Absent)
        /\ (plan = NoPlan /\ End) \/ (plan # NoPlan /\ pc' = "create" /\ plan' = plan)
    BY <1>1 DEF Delete, Forget, GoTo
  <2>2. res \in Resource
    BY <1>1, <2>1 DEF Inv, PlaceTyped, ResourceTyped
  <2>3. res.id \in Names
    BY <2>2 DEF Resource
  <2>4. AccountsTyped'
    BY <1>1, <2>1, <2>3, SetTyped, Kept DEF Inv
  <2>5. CASE plan = NoPlan /\ End
    BY <1>1, <2>1, <2>4, <2>5, Kept, EndingStep
  <2>6. CASE plan # NoPlan /\ pc' = "create" /\ plan' = plan
    <3>1. SettingTyped' /\ ResourceTyped'
      BY <1>1, <2>1, <2>6, Kept, SettingKept DEF Inv, ResourceTyped
    <3>2. PlaceTyped'
      BY <1>1, <2>1, <2>6 DEF Inv, PlaceTyped
    <3>3. kind' = kind /\ previewing' = previewing
      BY <2>1 DEF setting
    <3>4. PlanMeant'
      BY <1>1, <2>1, <2>6, <3>3 DEF Inv, PlanMeant, Preview, IncludesPassword
    <3> QED BY <2>4, <3>1, <3>2, <3>4 DEF Inv
  <2> QED BY <2>1, <2>5, <2>6
<1>2. ASSUME Inv, DeleteRefused PROVE Inv'
  <2>1. UNCHANGED <<server, setting, res, faults>> /\ End
    BY <1>2 DEF DeleteRefused
  <2> QED BY <1>2, <2>1, Kept, EndingStep DEF server
<1>3. ASSUME Inv, DeleteFails PROVE Inv'
  <2>1. /\ UNCHANGED <<enforced, setting, res>> /\ End /\ Charge /\ pc = "delete"
        /\ UNCHANGED accounts \/ Set(res.id, Absent)
    BY <1>3 DEF DeleteFails, Unanswered
  <2>2. res \in Resource
    BY <1>3, <2>1 DEF Inv, PlaceTyped, ResourceTyped
  <2>3. res.id \in Names
    BY <2>2 DEF Resource
  <2>4. AccountsTyped'
    BY <1>3, <2>1, <2>3, SetTyped, Kept DEF Inv
  <2>5. faults' \in 0 .. MaxFaults
    BY <1>3, <2>1, ChargeTyped DEF Inv
  <2> QED BY <1>3, <2>1, <2>4, <2>5, Kept, EndingStep
<1> QED BY <1>1, <1>2, <1>3

LEMMA SurroundingsStep == Inv /\ Surroundings => Inv'
<1>1. ASSUME Inv, Killed PROVE Inv'
  <2>1. UNCHANGED <<server, setting, res>> /\ End /\ Charge
    BY <1>1 DEF Killed
  <2>2. faults' \in 0 .. MaxFaults
    BY <1>1, <2>1, ChargeTyped DEF Inv
  <2> QED BY <1>1, <2>1, <2>2, Kept, EndingStep DEF server
<1>2. ASSUME Inv, Edit PROVE Inv'
  <2>1. /\ UNCHANGED <<server, kind, previewing, res, plan, pc>> /\ pc = "idle" /\ Charge
        /\ cfg' \in Config /\ Configurable(cfg')
    BY <1>2 DEF Edit
  <2>2. faults' \in 0 .. MaxFaults
    BY <1>2, <2>1, ChargeTyped DEF Inv
  <2>3. SettingTyped'
    BY <1>2, <2>1 DEF Inv, SettingTyped, Configurable, server
  <2>4. AccountsTyped' /\ ResourceTyped'
    BY <1>2, <2>1, Kept DEF Inv, ResourceTyped, server
  <2>5. PlaceTyped' /\ PlanMeant'
    BY <2>1, <2>2 DEF PlaceTyped, PlanMeant
  <2> QED BY <2>3, <2>4, <2>5 DEF Inv
<1>3. ASSUME Inv, Outsider PROVE Inv'
  <2>1. /\ UNCHANGED <<enforced, setting, res, plan, pc>> /\ Charge
        /\ \E name \in Names, a \in Existing \cup {Absent} : Set(name, a)
    BY <1>3 DEF Outsider
  <2>2. AccountsTyped'
    BY <1>3, <2>1, SetTyped DEF Inv
  <2>3. faults' \in 0 .. MaxFaults
    BY <1>3, <2>1, ChargeTyped DEF Inv
  <2> QED BY <1>3, <2>1, <2>2, <2>3, Kept, OutsideStep
<1>4. ASSUME Inv, Enforce PROVE Inv'
  <2>1. UNCHANGED <<accounts, setting, res, plan, pc>> /\ enforced' = TRUE /\ Charge
    BY <1>4 DEF Enforce
  <2>2. faults' \in 0 .. MaxFaults
    BY <1>4, <2>1, ChargeTyped DEF Inv
  <2> QED BY <1>4, <2>1, <2>2, Kept, OutsideStep
<1> QED BY <1>1, <1>2, <1>3, <1>4 DEF Surroundings

LEMMA InvNext == Inv /\ [Next]_vars => Inv'
<1> SUFFICES ASSUME Inv, [Next]_vars PROVE Inv'
  OBVIOUS
<1>1. CASE UNCHANGED vars
  <2>1. UNCHANGED <<setting, res, plan, pc, enforced, accounts, faults>>
    BY <1>1 DEF vars, setting
  <2> QED BY <2>1, Kept, OutsideStep
<1>2. CASE Next
  BY <1>2, PlanningStep, MakePlanStep, ImportStep, CreateStep, ReadCreatedStep, UpdateStep,
     DeleteStep, SurroundingsStep DEF Next, Provider, Operations
<1> QED BY <1>1, <1>2

\* The inductive invariant holds at every moment: the types, narrowed by where the
\* provider stands, and that a plan carries the preview of itself.
THEOREM Invariance == Spec => []Inv
BY InvInit, InvNext, PTL DEF Spec

\* Every variable keeps its type, whatever fails, is lost, edited or done by
\* others; above all no account gets an empty password.
THEOREM TypeCorrect == Spec => []TypeOK
BY Invariance, InvImpliesTypeOK, PTL

---------------------------------------------------------------------------
(* What the provider writes *)

Creates == /\ pc = "create" /\ ~Exists(plan.name) /\ (kind = "original" => plan.secret # "")
           /\ Set(plan.name, NewAccount)
Updates == pc = "update" /\ kind # "original" /\ Exists(Target) /\ Set(Target, Updated)
Drops   == pc = "delete" /\ kind # "original" /\ Set(res.id, Absent)

\* A step of plan and apply that changes an account is the command of a create,
\* of an update or of a delete.
LEMMA Writers ==
    ASSUME Next, pc' # pc
    PROVE  UNCHANGED accounts \/ Creates \/ Updates \/ Drops
<1>1. CASE BeginPlan \/ MakePlan \/ Import \/ Refresh \/ RefreshRefused \/ RefreshFails
  BY <1>1 DEF BeginPlan, MakePlan, Import, Refresh, RefreshRefused, RefreshFails, server
<1>2. CASE Create \/ CreateFails
  BY <1>2 DEF Create, CreateFails, Unanswered, Creates
<1>3. CASE Adopt \/ CreateRefused \/ ReadCreated \/ ReadCreatedRefused \/ ReadCreatedFails
  BY <1>3 DEF Adopt, CreateRefused, ReadCreated, ReadCreatedRefused, ReadCreatedFails, server
<1>4. CASE Update \/ UpdateFails
  BY <1>4 DEF Update, UpdateFails, Unanswered, Updates
<1>5. CASE UpdateRefused \/ ReadUpdated \/ ReadUpdatedFails \/ DeleteRefused \/ Killed
  BY <1>5 DEF UpdateRefused, ReadUpdated, ReadUpdatedFails, DeleteRefused, Killed, server
<1>6. CASE Delete \/ DeleteFails
  BY <1>6 DEF Delete, DeleteFails, Unanswered, Drops
<1>7. CASE Edit \/ Outsider \/ Enforce
  BY <1>7 DEF Edit, Outsider, Enforce
<1> QED BY <1>1, <1>2, <1>3, <1>4, <1>5, <1>6, <1>7
        DEF Next, Provider, Operations, Surroundings

\* An account that the command is not about stays as it is.
LEMMA Created ==
    ASSUME Inv, Creates
    PROVE  \A n \in Names : accounts'[n] = IF n = plan.name THEN NewAccount ELSE accounts[n]
BY NewAccountTyped, SetTyped DEF Inv, Creates

LEMMA WasUpdated ==
    ASSUME Inv, Updates
    PROVE  \A n \in Names : accounts'[n] = IF n = Target THEN Updated ELSE accounts[n]
BY UpdatedTyped, SetTyped DEF Inv, Updates

LEMMA UpdatedParts ==
    /\ Updated.grants = plan.grants
    /\ Updated.secret # accounts[Target].secret =>
           kind = "user" /\ plan.secret # res.secret /\ Updated.secret = plan.secret
BY DEF Updated, IncludesPassword

LEMMA NewAccountParts ==
    NewAccount.secret = plan.secret
    /\ NewAccount.grants = IF kind = "original" THEN "some" ELSE plan.grants
BY DEF NewAccount

\* No update changes a password that the plan does not change.
THEOREM NoSilentRotation == Spec => PasswordOnlyOnRotation
<1>1. Inv /\ [Next]_vars =>
          (pc = "update" /\ pc' # "update" =>
             \A name \in Names : accounts'[name].secret # accounts[name].secret =>
                 plan.secret # res.secret /\ accounts'[name].secret = plan.secret)
  <2> SUFFICES ASSUME Inv, [Next]_vars, pc = "update", pc' # "update", NEW name \in Names,
                      accounts'[name].secret # accounts[name].secret
               PROVE  plan.secret # res.secret /\ accounts'[name].secret = plan.secret
    OBVIOUS
  <2>1. Next
    BY DEF vars
  <2>2. Updates
    BY <2>1, Writers DEF Creates, Drops
  <2>3. name = Target /\ accounts'[name] = Updated
    BY <2>2, WasUpdated
  <2> QED BY <2>3, UpdatedParts
<1> QED BY <1>1, Invariance, PTL DEF Spec, PasswordOnlyOnRotation

\* The original user, once there, is nobody's to change: no step of the provider
\* writes an account that exists.
THEOREM FirstUserIsSafe == Spec => OriginalIsNeverTouched
<1>1. Inv /\ [Next]_vars =>
          (kind = "original" /\ pc' # pc =>
             \A name \in Names : Exists(name) => accounts'[name] = accounts[name])
  <2> SUFFICES ASSUME Inv, [Next]_vars, kind = "original", pc' # pc, NEW name \in Names,
                      Exists(name)
               PROVE  accounts'[name] = accounts[name]
    OBVIOUS
  <2>1. Next
    BY DEF vars
  <2>2. UNCHANGED accounts \/ Creates
    BY <2>1, Writers DEF Updates, Drops
  <2>3. CASE Creates
    BY <2>3, Created DEF Creates
  <2> QED BY <2>2, <2>3
<1> QED BY <1>1, Invariance, PTL DEF Spec, OriginalIsNeverTouched

\* What is sent was shown.  That the plan carries the preview of itself is part
\* of the invariant (PlanMeant).
THEOREM WhatIsShownIsSent == Spec => PreviewIsSent
<1>1. Inv /\ [Next]_vars =>
          (previewing /\ pc \in {"create", "update"} /\ pc' # pc =>
             \A name \in Names : accounts'[name] # accounts[name] =>
                 \/ kind = "role" /\ pc = "update" /\ plan.name # res.id
                 \/ kind = "original" /\ plan.grants = "none"
                 \/ /\ plan.shown.verb = pc
                    /\ plan.shown.name = name
                    /\ plan.shown.grants = accounts'[name].grants
                    /\ accounts'[name].secret # accounts[name].secret =>
                           plan.shown.pwd = (kind # "role"))
  <2> SUFFICES ASSUME Inv, [Next]_vars, previewing, pc \in {"create", "update"}, pc' # pc,
                      NEW name \in Names, accounts'[name] # accounts[name],
                      ~(kind = "role" /\ pc = "update" /\ plan.name # res.id),
                      ~(kind = "original" /\ plan.grants = "none")
               PROVE  /\ plan.shown.verb = pc
                      /\ plan.shown.name = name
                      /\ plan.shown.grants = accounts'[name].grants
                      /\ accounts'[name].secret # accounts[name].secret =>
                             plan.shown.pwd = (kind # "role")
    OBVIOUS
  <2>1. Next
    BY DEF vars
  <2>2. Creates \/ Updates
    BY <2>1, Writers DEF Drops
  <2>3. plan \in Plan
    BY DEF Inv, PlaceTyped, ResourceTyped
  <2>4. plan.grants \in Grants /\ kind \in Kinds
    BY <2>3 DEF Plan, Inv, SettingTyped
  <2>5. CASE Creates
    <3>1. name = plan.name /\ accounts'[name] = NewAccount
      BY <2>5, Created
    <3>2. plan.shown = Preview(NoResource, plan)
      BY <2>3, <2>5, Nothing DEF Creates, Inv, PlanMeant
    <3>3. /\ plan.shown.verb = "create" /\ plan.shown.name = plan.name
          /\ plan.shown.pwd = (kind # "role") /\ plan.shown.grants = plan.grants
      BY <3>2 DEF Preview
    <3>4. plan.grants = NewAccount.grants
      BY <2>4, NewAccountParts DEF Grants
    <3> QED BY <2>5, <3>1, <3>3, <3>4 DEF Creates
  <2>6. CASE Updates
    <3>1. name = Target /\ accounts'[name] = Updated
      BY <2>6, WasUpdated
    <3>2. plan.shown = Preview(res, plan)
      BY <2>6 DEF Updates, Inv, PlanMeant
    <3>3. res # NoResource
      BY <2>6 DEF Updates, Inv, PlaceTyped
    <3>4. /\ plan.shown.verb = "update" /\ plan.shown.name = plan.name
          /\ plan.shown.pwd = (kind # "role" /\ IncludesPassword(res, plan))
          /\ plan.shown.grants = plan.grants
      BY <3>2, <3>3 DEF Preview
    <3>5. Target = plan.name
      BY <2>4, <2>6 DEF Updates, Target, Kinds
    <3> QED BY <2>6, <3>1, <3>4, <3>5, UpdatedParts DEF Updates, IncludesPassword
  <2> QED BY <2>2, <2>5, <2>6
<1> QED BY <1>1, Invariance, PTL DEF Spec, PreviewIsSent
=============================================================================
