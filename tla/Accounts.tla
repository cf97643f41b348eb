------------------------------ MODULE Accounts ------------------------------
(***************************************************************************)
(* One user or role of a deployment under one Terraform resource, of one   *)
(* of three kinds:                                                         *)
(*   "user"      mongodb_db_user        (resource_db_user.go)              *)
(*   "role"      mongodb_db_role        (resource_db_role.go)              *)
(*   "original"  mongodb_original_user  (resource_original_user.go)        *)
(* from the plan with its preview of commands (command_preview.go) to the  *)
(* read at the end of each operation, and what Terraform remembers.        *)
(*                                                                         *)
(* A role has no password; its secret is one value that nothing looks at.  *)
(* grants are the roles of a user, or the privileges and inherited roles   *)
(* of a role: none, or some (the root role, for the original user).        *)
(***************************************************************************)
EXTENDS Naturals

CONSTANTS
  Names,      \* the names accounts can have, in one database
  Secrets,    \* the passwords
  MaxFaults   \* failed calls, edits of the configuration, acts of others

ASSUME NamesAssumption   == "" \notin Names
ASSUME SecretsAssumption == "" \notin Secrets
ASSUME FaultsAssumption  == MaxFaults \in Nat

VARIABLES
  kind,        \* which resource this is
  previewing,  \* command_preview of the provider
  accounts,    \* the deployment's accounts, by name
  enforced,    \* the deployment asks for a login
  cfg,         \* the configuration of the resource
  res,         \* the resource in Terraform state
  plan,        \* the plan being carried out
  pc,          \* the next step of plan and apply
  faults

server  == <<accounts, enforced>>
setting == <<kind, previewing, cfg>>
vars    == <<kind, previewing, accounts, enforced, cfg, res, plan, pc, faults>>

Kinds    == {"user", "role", "original"}
Grants   == {"none", "some"}
Account  == [secret : Secrets \cup {""}, grants : Grants]
Absent   == [secret |-> "", grants |-> "none"]
Existing == {a \in Account : a.secret # ""}
Exists(name) == accounts[name] # Absent

\* A command as the preview shows it: the password is redacted.
Command   == [verb : {"create", "update"}, name : Names, pwd : BOOLEAN, grants : Grants]
NoCommand == [verb |-> "", name |-> "", pwd |-> FALSE, grants |-> "none"]
Shown     == Command \cup {NoCommand}

Resource ==
    [known : {"tracked", "tainted"}, id : Names, name : Names,
     secret : Secrets \cup {""}, grants : Grants, shown : Shown]
NoResource ==
    [known |-> "none", id |-> "", name |-> "", secret |-> "", grants |-> "none",
     shown |-> NoCommand]

\* The planned attributes of a resource to create or to update.
Plan == [name : Names, secret : Secrets \cup {""}, grants : Grants, shown : Shown]
NoPlan == [name |-> "", secret |-> "", grants |-> "none", shown |-> NoCommand]

\* The password of a db_user must not be empty; that of the original user may
\* be left out.  pinned is lifecycle.ignore_changes = [password].  DANGER-023
Config ==
    [wanted : BOOLEAN, name : Names, secret : Secrets \cup {""}, grants : Grants,
     pinned : BOOLEAN]
Configurable(c) ==
    /\ c.secret = "" => kind = "original"
    /\ c.pinned => kind = "user"

TypeOK ==
    /\ kind \in Kinds /\ previewing \in BOOLEAN
    /\ accounts \in [Names -> Existing \cup {Absent}]
    /\ enforced \in BOOLEAN
    /\ cfg \in Config /\ Configurable(cfg)
    /\ res \in Resource \cup {NoResource}
    /\ plan \in Plan \cup {NoPlan}
    /\ pc \in {"idle", "refresh", "plan", "create", "update", "delete", "readCreated",
               "readUpdated"}
    /\ pc \in {"update", "delete", "readUpdated", "refresh"} => res # NoResource
    /\ pc \in {"create", "readCreated"} => res = NoResource /\ plan # NoPlan
    /\ pc = "update" => res.known = "tracked" /\ plan # NoPlan
    /\ faults \in 0 .. MaxFaults

Init ==
    /\ kind \in Kinds /\ previewing \in BOOLEAN /\ enforced \in BOOLEAN
    /\ accounts \in {f \in [Names -> Existing \cup {Absent}] :
                        \A m, n \in Names : f[m] # Absent /\ f[n] # Absent => m = n}
    /\ cfg \in Config /\ Configurable(cfg)
    /\ res = NoResource /\ plan = NoPlan /\ pc = "idle" /\ faults = 0

Charge == faults < MaxFaults /\ faults' = faults + 1

\* An operation, a plan or a refresh ends.
End    == pc' = "idle" /\ plan' = NoPlan
GoTo(place) == pc' = place /\ UNCHANGED plan

---------------------------------------------------------------------------
(* The plan *)

\* What the plan gives the resource; ignore_changes keeps what state holds.
Planned(prior) ==
    [name   |-> cfg.name,
     secret |-> IF cfg.pinned /\ prior # NoResource THEN prior.secret ELSE cfg.secret,
     grants |-> cfg.grants]

\* includePasswordForUpdate: the apply sends the password, and the preview
\* shows that it does, when the plan changes it.  DANGER-021
F_IncludesPassword(prior, planned) == TRUE
IncludesPassword(prior, planned) == planned.secret # prior.secret

\* The command of the preview, and the value planned_commands gets.
Preview(prior, planned) ==
    [verb   |-> IF prior = NoResource THEN "create" ELSE "update",
     name   |-> planned.name,
     pwd    |-> kind # "role" /\ (prior = NoResource \/ IncludesPassword(prior, planned)),
     grants |-> planned.grants]

PlannedCommands(prior, planned) ==
    IF previewing /\ (kind = "original" => prior = NoResource)
    THEN Preview(prior, planned) ELSE prior.shown

PlanFor(prior) ==
    LET planned == Planned(prior)
    IN  [name |-> planned.name, secret |-> planned.secret, grants |-> planned.grants,
         shown |-> PlannedCommands(prior, planned)]

\* ResourceDiff.HasChanges looks at the keys it is given.  (external)
HasChanges(keys) == \E key \in keys : PlanFor(res)[key] # res[key]

HasDiff == HasChanges({"name", "secret", "grants", "shown"})

\* The guard of the original user calls HasChanges without keys.
PlanRefused == kind = "original" /\ HasChanges({})

\* A plan starts with a refresh of what is in state.
BeginPlan ==
    /\ pc = "idle"
    /\ GoTo(IF res = NoResource THEN "plan" ELSE "refresh")
    /\ UNCHANGED <<server, setting, res, faults>>

Carry(place, attributes) == pc' = place /\ plan' = attributes

\* A tainted resource is destroyed and created again.
MakePlan ==
    /\ pc = "plan"
    /\ IF cfg.wanted
       THEN CASE res = NoResource        -> Carry("create", PlanFor(NoResource))
              [] res.known = "tainted"   -> Carry("delete", PlanFor(NoResource))
              [] res.known = "tracked" /\ HasDiff /\ ~PlanRefused -> Carry("update", PlanFor(res))
              [] OTHER                   -> End
       ELSE IF res = NoResource THEN End ELSE Carry("delete", NoPlan)
    /\ UNCHANGED <<server, setting, res, faults>>

---------------------------------------------------------------------------
(* The deployment (external) *)

\* What a command does to one account; its answer may be lost.
Set(name, account) == accounts' = [accounts EXCEPT ![name] = account]
Unanswered(effect) == (effect \/ UNCHANGED accounts) /\ UNCHANGED enforced /\ Charge

\* Without a login only a deployment that asks for none, or that has no user
\* yet, takes createUser and usersInfo.
Open   == ~enforced
Virgin == \A name \in Names : ~Exists(name)
LogsIn(name, secret) == Exists(name) /\ accounts[name].secret = secret

---------------------------------------------------------------------------
(* Read *)

\* The resource as Read leaves it: the original user keeps its username.
ReadInto(resource) ==
    [resource EXCEPT !.grants = accounts[resource.id].grants,
                     !.name = IF kind = "original" THEN @ ELSE resource.id]

\* Read logs in as the user in state and, if that fails, tries without.
F_Readable(name, secret) == kind = "original" => LogsIn(name, secret)
Readable(name, secret) == kind = "original" => LogsIn(name, secret) \/ Open

\* ORIG-004, DANGER-022, DANGER-024, DANGER-025
F_Refresh ==
    /\ pc = "refresh" /\ Readable(res.name, res.secret)
    /\ IF Exists(res.id) THEN res' = ReadInto(res) /\ GoTo("plan")
       ELSE End /\ UNCHANGED res
    /\ UNCHANGED <<server, setting, faults>>
Refresh ==
    /\ pc = "refresh" /\ Readable(res.name, res.secret)
    /\ res' = IF Exists(res.id) THEN ReadInto(res) ELSE NoResource
    /\ GoTo("plan")
    /\ UNCHANGED <<server, setting, faults>>

RefreshRefused ==
    /\ pc = "refresh" /\ ~Readable(res.name, res.secret) /\ End
    /\ UNCHANGED <<server, setting, res, faults>>

RefreshFails ==
    /\ pc = "refresh" /\ Charge /\ End
    /\ UNCHANGED <<server, setting, res>>

\* terraform import; the original user has no importer.
Import ==
    /\ pc = "idle" /\ kind # "original" /\ cfg.wanted /\ res = NoResource /\ Exists(cfg.name)
    /\ res' = [known |-> "tracked", id |-> cfg.name, name |-> cfg.name, secret |-> "",
               grants |-> accounts[cfg.name].grants, shown |-> NoCommand]
    /\ UNCHANGED <<server, setting, plan, pc, faults>>

---------------------------------------------------------------------------
(* Create *)

\* The original user gets the root role unless roles are configured.
NewAccount ==
    [secret |-> plan.secret, grants |-> IF kind = "original" THEN "some" ELSE plan.grants]

\* createUser and createRole refuse an account that exists.  ORIG-002
Create ==
    /\ pc = "create" /\ ~Exists(plan.name)
    /\ kind = "original" => plan.secret # "" /\ (Open \/ Virgin)
    /\ Set(plan.name, NewAccount)
    /\ GoTo("readCreated")
    /\ UNCHANGED <<enforced, setting, res, faults>>

\* The original user that exists is adopted if it can log in.  ORIG-003
F_Adopt ==
    /\ pc = "create" /\ kind = "original" /\ plan.secret # "" /\ Exists(plan.name) /\ Open
    /\ Set(plan.name, NewAccount) /\ GoTo("readCreated")
    /\ UNCHANGED <<enforced, setting, res, faults>>
Adopt ==
    /\ pc = "create" /\ kind = "original" /\ plan.secret # "" /\ Exists(plan.name) /\ Open
    /\ IF LogsIn(plan.name, plan.secret) THEN GoTo("readCreated") ELSE End
    /\ UNCHANGED <<server, setting, res, faults>>

CreateRefused ==
    /\ pc = "create"
    /\ IF kind = "original" THEN plan.secret = "" \/ ~(Open \/ Virgin) ELSE Exists(plan.name)
    /\ End
    /\ UNCHANGED <<server, setting, res, faults>>

CreateFails ==
    /\ pc = "create"
    /\ Unanswered(/\ ~Exists(plan.name)
                  /\ kind = "original" => plan.secret # "" /\ (Open \/ Virgin)
                  /\ Set(plan.name, NewAccount))
    /\ End
    /\ UNCHANGED <<setting, res>>

\* The read at the end of a Create.  A user or role that is not found is an
\* error, and the resource is tainted; the original user loses its ID again.
FromPlan(known, id) ==
    [known |-> known, id |-> id, name |-> plan.name, secret |-> plan.secret,
     grants |-> plan.grants, shown |-> plan.shown]

ReadCreated ==
    /\ pc = "readCreated" /\ Readable(plan.name, plan.secret)
    /\ res' = IF Exists(plan.name) THEN ReadInto(FromPlan("tracked", plan.name))
              ELSE IF kind = "original" THEN NoResource
              ELSE FromPlan("tainted", plan.name)
    /\ End
    /\ UNCHANGED <<server, setting, faults>>

ReadCreatedRefused ==
    /\ pc = "readCreated" /\ ~Readable(plan.name, plan.secret)
    /\ res' = FromPlan("tainted", plan.name) /\ End
    /\ UNCHANGED <<server, setting, faults>>

ReadCreatedFails ==
    /\ pc = "readCreated" /\ Charge
    /\ res' = FromPlan("tainted", plan.name) /\ End
    /\ UNCHANGED <<server, setting>>

---------------------------------------------------------------------------
(* Update *)

\* updateUser names the user of the plan, updateRole the role of the ID.
\* DANGER-001, DANGER-002
F_Target == res.id
Target == IF kind = "user" THEN plan.name ELSE res.id

Updated ==
    [secret |-> IF kind = "user" /\ IncludesPassword(res, plan)
                THEN plan.secret ELSE accounts[Target].secret,
     grants |-> plan.grants]

\* An operation that fails leaves the planned attributes in state.
KeepPlanned == res' = FromPlan("tracked", res.id) /\ End

Update ==
    /\ pc = "update" /\ kind # "original" /\ Exists(Target)
    /\ Set(Target, Updated)
    /\ GoTo("readUpdated")
    /\ UNCHANGED <<enforced, setting, res, faults>>

\* The original user is never updated.  ORIG-005, DANGER-004
UpdateRefused ==
    /\ pc = "update" /\ (kind = "original" \/ ~Exists(Target))
    /\ KeepPlanned
    /\ UNCHANGED <<server, setting, faults>>

UpdateFails ==
    /\ pc = "update" /\ kind # "original"
    /\ Unanswered(Exists(Target) /\ Set(Target, Updated))
    /\ KeepPlanned
    /\ UNCHANGED setting

\* The ID becomes the name that was updated.  That it is gone is no error here.
ReadUpdated ==
    /\ pc = "readUpdated"
    /\ res' = IF Exists(Target) THEN ReadInto(FromPlan("tracked", Target)) ELSE NoResource
    /\ End
    /\ UNCHANGED <<server, setting, faults>>

ReadUpdatedFails ==
    /\ pc = "readUpdated" /\ Charge
    /\ res' = FromPlan("tracked", Target) /\ End
    /\ UNCHANGED <<server, setting>>

---------------------------------------------------------------------------
(* Delete *)

Forget == res' = NoResource /\ (IF plan = NoPlan THEN End ELSE GoTo("create"))

Delete ==
    /\ pc = "delete" /\ (kind = "original" \/ Exists(res.id))
    /\ IF kind = "original" THEN UNCHANGED accounts ELSE Set(res.id, Absent)
    /\ Forget
    /\ UNCHANGED <<enforced, setting, faults>>

DeleteRefused ==
    /\ pc = "delete" /\ kind # "original" /\ ~Exists(res.id) /\ End
    /\ UNCHANGED <<server, setting, res, faults>>

DeleteFails ==
    /\ pc = "delete" /\ kind # "original"
    /\ Unanswered(Exists(res.id) /\ Set(res.id, Absent))
    /\ End
    /\ UNCHANGED <<setting, res>>

---------------------------------------------------------------------------
(* The world around *)

\* The provider is killed: Terraform state is as before the operation.
Killed ==
    /\ pc \in {"create", "update", "delete", "readCreated", "readUpdated"} /\ Charge /\ End
    /\ UNCHANGED <<server, setting, res>>

Edit ==
    /\ pc = "idle" /\ Charge
    /\ cfg' \in {c \in Config : Configurable(c)} \ {cfg}
    /\ UNCHANGED <<server, kind, previewing, res, plan, pc>>

\* Somebody else creates, changes or drops an account.
Outsider ==
    /\ Charge
    /\ \E name \in Names, a \in Existing \cup {Absent} :
           a # accounts[name] /\ Set(name, a)
    /\ UNCHANGED <<enforced, setting, res, plan, pc>>

\* The deployment is restarted with access control.
Enforce ==
    /\ ~enforced /\ enforced' = TRUE /\ Charge
    /\ UNCHANGED <<accounts, setting, res, plan, pc>>

---------------------------------------------------------------------------
Operations ==
    \/ Create \/ Adopt \/ CreateRefused \/ CreateFails
    \/ ReadCreated \/ ReadCreatedRefused \/ ReadCreatedFails
    \/ Update \/ UpdateRefused \/ UpdateFails \/ ReadUpdated \/ ReadUpdatedFails
    \/ Delete \/ DeleteRefused \/ DeleteFails
    \/ Refresh \/ RefreshRefused \/ RefreshFails

Provider == MakePlan \/ Operations

Surroundings == Killed \/ Edit \/ Outsider \/ Enforce

Next == BeginPlan \/ Import \/ Provider \/ Surroundings

Spec == Init /\ [][Next]_vars

\* What was begun is carried through.
LiveSpec == Spec /\ WF_vars(Provider)

\* The user plans and applies again and again, and imports what a create
\* cannot make because it is there.
Helpful == WF_vars(BeginPlan) /\ SF_vars(Import)

---------------------------------------------------------------------------
(* Properties *)

\* An update changes a password only if the plan changes it, and then to the
\* planned one: never because roles were edited or an import was completed,
\* whatever others did to the password meanwhile.  (DANGER-021)
PasswordOnlyOnRotation ==
    [][pc = "update" /\ pc' # "update" =>
         \A name \in Names : accounts'[name].secret # accounts[name].secret =>
             plan.secret # res.secret /\ accounts'[name].secret = plan.secret]_vars

\* No step of the provider changes or drops an account that exists while the
\* resource is the original user: not an adoption, a replacement of a tainted
\* resource, an update that got past the plan, nor a destroy.  (DANGER-003,
\* DANGER-004, DANGER-006, ORIG-003)
OriginalIsNeverTouched ==
    [][kind = "original" /\ pc' # pc =>
         \A name \in Names : Exists(name) => accounts'[name] = accounts[name]]_vars

\* The command that reaches the server is the one the preview showed: the same
\* account, the same grants, and a password exactly when it shows one.  Two
\* cases are excepted in which it is not: a renamed db_role, which is previewed
\* under its new name, and an original user without roles, which gets root.
\* (PREVIEW-016 to PREVIEW-019, PREVIEW-024)
PreviewIsSent ==
    [][previewing /\ pc \in {"create", "update"} /\ pc' # pc =>
         \A name \in Names : accounts'[name] # accounts[name] =>
             \/ kind = "role" /\ pc = "update" /\ plan.name # res.id
             \/ kind = "original" /\ plan.grants = "none"
             \/ /\ plan.shown.verb = pc
                /\ plan.shown.name = name
                /\ plan.shown.grants = accounts'[name].grants
                /\ accounts'[name].secret # accounts[name].secret =>
                       plan.shown.pwd = (kind # "role")]_vars

Renamed == res.known = "tracked" /\ res.id # cfg.name

Settled ==
    IF cfg.wanted
    THEN /\ res.known = "tracked" /\ res.id = cfg.name /\ ~HasDiff
         /\ Exists(cfg.name) /\ accounts[cfg.name].grants = cfg.grants
    ELSE res = NoResource

\* A user or role that was dropped, changed, left tainted, created without an
\* answer or half updated comes to what is configured, and then no plan shows
\* a difference any more; only a renamed one may not.  (DANGER-022, DANGER-024,
\* DANGER-025)
Recovers == Helpful => (kind # "original" => <>[](Settled \/ Renamed))

\* The first user is in place and in state in the end, whatever was lost or
\* dropped on the way, as long as the deployment asks for no login and has no
\* user of that name with another password.  (ORIG-002, ORIG-003)
Bootable ==
    /\ cfg.wanted /\ cfg.secret # "" /\ ~enforced
    /\ Exists(cfg.name) => accounts[cfg.name].secret = cfg.secret

Bootstraps ==
    Helpful => (kind = "original" =>
        <>[](Bootable => res.known = "tracked" /\ Exists(res.id)))

\* A changed attribute of the original user stops the plan.  (DANGER-003,
\* DANGER-009)
UpdatesBlockedAtPlan == ~(kind = "original" /\ pc = "update")

\* A password that enters the state of a tracked db_user is the user's.
\* (DANGER-023)
RotationHappened ==
    [][kind = "user" /\ res.known = "tracked" /\ res'.known = "tracked"
       /\ res'.secret # res.secret => accounts'[res'.id].secret = res'.secret]_vars
=============================================================================
