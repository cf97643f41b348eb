------------------------------ MODULE Settings ------------------------------
(***************************************************************************)
(* A settings resource of one of five kinds: what it writes to the         *)
(* deployment, what it reads back and what it leaves behind.               *)
(*   "balancer"    mongodb_balancer_config     (resource_balancer_config.go)*)
(*   "collection"  mongodb_collection_balancing                            *)
(*                                       (resource_collection_balancing.go)*)
(*   "fcv"         mongodb_feature_compatibility_version (resource_fcv.go) *)
(*   "profiler"    mongodb_profiler                 (resource_profiler.go) *)
(*   "parameter"   mongodb_server_parameter (resource_server_parameter.go) *)
(* An apply is a sequence of commands, any of which may fail or lose its   *)
(* answer.  Each command writes some of the attributes; here it is the set *)
(* of the attributes it writes.                                            *)
(***************************************************************************)
EXTENDS Naturals, Sequences, FiniteSets

CONSTANTS
  Values,     \* the values attributes can have
  Usual,      \* the one a fresh server has
  Padded,     \* another text for the number Usual, such as 07 for 7
  Width,      \* how many attributes of a resource are looked at
  MaxFaults   \* failed calls, edits of the configuration, acts of others

ASSUME UsualAssumption  == Usual \in Values
ASSUME ValuesAssumption ==
    /\ Values \cup {Padded} \subseteq STRING
    /\ {Padded, "", "on", "off", "yes", "no"} \cap Values = {}
    /\ Padded \notin {"", "on", "off", "yes", "no"}
ASSUME WidthAssumption  == Width \in Nat
ASSUME FaultsAssumption == MaxFaults \in Nat

VARIABLES
  kind,     \* which resource this is
  fields,   \* its attributes that are looked at; the others stay as they are
  server,   \* what the deployment has, by attribute
  stored,   \* the document that holds the attributes exists
  modern,   \* the feature compatibility version is 6.0 or above
  cfg,      \* the configuration of the resource
  res,      \* the resource in Terraform state
  plan,     \* the plan being carried out
  pc,       \* the next step of plan and apply
  todo,     \* the commands of the operation still to send
  alone,    \* nobody else has changed anything since the plan began
  faults

deployment == <<server, stored, modern>>
setting    == <<kind, fields, cfg>>
vars == <<deployment, setting, res, plan, pc, todo, alone, faults>>

Attributes(k) ==
    CASE k = "balancer"   -> {"enabled", "window", "throttle", "wait", "chunk"}
      [] k = "collection" -> {"enabled", "chunk"}
      [] k = "fcv"        -> {"version"}
      [] k = "profiler"   -> {"level", "slowms", "ratelimit"}
      [] k = "parameter"  -> {"value"}
Kinds == {"balancer", "collection", "fcv", "profiler", "parameter"}

\* What a configuration can say of an attribute; "" is unset.
Domain(f) ==
    CASE f = "enabled"                       -> {"on", "off"}
      [] f = "wait"                          -> {"", "yes", "no"}
      [] f \in {"window", "throttle", "chunk"} -> Values \cup {""}
      [] f = "value"                         -> Values \cup {Padded}
      [] OTHER                               -> Values

\* What a server has if nobody set it, and what it makes of a value.
Default(f) == CASE f = "enabled" -> "on"
                [] f \in {"window", "throttle", "chunk", "wait"} -> ""
                [] OTHER -> Usual
\* coerceParameterValue; Read prints the number.  PARAM-008, PARAM-012
F_Coerced(v) == v
Coerced(v) == IF v = Padded THEN Usual ELSE v

Possible(F) == {v \in [F -> UNION {Domain(f) : f \in F}] : \A f \in F : v[f] \in Domain(f)}

\* flag is danger_mode of an fcv and ignore_read of a parameter.
Flags(k)    == IF k \in {"fcv", "parameter"} THEN BOOLEAN ELSE {FALSE}
Config      == [wanted : BOOLEAN, values : Possible(fields), flag : Flags(kind)]
Resource    == [known : {"tracked", "tainted"}, values : Possible(fields), flag : Flags(kind)]
NoResource  == [known |-> "none"]
Plan        == [values : Possible(fields), flag : Flags(kind)]
NoPlan      == [flag |-> FALSE]

TypeOK ==
    /\ kind \in Kinds /\ fields \in SUBSET Attributes(kind)
    /\ server \in Possible(fields) /\ (\A f \in fields : server[f] # Padded)
    /\ stored \in BOOLEAN /\ modern \in BOOLEAN /\ alone \in BOOLEAN
    /\ cfg \in Config
    /\ res \in Resource \cup {NoResource}
    /\ plan \in Plan \cup {NoPlan}
    /\ pc \in {"idle", "refresh", "plan", "apply", "delete"}
    /\ todo \in Seq(SUBSET Attributes(kind))
    /\ pc = "apply" => plan # NoPlan
    /\ pc \in {"delete", "refresh"} => res # NoResource
    /\ faults \in 0 .. MaxFaults

Init ==
    /\ kind \in Kinds
    /\ fields \in {F \in SUBSET Attributes(kind) : Cardinality(F) <= Width}
    /\ server = [f \in fields |-> Default(f)] /\ stored = (kind # "balancer")
    /\ modern \in (IF kind = "collection" THEN BOOLEAN ELSE {TRUE})
    /\ cfg \in Config
    /\ res = NoResource /\ plan = NoPlan /\ pc = "idle" /\ todo = <<>>
    /\ alone = TRUE /\ faults = 0

Charge == faults < MaxFaults /\ faults' = faults + 1

End == pc' = "idle" /\ plan' = NoPlan /\ todo' = <<>>

---------------------------------------------------------------------------
(* The commands *)

\* GetOk takes false, 0 and the empty string for unset.
Given(values, f) == f \in DOMAIN values /\ values[f] \notin {"", "no"}

Sent(values, f) == IF Given(values, f) THEN <<{f}>> ELSE <<>>

\* An attribute that is not given is not sent: what was set stays set.  Only
\* the window is taken away.  BAL-003 to BAL-007
F_BalancerCommands(values) ==
    <<{"enabled"}>> \o Sent(values, "window")
        \o Sent(values, "throttle") \o Sent(values, "wait") \o Sent(values, "chunk")
BalancerCommands(values) ==
    <<{"enabled"}, {"window"}>>
        \o Sent(values, "throttle") \o Sent(values, "wait") \o Sent(values, "chunk")

Commands(values) ==
    CASE kind = "balancer"   -> BalancerCommands(values)
      [] kind = "collection" -> <<{"enabled"} \cup {f \in {"chunk"} : Given(values, f)}>>
      [] OTHER               -> <<Attributes(kind)>>

\* The commands a plan shows.
F_BalancerPreview(values) ==
    <<{"enabled"}>> \o Sent(values, "window")
        \o Sent(values, "throttle") \o Sent(values, "chunk")
BalancerPreview(values) ==
    <<{"enabled"}>> \o Sent(values, "window")
        \o Sent(values, "throttle") \o Sent(values, "wait") \o Sent(values, "chunk")
Preview(values) ==
    IF kind = "balancer" THEN BalancerPreview(values)
    ELSE IF kind = "collection" /\ ~Given(values, "chunk") THEN <<{"enabled"}>>
    ELSE <<Attributes(kind)>>

\* The commands of a Delete; fcv and parameter have none.  BAL-009, CBAL-008,
\* PROF-008, FCV-007, PARAM-006
F_ResetCommands ==
    CASE kind = "balancer"   -> <<{"enabled"}, {"window", "throttle", "wait"}>>
      [] kind = "collection" -> <<{"enabled", "chunk"}>>
      [] kind = "profiler"   -> <<{"level"}>>
      [] OTHER               -> <<>>
ResetCommands ==
    CASE kind = "balancer"   -> <<{"enabled"}, {"window", "throttle", "wait"}, {"chunk"}>>
      [] kind = "collection" -> <<{"enabled", "chunk"}>>
      [] kind = "profiler"   -> <<{"level"}>>
      [] OTHER               -> <<>>

\* Below 6.0 only noBalance is written to the collection's document, and if
\* there is none, to nothing.  CBAL-003, CBAL-004, CBAL-007
Written(c) ==
    IF kind # "collection" THEN c
    ELSE {f \in c : stored /\ (f = "chunk" => modern)}

Target(f) == IF pc = "delete" THEN Default(f) ELSE plan.values[f]

\* The chunk size of the balancer has a document of its own.
Upserts(c) ==
    kind = "balancer" /\ \E f \in c \ {"chunk"} :
        f = "enabled" \/ (pc = "apply" /\ Given(plan.values, f))

Effect(c) ==
    /\ server' = [f \in fields |-> IF f \in Written(c) THEN Coerced(Target(f)) ELSE server[f]]
    /\ stored' = (stored \/ Upserts(c))
    /\ UNCHANGED modern

\* configureCollectionBalancing refuses what is not a sharded collection.
Refused == kind = "collection" /\ modern /\ ~stored

---------------------------------------------------------------------------
(* The plan *)

\* CustomizeDiff of the fcv: a new version needs danger_mode, but not if the
\* resource is to be created or created again.  FCV-008, FCV-009
F_PlanRefused == FALSE
PlanRefused ==
    kind = "fcv" /\ res.known = "tracked" /\ cfg.values # res.values /\ ~cfg.flag

HasDiff == cfg.values # res.values \/ cfg.flag # res.flag

BeginPlan ==
    /\ pc = "idle"
    /\ pc' = (IF res = NoResource THEN "plan" ELSE "refresh") /\ alone' = TRUE
    /\ UNCHANGED <<deployment, setting, res, plan, todo, faults>>

\* A tainted resource is destroyed and created again.
Carry(place) ==
    /\ pc' = place
    /\ plan' = IF cfg.wanted THEN [values |-> cfg.values, flag |-> cfg.flag] ELSE NoPlan
    /\ todo' = IF place = "apply" THEN Commands(cfg.values) ELSE ResetCommands

MakePlan ==
    /\ pc = "plan"
    /\ IF cfg.wanted
       THEN CASE res = NoResource          -> Carry("apply")
              [] res.known = "tainted"     -> Carry("delete")
              [] res.known = "tracked" /\ HasDiff /\ ~PlanRefused -> Carry("apply")
              [] OTHER                     -> End
       ELSE IF res = NoResource THEN End ELSE Carry("delete")
    /\ UNCHANGED <<deployment, setting, res, alone, faults>>

---------------------------------------------------------------------------
(* Read *)

\* What Read puts in place of a held value.  It passes over what the balancer
\* does not have, over a balancer without a document, over the chunk size of a
\* collection and, with ignore_read, over the parameter.  BAL-008, CBAL-005,
\* FCV-005, PROF-006, PARAM-003, PARAM-004
F_Seen(f, held, flag) ==
    IF kind = "balancer" /\ f # "enabled" /\ server[f] = "" THEN held ELSE
    IF kind = "collection" /\ f = "chunk" THEN held ELSE
    IF kind = "parameter" /\ flag THEN held ELSE server[f]
Seen(f, held, flag) ==
    CASE kind = "balancer" /\ f \in {"window", "throttle"} -> IF stored THEN server[f] ELSE held
      [] kind = "balancer" /\ f \in {"wait", "chunk"} -> IF server[f] # "" THEN server[f] ELSE held
      [] kind = "collection" /\ f = "chunk"           -> held
      [] kind = "parameter" /\ flag                   -> held
      [] OTHER                                        -> server[f]

ReadInto(known, held) ==
    IF kind = "collection" /\ ~stored THEN NoResource
    ELSE [known  |-> known,
          values |-> [f \in fields |-> Seen(f, held.values[f], held.flag)],
          flag   |-> held.flag]

Refresh ==
    /\ pc = "refresh"
    /\ res' = ReadInto(res.known, res)
    /\ pc' = "plan"
    /\ UNCHANGED <<deployment, setting, plan, todo, alone, faults>>

RefreshFails ==
    /\ pc = "refresh" /\ Charge /\ End
    /\ UNCHANGED <<deployment, setting, res, alone>>

---------------------------------------------------------------------------
(* Create, Update and Delete *)

Keep(known) == res' = [known |-> known, values |-> plan.values, flag |-> plan.flag]

\* An update that fails leaves the planned values in state, a create that fails
\* before the ID is set, nothing.
GiveUp ==
    /\ End
    /\ IF pc = "apply" /\ res # NoResource THEN Keep("tracked") ELSE UNCHANGED res

Send ==
    /\ pc \in {"apply", "delete"} /\ todo # <<>> /\ ~Refused
    /\ Effect(Head(todo)) /\ todo' = Tail(todo)
    /\ UNCHANGED <<setting, res, plan, pc, alone, faults>>

SendRefused ==
    /\ pc \in {"apply", "delete"} /\ todo # <<>> /\ Refused
    /\ GiveUp
    /\ UNCHANGED <<deployment, setting, alone, faults>>

\* The command fails, or is carried out and its answer lost.
SendFails ==
    /\ pc \in {"apply", "delete"} /\ todo # <<>> /\ Charge
    /\ \/ ~Refused /\ Effect(Head(todo))
       \/ UNCHANGED deployment
    /\ GiveUp
    /\ UNCHANGED <<setting, alone>>

\* The read that ends a create or an update.
Applied ==
    /\ pc = "apply" /\ todo = <<>>
    /\ res' = ReadInto("tracked", plan)
    /\ End
    /\ UNCHANGED <<deployment, setting, alone, faults>>

AppliedUnread ==
    /\ pc = "apply" /\ todo = <<>> /\ Charge
    /\ Keep(IF res = NoResource THEN "tainted" ELSE "tracked")
    /\ End
    /\ UNCHANGED <<deployment, setting, alone>>

Deleted ==
    /\ pc = "delete" /\ todo = <<>>
    /\ res' = NoResource
    /\ IF plan = NoPlan THEN End
       ELSE pc' = "apply" /\ todo' = Commands(plan.values) /\ UNCHANGED plan
    /\ UNCHANGED <<deployment, setting, alone, faults>>

---------------------------------------------------------------------------
(* The world around *)

\* The provider is killed: Terraform state is as before the operation.
Killed ==
    /\ pc \in {"apply", "delete"} /\ Charge /\ End
    /\ UNCHANGED <<deployment, setting, res, alone>>

Edit ==
    /\ pc = "idle" /\ Charge
    /\ cfg' \in Config \ {cfg}
    /\ UNCHANGED <<deployment, kind, fields, res, plan, pc, todo, alone>>

Others == alone' = FALSE /\ Charge /\ UNCHANGED <<setting, res, plan, pc, todo>>

\* Somebody else changes one of the attributes.
Outsider ==
    /\ Others
    /\ stored \/ kind = "balancer"
    /\ \E f \in fields : \E v \in Domain(f) :
           /\ v = Coerced(v) /\ v # server[f]
           /\ server' = [server EXCEPT ![f] = v]
    /\ stored' = TRUE /\ UNCHANGED modern

\* The balancer's document is dropped, or the collection is; or it is sharded.
Document ==
    /\ Others /\ kind \in {"balancer", "collection"}
    /\ stored' = ~stored
    /\ server' = [f \in fields |-> IF kind = "balancer" /\ f = "chunk" THEN server[f] ELSE Default(f)]
    /\ UNCHANGED modern

\* The cluster goes to or from 6.0.
Upgrade ==
    /\ Others /\ kind = "collection"
    /\ modern' = ~modern
    /\ UNCHANGED <<server, stored>>

---------------------------------------------------------------------------
Provider ==
    \/ MakePlan \/ Refresh \/ RefreshFails \/ Send \/ SendRefused \/ SendFails
    \/ Applied \/ AppliedUnread \/ Deleted

Surroundings == Killed \/ Edit \/ Outsider \/ Document \/ Upgrade

Next == BeginPlan \/ Provider \/ Surroundings

Spec == Init /\ [][Next]_vars

\* What was begun is carried through.
LiveSpec == Spec /\ WF_vars(Provider)

\* The user plans and applies again and again.
Helpful == WF_vars(BeginPlan)

---------------------------------------------------------------------------
(* Properties *)

\* Where an apply and a plan keep an attribute as configured.  They do not what
\* was taken out of a balancer's configuration again (but for the window), a
\* wait_for_delete of false (against BAL-007), a balancer setting that another removed, the chunk
\* size of a collection, a version without danger_mode, and a parameter that is
\* not read.
Upheld(f) ==
    CASE kind = "balancer"   -> \/ f = "enabled"
                                \/ f = "window" /\ stored
                                \/ f = "throttle" /\ stored /\ cfg.values[f] # ""
                                \/ f \in {"wait", "chunk"} /\ server[f] # "" /\ Given(cfg.values, f)
      [] kind = "collection" -> f = "enabled"
      [] kind = "fcv"        -> cfg.flag
      [] kind = "parameter"  -> ~cfg.flag
      [] OTHER               -> TRUE

Available == kind = "collection" => stored

\* A plan without a difference means that the deployment has what is configured
\* and that others have not touched, for all attributes that are upheld, and
\* that a version that is not upheld is right too: whatever failed, was lost,
\* edited or replaced before.  (BAL-008, CBAL-006, FCV-005, PROF-006, PARAM-003)
EmptyPlanMeansDone ==
    [][pc = "plan" /\ pc' = "idle" /\ cfg.wanted /\ alone /\ ~PlanRefused =>
          \A f \in fields :
              (Upheld(f) \/ kind = "fcv") => server[f] = Coerced(cfg.values[f])]_vars

\* What Delete promises to put back.
Restored(f) ==
    CASE kind = "balancer"   -> TRUE
      [] kind = "collection" -> f = "chunk" => modern
      [] OTHER               -> f = "level"

\* When a destroyed resource leaves state, every attribute that Delete puts
\* back has the server's default, whatever earlier tries to create, update or
\* destroy it had half done.  (BAL-009, CBAL-008, PROF-008)
DestroyRestores ==
    [][pc = "delete" /\ res # NoResource /\ res' = NoResource /\ alone /\ Available =>
          \A f \in fields : Restored(f) => server[f] = Default(f)]_vars

\* The compatibility version of a resource in state changes only if the plan
\* has danger_mode, or if somebody else changed it since the plan began: then
\* an update that changes danger_mode alone puts the old one back.  (FCV-008)
FcvGuarded ==
    [][kind = "fcv" /\ res # NoResource /\ todo' # todo /\ server' # server =>
          plan.flag \/ ~alone]_vars

Shows(values, c) == \E i \in 1 .. Len(Preview(values)) : Preview(values)[i] = c

\* Every command that changes something was shown by the plan, except for the
\* removal of the balancer's window, which is against PREVIEW-021.
\* (PREVIEW-012 to PREVIEW-014, PREVIEW-020)
PreviewShowsCommands ==
    [][pc = "apply" /\ todo' # todo /\ server' # server =>
          \/ Shows(plan.values, Head(todo))
          \/ Head(todo) = {"window"} /\ plan.values["window"] = ""]_vars

\* The deployment comes to what is configured wherever it is upheld, and a
\* resource that is not wanted is destroyed, over as many plans as it takes.
Converges ==
    Helpful =>
        <>[](/\ ~cfg.wanted => res = NoResource
             /\ cfg.wanted /\ Available =>
                  \A f \in fields : Upheld(f) => server[f] = Coerced(cfg.values[f]))
=============================================================================
