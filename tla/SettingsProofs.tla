--------------------------- MODULE SettingsProofs ---------------------------
(***************************************************************************)
(* Theorems about Settings, for every set of values, every resource with   *)
(* any of its attributes, and any number of faults.                        *)
(***************************************************************************)
EXTENDS Settings, TLAPS

---------------------------------------------------------------------------
(* The inductive invariant *)

SettingTyped == kind \in Kinds /\ fields \subseteq Attributes(kind)

\* A server keeps numbers, not their text: Padded is never read back.
ServerTyped ==
    /\ server = [f \in fields |-> server[f]]
    /\ \A f \in fields : server[f] # Padded

\* An fcv is planned from what the refresh has just read, and until somebody
\* else interferes a plan without danger_mode has the version that is there.
VersionRead ==
    kind = "fcv" /\ alone /\ res # NoResource =>
        /\ pc = "plan" => res.values = server
        /\ pc = "apply" /\ ~plan.flag => plan.values = server

Writable == {"enabled", "window", "throttle", "wait", "chunk", "version", "level", "slowms",
             "ratelimit", "value"}

\* The attributes of the commands still to send.
LeftOf(commands) == UNION {commands[i] : i \in 1 .. Len(commands)}

\* What a Delete has to put back is put back, or there is a command for it
\* still to send.
PutBack(f) == alone /\ Available /\ Restored(f) => f \in LeftOf(todo) \/ server[f] = Default(f)
DeleteProgress ==
    pc = "delete" =>
        /\ todo \in Seq(SUBSET Writable)
        /\ kind = "fcv" => todo = <<>>
        /\ \A f \in fields : PutBack(f)

Inv == SettingTyped /\ ServerTyped /\ VersionRead /\ DeleteProgress

---------------------------------------------------------------------------
(* The operators *)

LEMMA CoercedIsPlain == ASSUME NEW v PROVE Coerced(v) # Padded
BY UsualAssumption, ValuesAssumption DEF Coerced

LEMMA PlainIsCoerced == ASSUME NEW v, v # Padded PROVE Coerced(v) = v
BY DEF Coerced

LEMMA DefaultIsPlain == ASSUME NEW f PROVE Default(f) # Padded
BY UsualAssumption, ValuesAssumption DEF Default

LEMMA NothingLeft == LeftOf(<<>>) = {}
BY DEF LeftOf

LEMMA LeftStep ==
    ASSUME NEW s \in Seq(SUBSET Writable), s # <<>>
    PROVE  /\ Head(s) \in SUBSET Writable /\ Tail(s) \in Seq(SUBSET Writable)
           /\ \A f \in LeftOf(s) : f \in Head(s) \/ f \in LeftOf(Tail(s))
<1>1. Head(s) = s[1] /\ Len(s) \in Nat /\ Len(s) > 0 /\ Head(s) \in SUBSET Writable
  OBVIOUS
<1>2. Tail(s) \in Seq(SUBSET Writable) /\ Len(Tail(s)) = Len(s) - 1
      /\ \A i \in 1 .. Len(s) - 1 : Tail(s)[i] = s[i + 1]
  OBVIOUS
<1>3. ASSUME NEW f \in LeftOf(s), f \notin Head(s) PROVE f \in LeftOf(Tail(s))
  <2>1. PICK i \in 1 .. Len(s) : f \in s[i]
    BY <1>3 DEF LeftOf
  <2>2. i # 1
    BY <1>1, <1>3, <2>1
  <2>3. i - 1 \in 1 .. Len(Tail(s)) /\ Tail(s)[i - 1] = s[i]
    BY <1>1, <1>2, <2>1, <2>2
  <2> QED BY <2>1, <2>3 DEF LeftOf
<1> QED BY <1>1, <1>2, <1>3

\* Delete has a command for everything it promises to put back.
LEMMA ResetComplete ==
    ASSUME SettingTyped
    PROVE  /\ ResetCommands \in Seq(SUBSET Writable)
           /\ kind = "fcv" => ResetCommands = <<>>
           /\ \A f \in fields : Restored(f) => f \in LeftOf(ResetCommands)
<1>1. CASE kind = "balancer"
  <2>1. ResetCommands = <<{"enabled"}, {"window", "throttle", "wait"}, {"chunk"}>>
    BY <1>1 DEF ResetCommands
  <2>2. fields \subseteq {"enabled", "window", "throttle", "wait", "chunk"}
    BY <1>1 DEF SettingTyped, Attributes
  <2>3. LeftOf(ResetCommands) = {"enabled", "window", "throttle", "wait", "chunk"}
    BY <2>1 DEF LeftOf
  <2>4. ResetCommands \in Seq(SUBSET Writable)
    <3>1. {"enabled"} \in SUBSET Writable /\ {"window", "throttle", "wait"} \in SUBSET Writable
          /\ {"chunk"} \in SUBSET Writable
      BY DEF Writable
    <3> QED BY <2>1, <3>1
  <2>5. kind # "fcv"
    BY <1>1
  <2> QED BY <2>2, <2>3, <2>4, <2>5
<1>2. CASE kind = "collection"
  <2>1. ResetCommands = <<{"enabled", "chunk"}>>
    BY <1>2 DEF ResetCommands
  <2>2. fields \subseteq {"enabled", "chunk"}
    BY <1>2 DEF SettingTyped, Attributes
  <2>3. LeftOf(ResetCommands) = {"enabled", "chunk"}
    BY <2>1 DEF LeftOf
  <2>4. ResetCommands \in Seq(SUBSET Writable)
    <3>1. {"enabled", "chunk"} \in SUBSET Writable
      BY DEF Writable
    <3> QED BY <2>1, <3>1
  <2>5. kind # "fcv"
    BY <1>2
  <2> QED BY <2>2, <2>3, <2>4, <2>5
<1>3. CASE kind = "profiler"
  <2>1. ResetCommands = <<{"level"}>>
    BY <1>3 DEF ResetCommands
  <2>2. LeftOf(ResetCommands) = {"level"}
    BY <2>1 DEF LeftOf
  <2>3. \A f \in fields : Restored(f) => f = "level"
    BY <1>3 DEF Restored
  <2>4. ResetCommands \in Seq(SUBSET Writable)
    <3>1. {"level"} \in SUBSET Writable
      BY DEF Writable
    <3> QED BY <2>1, <3>1
  <2>5. kind # "fcv"
    BY <1>3
  <2> QED BY <2>2, <2>3, <2>4, <2>5
<1>4. CASE kind \in {"fcv", "parameter"}
  <2>1. ResetCommands = <<>>
    BY <1>4 DEF ResetCommands
  <2>2. fields \subseteq {"version", "value"}
    BY <1>4 DEF SettingTyped, Attributes
  <2>3. \A f \in fields : ~Restored(f)
    BY <1>4, <2>2 DEF Restored
  <2> QED BY <2>1, <2>3
<1> QED BY <1>1, <1>2, <1>3, <1>4 DEF SettingTyped, Kinds

\* A command leaves no text of a number behind, and changes nothing if it says
\* what is there.
LEMMA EffectKeeps ==
    ASSUME SettingTyped, ServerTyped, NEW c, Effect(c), UNCHANGED fields
    PROVE  /\ ServerTyped'
           /\ pc = "apply" /\ plan.values = server => server' = server
<1>1. server' = [f \in fields |-> IF f \in Written(c) THEN Coerced(Target(f)) ELSE server[f]]
  BY DEF Effect
<1>2. ServerTyped'
  BY <1>1, CoercedIsPlain DEF ServerTyped
<1>3. ASSUME pc = "apply", plan.values = server PROVE server' = server
  <2>1. \A f \in fields : Target(f) = server[f]
    BY <1>3 DEF Target
  <2>2. \A f \in fields : Coerced(Target(f)) = server[f]
    BY <2>1, PlainIsCoerced DEF ServerTyped
  <2>3. server' = [f \in fields |-> server[f]]
    BY <1>1, <2>2
  <2> QED BY <2>3 DEF ServerTyped
<1> QED BY <1>2, <1>3

---------------------------------------------------------------------------
(* The steps *)

LEMMA InvInit == Init => Inv
<1> SUFFICES ASSUME Init PROVE Inv
  OBVIOUS
<1>1. kind \in Kinds /\ fields \subseteq Attributes(kind) /\ pc = "idle"
      /\ server = [f \in fields |-> Default(f)]
  BY DEF Init
<1>2. ServerTyped
  BY <1>1, DefaultIsPlain DEF ServerTyped
<1> QED BY <1>1, <1>2 DEF Inv, SettingTyped, VersionRead, DeleteProgress

\* An operation that ends, well or not.
LEMMA EndingStep ==
    ASSUME Inv, UNCHANGED <<kind, fields>>, pc' = "idle", ServerTyped'
    PROVE  Inv'
BY DEF Inv, SettingTyped, VersionRead, DeleteProgress

\* A step that leaves the deployment alone.
LEMMA ServerKept ==
    ASSUME Inv, UNCHANGED <<kind, fields, server>>
    PROVE  SettingTyped' /\ ServerTyped'
BY DEF Inv, SettingTyped, ServerTyped

LEMMA PlanningStep ==
    ASSUME Inv, BeginPlan \/ Refresh \/ RefreshFails
    PROVE  Inv'
<1>1. UNCHANGED <<kind, fields, server>>
  BY DEF BeginPlan, Refresh, RefreshFails, deployment, setting
<1>2. CASE BeginPlan
  <2>1. pc' \in {"plan", "refresh"} /\ (pc' = "plan" => res' = NoResource)
    BY <1>2 DEF BeginPlan
  <2> QED BY <1>1, <2>1, ServerKept DEF Inv, VersionRead, DeleteProgress
<1>3. CASE Refresh
  <2>1. pc' = "plan" /\ res' = ReadInto(res.known, res)
    BY <1>3 DEF Refresh
  <2>2. kind = "fcv" => \A f \in fields : \A h, g : Seen(f, h, g) = server[f]
    BY DEF Seen
  <2>3. ASSUME kind = "fcv" PROVE res'.values = server
    <3>1. res'.values = [f \in fields |-> Seen(f, res.values[f], res.flag)]
      BY <2>1, <2>3 DEF ReadInto
    <3>2. res'.values = [f \in fields |-> server[f]]
      BY <2>2, <2>3, <3>1
    <3> QED BY <3>2 DEF Inv, ServerTyped
  <2> QED BY <1>1, <2>1, <2>3, ServerKept DEF Inv, VersionRead, DeleteProgress
<1>4. CASE RefreshFails
  BY <1>1, <1>4, ServerKept, EndingStep DEF RefreshFails, End
<1> QED BY <1>2, <1>3, <1>4

LEMMA MakePlanStep == ASSUME Inv, MakePlan PROVE Inv'
<1>1. UNCHANGED <<deployment, setting, res, alone>> /\ pc = "plan"
  BY DEF MakePlan
<1>2. UNCHANGED <<kind, fields, server, stored, modern>>
  BY <1>1 DEF deployment, setting
<1>3. \/ End
      \/ /\ Carry("apply") /\ cfg.wanted
         /\ res = NoResource \/ (res.known = "tracked" /\ ~PlanRefused)
      \/ Carry("delete")
  BY DEF MakePlan
<1>4. CASE End
  BY <1>2, <1>4, ServerKept, EndingStep DEF End
<1>5. CASE /\ Carry("apply") /\ cfg.wanted
           /\ res = NoResource \/ (res.known = "tracked" /\ ~PlanRefused)
  <2>1. pc' = "apply" /\ plan' = [values |-> cfg.values, flag |-> cfg.flag]
    BY <1>5 DEF Carry
  <2>2. ASSUME kind = "fcv", alone, res # NoResource, ~cfg.flag PROVE cfg.values = server
    <3>1. cfg.values = res.values
      BY <1>5, <2>2 DEF PlanRefused
    <3> QED BY <1>1, <2>2, <3>1 DEF Inv, VersionRead
  <2> QED BY <1>1, <1>2, <2>1, <2>2, ServerKept DEF Inv, VersionRead, DeleteProgress
<1>6. CASE Carry("delete")
  <2>1. pc' = "delete" /\ todo' = ResetCommands
    BY <1>6 DEF Carry
  <2>2. SettingTyped
    BY DEF Inv
  <2>3. ASSUME NEW f \in fields' PROVE PutBack(f)'
    <3>1. Restored(f)' => Restored(f)
      BY <1>2 DEF Restored
    <3>2. Restored(f) => f \in LeftOf(todo')
      BY <1>2, <2>1, <2>2, ResetComplete
    <3> QED BY <3>1, <3>2 DEF PutBack, LeftOf
  <2> QED BY <1>2, <2>1, <2>2, <2>3, ServerKept, ResetComplete DEF Inv, VersionRead, DeleteProgress
<1> QED BY <1>3, <1>4, <1>5, <1>6

\* A Delete puts back what its command is about.
LEMMA ResetStep ==
    ASSUME Inv, Send, pc = "delete"
    PROVE  Inv'
<1>1. /\ todo # <<>> /\ ~Refused /\ Effect(Head(todo)) /\ todo' = Tail(todo)
      /\ UNCHANGED <<kind, fields, res, plan, pc, alone>>
  BY DEF Send, setting
<1>2. todo \in Seq(SUBSET Writable) /\ kind # "fcv"
  BY <1>1 DEF Inv, DeleteProgress
<1>3. SettingTyped' /\ ServerTyped'
  BY <1>1, EffectKeeps DEF Inv, SettingTyped
<1>4. server' = [f \in fields |-> IF f \in Written(Head(todo)) THEN Coerced(Target(f)) ELSE server[f]]
      /\ UNCHANGED modern /\ (kind = "collection" /\ stored' => stored)
  BY <1>1 DEF Effect, Upserts
<1>5. ASSUME NEW f \in fields, alone, Available', Restored(f)'
      PROVE  f \in LeftOf(todo') \/ server'[f] = Default(f)
  <2>1. Available /\ Restored(f)
    BY <1>1, <1>4, <1>5 DEF Available, Restored
  <2>2. Coerced(Target(f)) = Default(f)
    BY DefaultIsPlain, PlainIsCoerced DEF Target
  <2>3. CASE f \in Head(todo)
    <3>1. f \in Written(Head(todo))
      BY <2>1, <2>3 DEF Written, Available, Restored
    <3> QED BY <1>4, <2>2, <3>1
  <2>4. CASE f \notin Head(todo)
    <3>1. f \in LeftOf(todo) => f \in LeftOf(todo')
      BY <1>1, <1>2, <2>4, LeftStep
    <3>2. server[f] = Default(f) => server'[f] = Default(f)
      BY <1>4, <2>2
    <3>3. f \in LeftOf(todo) \/ server[f] = Default(f)
      BY <1>5, <2>1 DEF Inv, DeleteProgress, PutBack
    <3> QED BY <3>1, <3>2, <3>3
  <2> QED BY <2>3, <2>4
<1>6. \A f \in fields' : PutBack(f)'
  BY <1>1, <1>5 DEF PutBack, LeftOf, Default
<1>7. todo' \in Seq(SUBSET Writable)
  BY <1>1, <1>2, LeftStep
<1> QED BY <1>1, <1>2, <1>3, <1>6, <1>7 DEF Inv, VersionRead, DeleteProgress

LEMMA SendStep == ASSUME Inv, Send, pc = "apply" PROVE Inv'
<1>1. Effect(Head(todo)) /\ UNCHANGED <<kind, fields, res, plan, pc, alone>>
  BY DEF Send, setting
<1>2. SettingTyped' /\ ServerTyped'
      /\ (plan.values = server => server' = server)
  BY <1>1, EffectKeeps DEF Inv, SettingTyped
<1> QED BY <1>1, <1>2 DEF Inv, VersionRead, DeleteProgress

LEMMA GiveUpStep == ASSUME Inv, SendRefused \/ SendFails PROVE Inv'
<1>1. UNCHANGED <<kind, fields>> /\ pc' = "idle"
  BY DEF SendRefused, SendFails, GiveUp, End, setting
<1>2. UNCHANGED server \/ Effect(Head(todo))
  BY DEF SendRefused, SendFails, deployment
<1>3. ServerTyped'
  BY <1>1, <1>2, ServerKept, EffectKeeps DEF Inv
<1> QED BY <1>1, <1>3, EndingStep

LEMMA FinishStep == ASSUME Inv, Applied \/ AppliedUnread \/ Deleted \/ Killed PROVE Inv'
<1>1. UNCHANGED <<kind, fields, server>>
  BY DEF Applied, AppliedUnread, Deleted, Killed, deployment, setting
<1>2. SettingTyped' /\ ServerTyped'
  BY <1>1, ServerKept
<1>3. pc' = "idle" \/ (pc' = "apply" /\ res' = NoResource)
  BY DEF Applied, AppliedUnread, Deleted, Killed, End
<1>4. CASE pc' = "idle"
  BY <1>1, <1>2, <1>4, EndingStep
<1>5. CASE pc' = "apply" /\ res' = NoResource
  BY <1>2, <1>5 DEF Inv, VersionRead, DeleteProgress
<1> QED BY <1>3, <1>4, <1>5

LEMMA SurroundingsStep == ASSUME Inv, Edit \/ Outsider \/ Document \/ Upgrade PROVE Inv'
<1>1. CASE Edit
  <2>1. UNCHANGED <<kind, fields, server>> /\ pc' = "idle"
    BY <1>1 DEF Edit, deployment
  <2> QED BY <2>1, ServerKept, EndingStep
<1>2. CASE Outsider \/ Document \/ Upgrade
  <2>1. UNCHANGED <<kind, fields, pc, todo>> /\ alone' = FALSE
    BY <1>2 DEF Outsider, Document, Upgrade, Others, setting
  <2>2. ServerTyped'
    <3>1. CASE Outsider
      <4>1. PICK f \in fields : \E v : v = Coerced(v) /\ server' = [server EXCEPT ![f] = v]
        BY <3>1 DEF Outsider
      <4>2. PICK v : v = Coerced(v) /\ server' = [server EXCEPT ![f] = v]
        BY <4>1
      <4>3. v # Padded
        BY <4>2, CoercedIsPlain
      <4> QED BY <2>1, <4>2, <4>3 DEF Inv, ServerTyped
    <3>2. CASE Document
      <4>1. server' = [f \in fields |-> IF kind = "balancer" /\ f = "chunk" THEN server[f]
                                        ELSE Default(f)]
        BY <3>2 DEF Document
      <4> QED BY <2>1, <4>1, DefaultIsPlain DEF Inv, ServerTyped
    <3>3. CASE Upgrade
      BY <2>1, <3>3 DEF Upgrade, Inv, ServerTyped
    <3> QED BY <1>2, <3>1, <3>2, <3>3
  <2>3. SettingTyped'
    BY <2>1 DEF Inv, SettingTyped
  <2>4. DeleteProgress'
    BY <2>1 DEF Inv, DeleteProgress, PutBack
  <2> QED BY <2>1, <2>2, <2>3, <2>4 DEF Inv, VersionRead
<1> QED BY <1>1, <1>2

LEMMA InvNext == Inv /\ [Next]_vars => Inv'
<1> SUFFICES ASSUME Inv, [Next]_vars PROVE Inv'
  OBVIOUS
<1>1. CASE UNCHANGED vars
  <2>1. UNCHANGED <<kind, fields, server, stored, modern, res, plan, pc, todo, alone>>
    BY <1>1 DEF vars, deployment, setting
  <2>2. VersionRead'
    BY <2>1 DEF Inv, VersionRead
  <2>3. \A f \in fields : PutBack(f)' <=> PutBack(f)
    BY <2>1 DEF PutBack, LeftOf, Available, Restored, Default
  <2>4. DeleteProgress'
    BY <2>1, <2>3 DEF Inv, DeleteProgress
  <2> QED BY <2>1, <2>2, <2>4, ServerKept DEF Inv
<1>2. CASE Send
  <2>1. pc \in {"apply", "delete"}
    BY <1>2 DEF Send
  <2> QED BY <1>2, <2>1, SendStep, ResetStep
<1>3. CASE Next /\ ~Send
  BY <1>3, PlanningStep, MakePlanStep, GiveUpStep, FinishStep, SurroundingsStep
     DEF Next, Provider, Surroundings
<1> QED BY <1>1, <1>2, <1>3

---------------------------------------------------------------------------
\* The inductive invariant holds at every moment.
THEOREM Invariance == Spec => []Inv
BY InvInit, InvNext, PTL DEF Spec

\* The commands are sent one by one.
LEMMA Senders ==
    ASSUME [Next]_vars, todo' # todo, server' # server
    PROVE  /\ pc \in {"apply", "delete"} /\ todo # <<>>
           /\ Effect(Head(todo)) /\ UNCHANGED fields
<1>1. CASE Send \/ SendFails
  BY <1>1 DEF Send, SendFails, deployment, setting
<1>2. CASE BeginPlan \/ MakePlan \/ Refresh \/ RefreshFails \/ SendRefused
           \/ Applied \/ AppliedUnread \/ Deleted
  BY <1>2 DEF BeginPlan, MakePlan, Refresh, RefreshFails, SendRefused, Applied, AppliedUnread,
     Deleted, deployment
<1>3. CASE Surroundings
  BY <1>3 DEF Surroundings, Killed, Edit, Outsider, Document, Upgrade, Others, deployment
<1> QED BY <1>1, <1>2, <1>3 DEF Next, Provider, vars

\* No update of a compatibility version that is in state changes the one of the
\* deployment without danger_mode, unless somebody else did so since the plan
\* began.
THEOREM VersionNeedsDangerMode == Spec => FcvGuarded
<1>1. Inv /\ [Next]_vars =>
          (kind = "fcv" /\ res # NoResource /\ todo' # todo /\ server' # server =>
             plan.flag \/ ~alone)
  <2> SUFFICES ASSUME Inv, [Next]_vars, kind = "fcv", res # NoResource, todo' # todo,
                      server' # server, alone
               PROVE  plan.flag
    OBVIOUS
  <2>1. pc = "apply" /\ Effect(Head(todo)) /\ UNCHANGED fields
    BY Senders DEF Inv, DeleteProgress
  <2>2. plan.values # server
    BY <2>1, EffectKeeps DEF Inv
  <2> QED BY <2>1, <2>2 DEF Inv, VersionRead
<1> QED BY <1>1, Invariance, PTL DEF Spec, FcvGuarded

\* A resource that was destroyed leaves defaults wherever Delete promises them,
\* however many commands that takes and whatever was half done before.
THEOREM DestroyIsComplete == Spec => DestroyRestores
<1>1. Inv /\ [Next]_vars =>
          (pc = "delete" /\ res # NoResource /\ res' = NoResource /\ alone /\ Available =>
             \A f \in fields : Restored(f) => server[f] = Default(f))
  <2> SUFFICES ASSUME Inv, [Next]_vars, pc = "delete", res # NoResource, res' = NoResource,
                      alone, Available, NEW f \in fields, Restored(f)
               PROVE  server[f] = Default(f)
    OBVIOUS
  <2>1. todo = <<>>
    <3>1. CASE Deleted
      BY <3>1 DEF Deleted
    <3>2. CASE BeginPlan \/ MakePlan \/ Refresh \/ RefreshFails \/ Applied \/ AppliedUnread
      BY <3>2 DEF BeginPlan, MakePlan, Refresh, RefreshFails, Applied, AppliedUnread
    <3>3. CASE Send \/ SendRefused \/ SendFails
      BY <3>3 DEF Send, SendRefused, SendFails, GiveUp
    <3>4. CASE Surroundings
      BY <3>4 DEF Surroundings, Killed, Edit, Outsider, Document, Upgrade, Others
    <3> QED BY <3>1, <3>2, <3>3, <3>4 DEF Next, Provider, vars
  <2>2. PutBack(f)
    BY DEF Inv, DeleteProgress
  <2> QED BY <2>1, <2>2, NothingLeft DEF PutBack
<1> QED BY <1>1, Invariance, PTL DEF Spec, DestroyRestores

---------------------------------------------------------------------------
(* Types *)

LEMMA PossibleIs ==
    ASSUME NEW F, NEW v, v = [f \in F |-> v[f]], \A f \in F : v[f] \in Domain(f)
    PROVE  v \in Possible(F)
BY DEF Possible

LEMMA PossibleHas ==
    ASSUME NEW F, NEW v \in Possible(F)
    PROVE  v = [f \in F |-> v[f]] /\ \A f \in F : v[f] \in Domain(f)
BY DEF Possible

LEMMA DefaultInDomain ==
    ASSUME NEW k \in Kinds, NEW f \in Attributes(k)
    PROVE  Default(f) \in Domain(f)
BY UsualAssumption, ValuesAssumption DEF Kinds, Attributes, Default, Domain

LEMMA CoercedInDomain ==
    ASSUME NEW f, NEW v \in Domain(f)
    PROVE  Coerced(v) \in Domain(f)
<1>1. CASE v # Padded
  BY <1>1 DEF Coerced
<1>2. CASE v = Padded
  <2>1. f = "value"
    BY <1>2, ValuesAssumption DEF Domain
  <2>2. Domain(f) = Values \cup {Padded}
    BY <2>1 DEF Domain
  <2> QED BY <1>2, <2>2, UsualAssumption DEF Coerced
<1> QED BY <1>1, <1>2

LEMMA EffectTyped ==
    ASSUME TypeOK, pc \in {"apply", "delete"}, NEW c, Effect(c)
    PROVE  /\ server' \in Possible(fields) /\ (\A f \in fields : server'[f] # Padded)
           /\ stored' \in BOOLEAN /\ modern' \in BOOLEAN
<1>1. /\ server' = [f \in fields |-> IF f \in Written(c) THEN Coerced(Target(f)) ELSE server[f]]
      /\ stored' = (stored \/ Upserts(c)) /\ modern' = modern
  BY DEF Effect
<1>2. ASSUME NEW f \in fields PROVE Target(f) \in Domain(f)
  <2>1. CASE pc = "delete"
    BY <2>1, DefaultInDomain DEF Target, TypeOK
  <2>2. CASE pc = "apply"
    <3>1. plan.values \in Possible(fields)
      BY <2>2 DEF TypeOK, Plan
    <3> QED BY <2>2, <3>1, PossibleHas DEF Target
  <2> QED BY <2>1, <2>2
<1>3. server \in Possible(fields) /\ \A f \in fields : server[f] # Padded
  BY DEF TypeOK
<1>4. \A f \in fields : server'[f] \in Domain(f) /\ server'[f] # Padded
  BY <1>1, <1>2, <1>3, PossibleHas, CoercedInDomain, CoercedIsPlain
<1>5. server' \in Possible(fields)
  BY <1>1, <1>4, PossibleIs
<1> QED BY <1>1, <1>4, <1>5 DEF TypeOK

\* A command is a set of attributes of the resource.
LEMMA CommandsTyped ==
    ASSUME kind \in Kinds, NEW values
    PROVE  /\ Commands(values) \in Seq(SUBSET Attributes(kind))
           /\ ResetCommands \in Seq(SUBSET Attributes(kind))
<1>1. CASE kind = "balancer"
  <2> DEFINE A == SUBSET Attributes(kind)
  <2>1. Attributes(kind) = {"enabled", "window", "throttle", "wait", "chunk"}
    BY <1>1 DEF Attributes
  <2>2. /\ {"enabled"} \in A /\ {"window"} \in A /\ {"throttle"} \in A /\ {"wait"} \in A
        /\ {"chunk"} \in A /\ {"window", "throttle", "wait"} \in A
    BY <2>1
  <2> HIDE DEF A
  <2>3. ResetCommands \in Seq(A)
    BY <1>1, <2>2 DEF ResetCommands
  <2>4. /\ Sent(values, "throttle") \in Seq(A) /\ Sent(values, "wait") \in Seq(A)
        /\ Sent(values, "chunk") \in Seq(A) /\ <<{"enabled"}, {"window"}>> \in Seq(A)
    BY <2>2 DEF Sent
  <2>5. BalancerCommands(values) \in Seq(A)
    BY <2>4 DEF BalancerCommands
  <2> QED BY <1>1, <2>3, <2>5 DEF Commands, A
<1>2. CASE kind = "collection"
  BY <1>2 DEF Commands, ResetCommands, Attributes
<1>3. CASE kind \in {"fcv", "profiler", "parameter"}
  <2> DEFINE A == SUBSET Attributes(kind)
  <2>1. Attributes(kind) \in A /\ (kind = "profiler" => {"level"} \in A)
    BY DEF Attributes
  <2> HIDE DEF A
  <2>2. Commands(values) = <<Attributes(kind)>>
    BY <1>3 DEF Commands
  <2>3. ResetCommands = IF kind = "profiler" THEN <<{"level"}>> ELSE <<>>
    BY <1>3 DEF ResetCommands
  <2>4. Commands(values) \in Seq(A) /\ ResetCommands \in Seq(A)
    BY <2>1, <2>2, <2>3
  <2> QED BY <2>4 DEF A
<1> QED BY <1>1, <1>2, <1>3 DEF Kinds

LEMMA ConfigIsPlan ==
    ASSUME cfg \in Config
    PROVE  [values |-> cfg.values, flag |-> cfg.flag] \in Plan
BY DEF Config, Plan

LEMMA PlanIsSome == ASSUME NEW p \in Plan PROVE p # NoPlan
<1>1. DOMAIN p = {"values", "flag"} /\ DOMAIN NoPlan = {"flag"}
  BY DEF Plan, NoPlan
<1> QED BY <1>1

LEMMA ResourceIsSome == ASSUME NEW r \in Resource PROVE r # NoResource
BY DEF Resource, NoResource

LEMMA ReadTyped ==
    ASSUME TypeOK, NEW k \in {"tracked", "tainted"}, NEW held,
           held.values \in Possible(fields), held.flag \in Flags(kind)
    PROVE  ReadInto(k, held) \in Resource \cup {NoResource}
<1> DEFINE values == [f \in fields |-> Seen(f, held.values[f], held.flag)]
<1>1. \A f \in fields : server[f] \in Domain(f) /\ held.values[f] \in Domain(f)
  BY PossibleHas DEF TypeOK
<1>2. \A f \in fields : values[f] \in Domain(f)
  BY <1>1 DEF Seen
<1>3. values \in Possible(fields)
  <2>1. values = [f \in fields |-> values[f]]
    OBVIOUS
  <2> HIDE DEF values
  <2> QED BY <1>2, <2>1, PossibleIs
<1> HIDE DEF values
<1>4. [known |-> k, values |-> values, flag |-> held.flag] \in Resource
  BY <1>3 DEF Resource
<1> QED BY <1>4 DEF ReadInto, values

\* The part of the types an operation changes, and the part only the
\* configuration changes.
SettingOK == /\ kind \in Kinds /\ fields \in SUBSET Attributes(kind) /\ cfg \in Config
ServerOK  == /\ server \in Possible(fields) /\ (\A f \in fields : server[f] # Padded)
             /\ stored \in BOOLEAN /\ modern \in BOOLEAN
OperationOK ==
    /\ alone \in BOOLEAN /\ faults \in 0 .. MaxFaults
    /\ res \in Resource \cup {NoResource}
    /\ plan \in Plan \cup {NoPlan}
    /\ pc \in {"idle", "refresh", "plan", "apply", "delete"}
    /\ todo \in Seq(SUBSET Attributes(kind))
    /\ pc = "apply" => plan # NoPlan
    /\ pc \in {"delete", "refresh"} => res # NoResource

LEMMA TypeParts == TypeOK <=> SettingOK /\ ServerOK /\ OperationOK
BY DEF TypeOK, SettingOK, ServerOK, OperationOK

LEMMA TypePartsNext == SettingOK' /\ ServerOK' /\ OperationOK' => TypeOK'
BY DEF TypeOK, SettingOK, ServerOK, OperationOK

LEMMA TypeInit == Init => TypeOK
<1> SUFFICES ASSUME Init PROVE TypeOK
  OBVIOUS
<1>1. kind \in Kinds /\ fields \in SUBSET Attributes(kind)
  BY DEF Init
<1>2. server = [f \in fields |-> Default(f)]
  BY DEF Init
<1>3. \A f \in fields : server[f] \in Domain(f) /\ server[f] # Padded
  BY <1>1, <1>2, DefaultInDomain, DefaultIsPlain
<1>4. server \in Possible(fields)
  BY <1>2, <1>3, PossibleIs
<1>5. SettingOK
  BY <1>1 DEF Init, SettingOK
<1>6. stored \in BOOLEAN /\ modern \in BOOLEAN
  BY DEF Init
<1>7. ServerOK
  BY <1>3, <1>4, <1>6 DEF ServerOK
<1>8. OperationOK
  BY FaultsAssumption DEF Init, OperationOK
<1> QED BY <1>5, <1>7, <1>8, TypeParts

LEMMA ChargeTyped == ASSUME TypeOK, Charge PROVE faults' \in 0 .. MaxFaults
BY FaultsAssumption DEF TypeOK, Charge

LEMMA KeepTyped ==
    ASSUME TypeOK, pc = "apply", NEW k \in {"tracked", "tainted"}, Keep(k)
    PROVE  res' \in Resource
BY DEF TypeOK, Keep, Plan, Resource

LEMMA GiveUpTyped ==
    ASSUME TypeOK, GiveUp
    PROVE  /\ pc' = "idle" /\ plan' = NoPlan /\ todo' = <<>>
           /\ res' \in Resource \cup {NoResource}
<1>1. CASE pc = "apply" /\ res # NoResource
  BY <1>1, KeepTyped DEF GiveUp, End
<1>2. CASE ~(pc = "apply" /\ res # NoResource)
  BY <1>2 DEF GiveUp, End, TypeOK
<1> QED BY <1>1, <1>2

LEMMA SettingKept ==
    ASSUME TypeOK, UNCHANGED setting
    PROVE  /\ SettingOK' /\ UNCHANGED <<kind, fields, cfg>>
           /\ Resource' = Resource /\ Plan' = Plan
BY DEF TypeOK, SettingOK, setting, Config, Resource, Plan

LEMMA DeploymentKept ==
    ASSUME TypeOK, UNCHANGED <<deployment, setting>>
    PROVE  ServerOK'
BY DEF TypeOK, ServerOK, setting, deployment

LEMMA CarryTyped ==
    ASSUME TypeOK, NEW place, Carry(place)
    PROVE  /\ plan' \in Plan \cup {NoPlan} /\ todo' \in Seq(SUBSET Attributes(kind))
           /\ cfg.wanted => plan' # NoPlan
<1>1. cfg \in Config /\ kind \in Kinds
  BY DEF TypeOK
<1>2. todo' \in Seq(SUBSET Attributes(kind))
  BY <1>1, CommandsTyped DEF Carry
<1>3. CASE cfg.wanted
  <2>1. plan' = [values |-> cfg.values, flag |-> cfg.flag]
    BY <1>3 DEF Carry
  <2> QED BY <1>1, <1>2, <2>1, ConfigIsPlan, PlanIsSome
<1>4. CASE ~cfg.wanted
  BY <1>2, <1>4 DEF Carry
<1> QED BY <1>3, <1>4

LEMMA ProviderTyped ==
    ASSUME TypeOK, BeginPlan \/ Provider \/ Killed
    PROVE  TypeOK'
<1>1. UNCHANGED setting
  BY DEF BeginPlan, Provider, Killed, MakePlan, Refresh, RefreshFails, Send, SendRefused, SendFails,
         Applied, AppliedUnread, Deleted
<1>2. /\ SettingOK' /\ UNCHANGED <<kind, fields, cfg>>
      /\ Resource' = Resource /\ Plan' = Plan /\ Attributes(kind)' = Attributes(kind)
  BY <1>1, SettingKept
<1>3. ServerOK'
  <2>1. CASE UNCHANGED deployment
    BY <1>1, <2>1, DeploymentKept
  <2>2. CASE pc \in {"apply", "delete"} /\ Effect(Head(todo))
    BY <1>2, <2>2, EffectTyped DEF ServerOK
  <2> QED BY <2>1, <2>2 DEF BeginPlan, Provider, Killed, MakePlan, Refresh, RefreshFails, Send,
        SendRefused, SendFails, Applied, AppliedUnread, Deleted
<1> DEFINE Op == /\ alone' \in BOOLEAN /\ faults' \in 0 .. MaxFaults
                 /\ res' \in Resource \cup {NoResource}
                 /\ plan' \in Plan \cup {NoPlan}
                 /\ pc' \in {"idle", "refresh", "plan", "apply", "delete"}
                 /\ todo' \in Seq(SUBSET Attributes(kind))
                 /\ pc' = "apply" => plan' # NoPlan
                 /\ pc' \in {"delete", "refresh"} => res' # NoResource
<1>4. SUFFICES Op
  <2>1. ASSUME Op PROVE OperationOK'
    BY <1>2, <2>1 DEF OperationOK
  <2> QED BY <1>2, <1>3, <2>1, TypePartsNext
<1>5. OperationOK /\ <<>> \in Seq(SUBSET Attributes(kind)) /\ SettingOK
  BY TypeParts
<1>6. CASE BeginPlan
  BY <1>5, <1>6 DEF BeginPlan, OperationOK
<1>7. CASE MakePlan
  <2>1. UNCHANGED <<res, alone, faults>>
    BY <1>7 DEF MakePlan
  <2>2. \/ End
        \/ Carry("apply") /\ cfg.wanted
        \/ Carry("delete") /\ res # NoResource
    <3>1. CASE cfg.wanted /\ res # NoResource /\ res.known = "tainted"
      BY <1>7, <3>1 DEF MakePlan
    <3>2. CASE cfg.wanted /\ (res = NoResource \/ res.known # "tainted")
      BY <1>7, <3>2 DEF MakePlan, NoResource
    <3>3. CASE ~cfg.wanted
      BY <1>7, <3>3 DEF MakePlan
    <3> QED BY <3>1, <3>2, <3>3
  <2>3. CASE End
    BY <1>5, <2>1, <2>3 DEF End, OperationOK
  <2>4. CASE Carry("apply") /\ cfg.wanted
    <3>1. pc' = "apply"
      BY <2>4 DEF Carry
    <3> QED BY <1>5, <2>1, <2>4, <3>1, CarryTyped DEF OperationOK
  <2>5. CASE Carry("delete") /\ res # NoResource
    <3>1. pc' = "delete"
      BY <2>5 DEF Carry
    <3> QED BY <1>5, <2>1, <2>5, <3>1, CarryTyped DEF OperationOK
  <2> QED BY <2>2, <2>3, <2>4, <2>5
<1>8. CASE Refresh
  <2>1. pc' = "plan" /\ res' = ReadInto(res.known, res) /\ UNCHANGED <<plan, todo, alone, faults>>
    BY <1>8 DEF Refresh
  <2>2. res \in Resource
    BY <1>8 DEF Refresh, TypeOK
  <2>3. res.known \in {"tracked", "tainted"} /\ res.values \in Possible(fields) /\ res.flag \in Flags(kind)
    BY <2>2 DEF Resource
  <2>4. res' \in Resource \cup {NoResource}
    BY <2>1, <2>3, ReadTyped
  <2> QED BY <1>5, <2>1, <2>4 DEF OperationOK
<1>9. CASE RefreshFails \/ Killed
  <2>1. faults' \in 0 .. MaxFaults
    BY <1>9, ChargeTyped DEF RefreshFails, Killed
  <2> QED BY <1>5, <1>9, <2>1 DEF RefreshFails, Killed, End, OperationOK
<1>10. CASE Send
  BY <1>5, <1>10 DEF Send, OperationOK
<1>11. CASE SendRefused
  BY <1>5, <1>11, GiveUpTyped DEF SendRefused, OperationOK
<1>12. CASE SendFails
  <2>1. faults' \in 0 .. MaxFaults
    BY <1>12, ChargeTyped DEF SendFails
  <2> QED BY <1>5, <1>12, <2>1, GiveUpTyped DEF SendFails, OperationOK
<1>13. CASE Applied
  <2>1. plan \in Plan
    BY <1>13 DEF Applied, TypeOK
  <2>2. plan.values \in Possible(fields) /\ plan.flag \in Flags(kind)
    BY <2>1 DEF Plan
  <2>3. ReadInto("tracked", plan) \in Resource \cup {NoResource}
    BY <2>2, ReadTyped
  <2> QED BY <1>5, <1>13, <2>3 DEF Applied, End, OperationOK
<1>14. CASE AppliedUnread
  <2>1. faults' \in 0 .. MaxFaults
    BY <1>14, ChargeTyped DEF AppliedUnread
  <2>2. res' \in Resource
    BY <1>14, KeepTyped DEF AppliedUnread
  <2> QED BY <1>5, <1>14, <2>1, <2>2 DEF AppliedUnread, End, OperationOK
<1>15. CASE Deleted
  <2>1. UNCHANGED <<alone, faults>> /\ res' = NoResource
    BY <1>15 DEF Deleted
  <2>2. CASE plan = NoPlan
    BY <1>5, <1>15, <2>1, <2>2 DEF Deleted, End, OperationOK
  <2>3. CASE plan # NoPlan
    <3>1. pc' = "apply" /\ todo' = Commands(plan.values) /\ plan' = plan
      BY <1>15, <2>3 DEF Deleted
    <3>2. todo' \in Seq(SUBSET Attributes(kind))
      BY <1>5, <3>1, CommandsTyped DEF SettingOK
    <3> QED BY <1>5, <2>1, <2>3, <3>1, <3>2 DEF OperationOK
  <2> QED BY <2>2, <2>3
<1> QED BY <1>6, <1>7, <1>8, <1>9, <1>10, <1>11, <1>12, <1>13, <1>14, <1>15 DEF Provider

LEMMA SurroundingsTyped ==
    ASSUME TypeOK, Edit \/ Outsider \/ Document \/ Upgrade
    PROVE  TypeOK'
<1>1. /\ UNCHANGED <<kind, fields, res, plan, pc, todo>> /\ Charge /\ alone' \in BOOLEAN
  BY DEF Edit, Outsider, Document, Upgrade, Others, setting, TypeOK
<1>2. /\ Resource' = Resource /\ Plan' = Plan /\ Config' = Config
  BY <1>1 DEF Resource, Plan, Config
<1>3. OperationOK'
  BY <1>1, <1>2, ChargeTyped DEF TypeOK, OperationOK
<1>4. SettingOK'
  <2>1. cfg' \in Config
    BY DEF Edit, Outsider, Document, Upgrade, Others, setting, TypeOK
  <2> QED BY <1>1, <1>2, <2>1 DEF SettingOK, TypeOK
<1>5. ServerOK'
  <2>1. CASE Edit
    BY <1>1, <2>1 DEF Edit, deployment, ServerOK, TypeOK
  <2>2. CASE Outsider
    <3>1. PICK f \in fields : \E v \in Domain(f) : v = Coerced(v) /\ server' = [server EXCEPT ![f] = v]
      BY <2>2 DEF Outsider
    <3>2. PICK v \in Domain(f) : v = Coerced(v) /\ server' = [server EXCEPT ![f] = v]
      BY <3>1
    <3>3. v # Padded
      BY <3>2, CoercedIsPlain
    <3>4. server = [g \in fields |-> server[g]] /\ \A g \in fields : server[g] \in Domain(g)
      BY PossibleHas DEF TypeOK
    <3>5. \A g \in fields : server'[g] = IF g = f THEN v ELSE server[g]
      BY <3>2, <3>4
    <3>6. server' = [g \in fields |-> server'[g]]
      BY <3>2, <3>4
    <3>7. \A g \in fields : server'[g] \in Domain(g) /\ server'[g] # Padded
      BY <3>3, <3>4, <3>5 DEF TypeOK
    <3>8. server' \in Possible(fields)
      BY <3>6, <3>7, PossibleIs
    <3> QED BY <1>1, <2>2, <3>7, <3>8 DEF Outsider, ServerOK, TypeOK
  <2>3. CASE Document
    <3>1. server' = [f \in fields |-> IF kind = "balancer" /\ f = "chunk" THEN server[f] ELSE Default(f)]
      BY <2>3 DEF Document
    <3>2. \A f \in fields : Default(f) \in Domain(f) /\ Default(f) # Padded
      BY DefaultInDomain, DefaultIsPlain DEF TypeOK
    <3>3. \A f \in fields : server[f] \in Domain(f) /\ server[f] # Padded
      BY PossibleHas DEF TypeOK
    <3>4. \A f \in fields : server'[f] \in Domain(f) /\ server'[f] # Padded
      BY <3>1, <3>2, <3>3
    <3>5. server' \in Possible(fields)
      BY <3>1, <3>4, PossibleIs
    <3> QED BY <1>1, <2>3, <3>4, <3>5 DEF Document, ServerOK, TypeOK
  <2>4. CASE Upgrade
    BY <1>1, <2>4 DEF Upgrade, ServerOK, TypeOK
  <2> QED BY <2>1, <2>2, <2>3, <2>4
<1> QED BY <1>3, <1>4, <1>5, TypePartsNext

LEMMA TypeNext == TypeOK /\ [Next]_vars => TypeOK'
<1> SUFFICES ASSUME TypeOK, [Next]_vars PROVE TypeOK'
  OBVIOUS
<1>1. CASE UNCHANGED vars
  <2>1. /\ UNCHANGED <<kind, fields, cfg, server, stored, modern, res, plan, pc, todo, alone, faults>>
    BY <1>1 DEF vars, deployment, setting
  <2>2. Resource' = Resource /\ Plan' = Plan /\ Config' = Config
    BY <2>1 DEF Resource, Plan, Config
  <2> QED BY <2>1, <2>2 DEF TypeOK
<1>2. CASE BeginPlan \/ Provider \/ Killed
  BY <1>2, ProviderTyped
<1>3. CASE Edit \/ Outsider \/ Document \/ Upgrade
  BY <1>3, SurroundingsTyped
<1> QED BY <1>1, <1>2, <1>3 DEF Next, Surroundings

\* What the provider holds of a resource, and what it sends, are values of
\* the resource's own attributes; an apply has a plan, a delete a resource.
THEOREM SettingsTyped == Spec => []TypeOK
BY TypeInit, TypeNext, PTL DEF Spec

---------------------------------------------------------------------------
(* A plan tells the truth *)

\* What a refresh has put into the resource, it would put there again, as long
\* as nobody else interferes.
Settled == \A f \in fields : Seen(f, res.values[f], res.flag) = res.values[f]
SeenInv == pc = "plan" /\ alone /\ res # NoResource => Settled

Among(c, commands) == \E i \in 1 .. Len(commands) : commands[i] = c

\* Every command still to send is one of those the plan asks for.
SentInv ==
    pc = "apply" => \A i \in 1 .. Len(todo) : Among(todo[i], Commands(plan.values))

\* What is read is what is there, where it is upheld.
LEMMA UpheldIsSeen ==
    ASSUME SettingTyped, cfg.values = res.values, cfg.flag = res.flag, NEW f \in fields,
           Upheld(f) \/ kind = "fcv"
    PROVE  Seen(f, res.values[f], res.flag) = server[f]
<1>1. CASE kind = "balancer"
  BY <1>1 DEF Upheld, Seen, SettingTyped, Attributes
<1>2. CASE kind = "collection"
  BY <1>2 DEF Upheld, Seen
<1>3. CASE kind \in {"fcv", "profiler", "parameter"}
  BY <1>3 DEF Upheld, Seen
<1> QED BY <1>1, <1>2, <1>3 DEF SettingTyped, Kinds

\* Reading again, of what has been read, finds the same.
LEMMA SeenTwice ==
    ASSUME NEW f, NEW held, NEW flag
    PROVE  Seen(f, Seen(f, held, flag), flag) = Seen(f, held, flag)
BY DEF Seen

LEMMA SeenStep == SeenInv /\ [Next]_vars => SeenInv'
<1> SUFFICES ASSUME SeenInv, [Next]_vars, pc' = "plan", alone', res' # NoResource
             PROVE  Settled'
  BY DEF SeenInv
<1>1. CASE Refresh
  <2>1. /\ res' = ReadInto(res.known, res)
        /\ UNCHANGED <<kind, fields, server, stored>>
    BY <1>1 DEF Refresh, deployment, setting
  <2>2. /\ res'.values = [f \in fields |-> Seen(f, res.values[f], res.flag)]
        /\ res'.flag = res.flag
    BY <2>1 DEF ReadInto
  <2>3. \A f \in fields : res'.values[f] = Seen(f, res.values[f], res.flag)
    BY <2>2
  <2>4. \A f \in fields : Seen(f, res'.values[f], res'.flag) = res'.values[f]
    BY <2>2, <2>3, SeenTwice
  <2> QED BY <2>1, <2>4 DEF Settled, Seen
<1>2. CASE BeginPlan
  BY <1>2 DEF BeginPlan
<1>3. CASE MakePlan \/ RefreshFails \/ Send \/ SendRefused \/ SendFails \/ Applied \/ AppliedUnread
           \/ Deleted
  BY <1>3 DEF MakePlan, Carry, RefreshFails, Send, SendRefused, SendFails, GiveUp, Applied,
     AppliedUnread, Deleted, End
<1>4. CASE Surroundings
  BY <1>4 DEF Surroundings, Killed, Edit, Outsider, Document, Upgrade, Others, End
<1>5. CASE UNCHANGED vars
  BY <1>5 DEF vars, deployment, setting, SeenInv, Settled, Seen
<1> QED BY <1>1, <1>2, <1>3, <1>4, <1>5 DEF Next, Provider

LEMMA TailAmong ==
    ASSUME NEW T, NEW s \in Seq(T), s # <<>>
    PROVE  \A i \in 1 .. Len(Tail(s)) : \E j \in 1 .. Len(s) : Tail(s)[i] = s[j]
<1> SUFFICES ASSUME NEW i \in 1 .. Len(Tail(s)) PROVE \E j \in 1 .. Len(s) : Tail(s)[i] = s[j]
  OBVIOUS
<1>1. i + 1 \in 1 .. Len(s) /\ Tail(s)[i] = s[i + 1]
  OBVIOUS
<1> QED BY <1>1

LEMMA SentStep == TypeOK /\ SentInv /\ [Next]_vars => SentInv'
<1> SUFFICES ASSUME TypeOK, SentInv, [Next]_vars, pc' = "apply"
             PROVE  \A i \in 1 .. Len(todo') : Among(todo'[i], Commands(plan.values)')
  BY DEF SentInv, Among
<1>1. ASSUME NEW values, todo' = Commands(values), Commands(plan.values)' = Commands(values)
      PROVE  \A i \in 1 .. Len(todo') : Among(todo'[i], Commands(plan.values)')
  BY <1>1 DEF Among
<1>2. ASSUME UNCHANGED <<kind, plan>> PROVE Commands(plan.values)' = Commands(plan.values)
  BY <1>2 DEF Commands, BalancerCommands, Sent, Given
<1>3. CASE Send
  <2>1. UNCHANGED <<kind, plan, pc>> /\ todo # <<>> /\ todo' = Tail(todo)
    BY <1>3 DEF Send, setting
  <2>2. todo \in Seq(SUBSET Attributes(kind))
    BY DEF TypeOK
  <2>3. \A i \in 1 .. Len(todo) : Among(todo[i], Commands(plan.values))
    BY <2>1 DEF SentInv
  <2>4. \A i \in 1 .. Len(todo') : \E j \in 1 .. Len(todo) : todo'[i] = todo[j]
    BY <2>1, <2>2, TailAmong
  <2> QED BY <1>2, <2>1, <2>3, <2>4
<1>4. CASE MakePlan
  <2>1. Carry("apply") /\ cfg.wanted /\ kind' = kind
    BY <1>4 DEF MakePlan, Carry, End, setting
  <2>2. todo' = Commands(cfg.values) /\ plan'.values = cfg.values
    BY <2>1 DEF Carry
  <2>3. Commands(plan.values)' = Commands(cfg.values)
    BY <2>1, <2>2 DEF Commands, BalancerCommands, Sent, Given
  <2> QED BY <1>1, <2>2, <2>3
<1>5. CASE Deleted
  <2>1. UNCHANGED <<kind, plan>> /\ todo' = Commands(plan.values)
    BY <1>5 DEF Deleted, End, setting
  <2> QED BY <1>1, <1>2, <2>1
<1>6. CASE Surroundings \/ UNCHANGED vars
  <2>1. UNCHANGED <<kind, plan, pc, todo>>
    BY <1>6 DEF Surroundings, Killed, Edit, Outsider, Document, Upgrade, Others, End, setting, vars
  <2> QED BY <1>2, <2>1 DEF SentInv
<1>7. CASE BeginPlan \/ Refresh \/ RefreshFails \/ SendRefused \/ SendFails \/ Applied \/ AppliedUnread
  BY <1>7 DEF BeginPlan, Refresh, RefreshFails, SendRefused, SendFails, GiveUp, Applied,
     AppliedUnread, End
<1> QED BY <1>3, <1>4, <1>5, <1>6, <1>7 DEF Next, Provider

LEMMA AmongBoth ==
    ASSUME NEW T, NEW s \in Seq(T), NEW t \in Seq(T), NEW c
    PROVE  Among(c, s \o t) <=> Among(c, s) \/ Among(c, t)
<1>1. Len(s) \in Nat /\ Len(t) \in Nat /\ Len(s \o t) = Len(s) + Len(t)
  OBVIOUS
<1>2. \A i \in 1 .. Len(s) + Len(t) :
         (s \o t)[i] = IF i <= Len(s) THEN s[i] ELSE t[i - Len(s)]
  OBVIOUS
<1>3. ASSUME Among(c, s \o t) PROVE Among(c, s) \/ Among(c, t)
  <2>1. PICK i \in 1 .. Len(s) + Len(t) : (s \o t)[i] = c
    BY <1>1, <1>3 DEF Among
  <2>2. CASE i <= Len(s)
    BY <1>1, <1>2, <2>1, <2>2 DEF Among
  <2>3. CASE ~(i <= Len(s))
    <3>1. i - Len(s) \in 1 .. Len(t) /\ t[i - Len(s)] = c
      BY <1>1, <1>2, <2>1, <2>3
    <3> QED BY <3>1 DEF Among
  <2> QED BY <2>2, <2>3
<1>4. ASSUME Among(c, s) PROVE Among(c, s \o t)
  <2>1. PICK i \in 1 .. Len(s) : s[i] = c
    BY <1>4 DEF Among
  <2>2. i \in 1 .. Len(s) + Len(t) /\ (s \o t)[i] = c
    BY <1>1, <1>2, <2>1
  <2> QED BY <1>1, <2>2 DEF Among
<1>5. ASSUME Among(c, t) PROVE Among(c, s \o t)
  <2>1. PICK i \in 1 .. Len(t) : t[i] = c
    BY <1>5 DEF Among
  <2>2. i + Len(s) \in 1 .. Len(s) + Len(t) /\ (s \o t)[i + Len(s)] = c
    BY <1>1, <1>2, <2>1
  <2> QED BY <1>1, <2>2 DEF Among
<1> QED BY <1>3, <1>4, <1>5

\* All the plan asks for is in its preview, but for the removal of a window.
LEMMA PreviewIsComplete ==
    ASSUME SettingTyped, NEW values, NEW c, Among(c, Commands(values))
    PROVE  \/ Among(c, Preview(values))
           \/ kind = "balancer" /\ c = {"window"} /\ ~Given(values, "window")
<1>1. CASE kind = "balancer"
  <2> DEFINE T == SUBSET Writable
             th == Sent(values, "throttle")
             wa == Sent(values, "wait")
             ch == Sent(values, "chunk")
             wi == Sent(values, "window")
             en == <<{"enabled"}>>
             ew == <<{"enabled"}, {"window"}>>
  <2>1. /\ th \in Seq(T) /\ wa \in Seq(T) /\ ch \in Seq(T) /\ wi \in Seq(T)
        /\ en \in Seq(T) /\ ew \in Seq(T)
    <3>1. /\ {"enabled"} \in T /\ {"window"} \in T /\ {"throttle"} \in T /\ {"wait"} \in T
          /\ {"chunk"} \in T
      BY DEF Writable
    <3> HIDE DEF T
    <3> QED BY <3>1 DEF Sent
  <2>2. Among(c, ew) => c \in {{"enabled"}, {"window"}}
    BY DEF Among
  <2>3. Among({"enabled"}, en) /\ (Given(values, "window") => Among({"window"}, wi))
    BY DEF Among, Sent
  <2>4. Commands(values) = ew \o th \o wa \o ch /\ Preview(values) = en \o wi \o th \o wa \o ch
    BY <1>1 DEF Commands, BalancerCommands, Preview, BalancerPreview
  <2> HIDE DEF T, th, wa, ch, wi, en, ew
  <2>5. ew \o th \in Seq(T) /\ en \o wi \in Seq(T)
    BY <2>1
  <2>6. (ew \o th) \o wa \in Seq(T) /\ (en \o wi) \o th \in Seq(T)
    BY <2>1, <2>5
  <2>7. ((en \o wi) \o th) \o wa \in Seq(T)
    BY <2>1, <2>6
  <2>8. Among(c, ew) \/ Among(c, th) \/ Among(c, wa) \/ Among(c, ch)
    <3> DEFINE front == (ew \o th) \o wa
    <3>0. Among(c, front \o ch)
      BY <2>4
    <3> HIDE DEF front
    <3>1. Among(c, front) \/ Among(c, ch)
      <4>1. front \in Seq(T)
        BY <2>6 DEF front
      <4> QED BY <2>1, <3>0, <4>1, AmongBoth
    <3> USE DEF front
    <3>2. Among(c, (ew \o th) \o wa) => Among(c, ew \o th) \/ Among(c, wa)
      BY <2>1, <2>5, AmongBoth
    <3>3. Among(c, ew \o th) => Among(c, ew) \/ Among(c, th)
      BY <2>1, AmongBoth
    <3> QED BY <3>1, <3>2, <3>3
  <2>9. Among(c, en) \/ Among(c, wi) \/ Among(c, th) \/ Among(c, wa) \/ Among(c, ch) =>
           Among(c, Preview(values))
    <3> DEFINE front == ((en \o wi) \o th) \o wa
    <3>0. Preview(values) = front \o ch
      BY <2>4
    <3> HIDE DEF front
    <3>1. Among(c, front) \/ Among(c, ch) => Among(c, Preview(values))
      <4>1. front \in Seq(T)
        BY <2>7 DEF front
      <4>2. Among(c, front) \/ Among(c, ch) => Among(c, front \o ch)
        BY <2>1, <4>1, AmongBoth
      <4> QED BY <3>0, <4>2
    <3> USE DEF front
    <3>2. Among(c, (en \o wi) \o th) \/ Among(c, wa) => Among(c, ((en \o wi) \o th) \o wa)
      BY <2>1, <2>6, AmongBoth
    <3>3. Among(c, en \o wi) \/ Among(c, th) => Among(c, (en \o wi) \o th)
      BY <2>1, <2>5, AmongBoth
    <3>4. Among(c, en) \/ Among(c, wi) => Among(c, en \o wi)
      BY <2>1, AmongBoth
    <3> QED BY <3>1, <3>2, <3>3, <3>4
  <2>10. CASE Among(c, ew)
    BY <1>1, <2>2, <2>3, <2>9, <2>10
  <2> QED BY <2>8, <2>9, <2>10
<1>2. CASE kind = "collection"
  <2>1. Commands(values) = <<{"enabled"} \cup {f \in {"chunk"} : Given(values, f)}>>
    BY <1>2 DEF Commands
  <2>2. Preview(values) = IF Given(values, "chunk") THEN <<{"enabled", "chunk"}>> ELSE <<{"enabled"}>>
    BY <1>2 DEF Preview, Attributes
  <2>3. {"enabled"} \cup {f \in {"chunk"} : Given(values, f)}
           = IF Given(values, "chunk") THEN {"enabled", "chunk"} ELSE {"enabled"}
    OBVIOUS
  <2>4. Commands(values) = Preview(values)
    BY <2>1, <2>2, <2>3
  <2> QED BY <2>4
<1>3. CASE kind \in {"fcv", "profiler", "parameter"}
  <2>1. Commands(values) = Preview(values)
    BY <1>3 DEF Commands, Preview
  <2> QED BY <2>1
<1> QED BY <1>1, <1>2, <1>3 DEF SettingTyped, Kinds

\* A plan without a difference means that what is upheld is there.  (BAL-008,
\* CBAL-006, FCV-005, PROF-006, PARAM-003)
THEOREM EmptyPlansAreTrue == Spec => EmptyPlanMeansDone
<1>1. TypeOK /\ SeenInv /\ Inv /\ [Next]_vars =>
         (pc = "plan" /\ pc' = "idle" /\ cfg.wanted /\ alone /\ ~PlanRefused =>
             \A f \in fields :
                 (Upheld(f) \/ kind = "fcv") => server[f] = Coerced(cfg.values[f]))
  <2> SUFFICES ASSUME TypeOK, SeenInv, Inv, [Next]_vars, pc = "plan", pc' = "idle", cfg.wanted, alone,
                      ~PlanRefused, NEW f \in fields, Upheld(f) \/ kind = "fcv"
               PROVE  server[f] = Coerced(cfg.values[f])
    OBVIOUS
  <2>1. MakePlan
    BY DEF Next, Provider, Surroundings, BeginPlan, Refresh, RefreshFails, Send, SendRefused,
           SendFails, Applied, AppliedUnread, Deleted, Killed, Edit, Outsider, Document, Upgrade,
           Others, vars
  <2>2. res # NoResource /\ cfg.values = res.values /\ cfg.flag = res.flag
    <3>1. res # NoResource /\ res.known # "tainted"
      <4>1. ~Carry("apply") /\ ~Carry("delete")
        BY DEF Carry
      <4> QED BY <2>1, <4>1 DEF MakePlan
    <3>2. res.known = "tracked"
      BY <3>1 DEF TypeOK, Resource
    <3>3. ~HasDiff
      BY <2>1, <3>1, <3>2 DEF MakePlan, Carry
    <3> QED BY <3>1, <3>3 DEF HasDiff
  <2>3. Seen(f, res.values[f], res.flag) = server[f]
    BY <2>2, UpheldIsSeen DEF Inv
  <2>4. server[f] = cfg.values[f]
    BY <2>2, <2>3 DEF SeenInv, Settled
  <2> QED BY <2>4, PlainIsCoerced DEF Inv, ServerTyped
<1>2. Init => SeenInv
  BY DEF Init, SeenInv
<1>3. Spec => [](TypeOK /\ Inv /\ SeenInv)
  BY <1>2, SettingsTyped, Invariance, SeenStep, PTL DEF Spec
<1> QED BY <1>1, <1>3, PTL DEF Spec, EmptyPlanMeansDone

\* What an apply changes is in the preview of its plan, but for the removal of
\* the balancer's window.  (PREVIEW-012 to PREVIEW-014, PREVIEW-020)
THEOREM PreviewsAreTrue == Spec => PreviewShowsCommands
<1>1. TypeOK /\ Inv /\ SentInv /\ [Next]_vars =>
         (pc = "apply" /\ todo' # todo /\ server' # server =>
            \/ Shows(plan.values, Head(todo))
            \/ Head(todo) = {"window"} /\ plan.values["window"] = "")
  <2> SUFFICES ASSUME TypeOK, Inv, SentInv, [Next]_vars, pc = "apply", todo' # todo,
                      server' # server
               PROVE  \/ Among(Head(todo), Preview(plan.values))
                      \/ Head(todo) = {"window"} /\ plan.values["window"] = ""
    BY DEF Among, Shows
  <2>1. todo # <<>> /\ Effect(Head(todo))
    BY Senders
  <2>2. todo \in Seq(SUBSET Attributes(kind)) /\ server \in Possible(fields)
        /\ plan.values \in Possible(fields)
    BY DEF TypeOK, Plan
  <2>3. 1 \in 1 .. Len(todo) /\ Head(todo) = todo[1]
    BY <2>1, <2>2
  <2>4. Among(Head(todo), Commands(plan.values))
    BY <2>3 DEF SentInv
  <2>5. CASE kind = "balancer" /\ Head(todo) = {"window"} /\ ~Given(plan.values, "window")
    <3>1. "window" \in fields
      <4> SUFFICES ASSUME "window" \notin fields PROVE FALSE
        OBVIOUS
      <4>1. server' = [f \in fields |-> IF f \in Written(Head(todo)) THEN Coerced(Target(f))
                                        ELSE server[f]]
        BY <2>1 DEF Effect
      <4>2. \A f \in fields : f \notin Written(Head(todo))
        BY <2>5 DEF Written
      <4>3. server' = [f \in fields |-> server[f]]
        BY <4>1, <4>2
      <4>4. server = [f \in fields |-> server[f]]
        BY <2>2, PossibleHas
      <4> QED BY <4>3, <4>4
    <3>2. plan.values["window"] \in Values \cup {""} /\ "window" \in DOMAIN plan.values
      <4>1. plan.values["window"] \in Domain("window")
        BY <2>2, <3>1, PossibleHas
      <4>2. plan.values = [f \in fields |-> plan.values[f]]
        BY <2>2, PossibleHas
      <4>3. DOMAIN plan.values = fields
        BY <4>2
      <4> QED BY <3>1, <4>1, <4>3 DEF Domain
    <3>3. plan.values["window"] # "no"
      BY <3>2, ValuesAssumption
    <3> QED BY <2>5, <3>2, <3>3 DEF Given
  <2> QED BY <2>4, <2>5, PreviewIsComplete DEF Inv
<1>2. Init => SentInv
  BY DEF Init, SentInv
<1>3. Spec => [](TypeOK /\ Inv /\ SentInv)
  BY <1>2, SettingsTyped, Invariance, SentStep, PTL DEF Spec
<1> QED BY <1>1, <1>3, PTL DEF Spec, PreviewShowsCommands
=============================================================================
