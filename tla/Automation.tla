------------------------------ MODULE Automation ------------------------------
(***************************************************************************)
(* The orcasecurity_automation_v2 resource (automation_v2/resource.go,     *)
(* automation_v2/priority.go, api_client/automation_v2.go) under Terraform *)
(* core, with the optional attribute that places the automation in the     *)
(* organization's evaluation order.                                        *)
(*                                                                         *)
(* The definition of an automation goes through its CRUD endpoint, of      *)
(* which a PUT resets the status of every action; the priority goes        *)
(* through an endpoint of its own, which clamps it.  One configured        *)
(* automation is followed through any sequence of refreshes and applies,   *)
(* while the calls fail and the console interferes.                        *)
(*                                                                         *)
(* filter stands for what Read leaves as it is in the state (the filter    *)
(* and the action templates), description for what Read refreshes.         *)
(***************************************************************************)
EXTENDS EvaluationOrder

CONSTANTS
    Filters,            \* values of the filter and the action templates
    Texts,              \* descriptions that are not empty
    Null,               \* the description of a configuration that has none
    Empty,              \* the empty description
    NoAutomation,       \* not configured, not in the state
    Others,             \* how many automations are not ours
    OwnIds,             \* bound: how many of ours exist at a time
    MaxPriority,        \* bound: priorities in configurations, moves outside
    MaxLegacy,          \* bound: priorities of the others at first
    MaxEdits,           \* bound: edits of the configuration
    MaxFailures,        \* bound: calls that fail
    MaxOutside          \* bound: what others do in the console

ASSUME AutomationAssumption ==
    /\ {Others, OwnIds, MaxPriority, MaxLegacy, MaxEdits, MaxFailures, MaxOutside} \subseteq Nat
    /\ Null \notin Texts /\ Empty \notin Texts /\ Null # Empty

VARIABLES
    config,     \* what the user has written
    state,      \* Terraform's state of the resource
    body,       \* our automations on the service, without their priorities
    prio,       \* the evaluation order on the service
    op,         \* the handler that runs
    exact,      \* nobody else has changed the order since the handler began
    applied,    \* the last configuration applied, if nothing has disturbed it
    edits, failures, outside

vars == <<config, state, body, prio, op, exact, applied, edits, failures, outside>>
counters == <<edits, failures, outside>>

-----------------------------------------------------------------------------
Ids == Others + 1 .. Others + OwnIds
Priorities == 0 .. MaxPriority          \* 0 is null: not set, not tracked
Configs == [filter : Filters, description : Texts \cup {Null}, priority : Priorities]
States == [id : Ids, filter : Filters, description : Texts \cup {Null, Empty},
           priority : Nat, tainted : BOOLEAN]
Bodies == [filter : Filters, description : Texts \cup {Empty}, paused : BOOLEAN]

ASSUME NoAutomationAssumption == NoAutomation \notin Configs \cup States

(* ValueString of a null description is "".                                *)
ValueString(text) == IF text = Null THEN Empty ELSE text

Idle == op.kind = "none"
At(pc) == op.pc = pc
Exists == op.id \in DOMAIN body

Begin(kind, pc, id, plan) ==
    /\ op' = [kind |-> kind, pc |-> pc, id |-> id, plan |-> plan, seen |-> 0,
              result |-> "none"]
    /\ exact' = TRUE
Goto(pc) == op' = [op EXCEPT !.pc = pc]
End(result) ==
    op' = [op EXCEPT !.kind = "none", !.pc = "", !.seen = 0, !.result = result]

(* The state a plan leaves with this priority.                             *)
Stored(plan, id, priority, tainted) ==
    [id |-> id, filter |-> plan.filter, description |-> plan.description,
     priority |-> priority, tainted |-> tainted]

(* The plan is applied, unless the console has undone it meanwhile.        *)
Undisturbed ==
    IF body[op.id].description = ValueString(op.plan.description)
    THEN op.plan
    ELSE NoAutomation

(* A call succeeds; or fails, and then it may have taken effect.           *)
Outcomes == {"fine", "failed", "lost"}
Failing(outcome) ==
    /\ failures' = IF outcome = "fine" THEN failures ELSE failures + 1
    /\ failures' <= MaxFailures
    /\ UNCHANGED <<edits, outside>>

(* A call about an automation that is gone is refused, which is nobody's   *)
(* failure.                                                                *)
CallOn(outcome) ==
    IF Exists THEN Failing(outcome) ELSE outcome = "failed" /\ UNCHANGED counters

Init ==
    /\ config = NoAutomation
    /\ state = NoAutomation
    /\ body = << >>
    /\ prio \in [1 .. Others -> 1 .. MaxLegacy]
    /\ op = [kind |-> "none", pc |-> "", id |-> 0, plan |-> NoAutomation, seen |-> 0,
             result |-> "none"]
    /\ exact = TRUE
    /\ applied = NoAutomation
    /\ edits = 0 /\ failures = 0 /\ outside = 0

EditConfig(new) ==
    /\ Idle
    /\ new # config
    /\ edits < MaxEdits
    /\ edits' = edits + 1
    /\ config' = new
    /\ UNCHANGED <<state, body, prio, op, exact, applied, failures, outside>>

-----------------------------------------------------------------------------
(* The service.  A new automation is evaluated last; the priorities of the *)
(* others may or may not close the gap of a deleted one.                   *)
Put(plan) ==
    [filter |-> plan.filter, description |-> ValueString(plan.description), paused |-> FALSE]

PostEffect(id, plan) ==
    /\ body' = [i \in DOMAIN body \cup {id} |-> IF i = id THEN Put(plan) ELSE body[i]]
    /\ prio' = [a \in DOMAIN prio \cup {id} |-> IF a = id THEN Highest(prio) + 1 ELSE prio[a]]

DeleteEffect(id) ==
    /\ body' = [i \in DOMAIN body \ {id} |-> body[i]]
    /\ \E closed \in BOOLEAN :
         prio' = [a \in DOMAIN prio \ {id} |->
                    IF closed /\ prio[a] > prio[id] THEN prio[a] - 1 ELSE prio[a]]

(* The endpoint of the priority: SetAutomationV2Priority.                  *)
PriorityEffect(outcome) ==
    /\ prio' = IF outcome = "failed" THEN prio ELSE Moved(prio, op.id, op.plan.priority)
    /\ exact' = (exact /\ outcome # "lost")

-----------------------------------------------------------------------------
(* Create: CreateAutomationV2, then the priority if there is one.          *)
BeginCreate ==
    /\ Idle
    /\ config # NoAutomation
    /\ state = NoAutomation
    /\ \E id \in Ids \ DOMAIN body : Begin("create", "post", id, config)
    /\ UNCHANGED <<config, state, body, prio, applied, counters>>

CreateAutomation(outcome) ==
    LET tracked == op.plan.priority # 0 IN
    /\ At("post")
    /\ Failing(outcome)
    /\ IF outcome = "failed" THEN UNCHANGED <<body, prio>> ELSE PostEffect(op.id, op.plan)
    /\ CASE outcome # "fine" -> End("error") /\ UNCHANGED state /\ applied' = NoAutomation
         [] outcome = "fine" /\ tracked -> Goto("create-priority") /\ UNCHANGED <<state, applied>>
         [] outcome = "fine" /\ ~tracked ->
                /\ End("ok")
                /\ state' = Stored(op.plan, op.id, 0, FALSE)
                /\ applied' = op.plan
    /\ UNCHANGED <<config, exact>>

(* applyPlanPriorityOnCreate: the provider only warns, and stores the      *)
(* actual priority after a clamp, a null one after a failure.  Terraform   *)
(* core accepts no value but the planned one for an attribute that is not  *)
(* computed: it fails the apply and keeps the new object as tainted.       *)
CreatePriority(outcome) ==
    LET requested == op.plan.priority
        actual == IF outcome = "fine" THEN Clamped(prio, requested) ELSE 0
        consistent == actual = requested
    IN
    /\ At("create-priority")
    /\ CallOn(outcome)
    /\ PriorityEffect(outcome)
    /\ state' = Stored(op.plan, op.id, actual, ~consistent)
    /\ End(IF consistent THEN "ok" ELSE "inconsistent")
    /\ applied' = IF consistent THEN Undisturbed ELSE NoAutomation
    /\ UNCHANGED <<config, body>>

-----------------------------------------------------------------------------
(* Read: DoesAutomationV2Exist, GetAutomationV2.                           *)
BeginRead ==
    /\ Idle
    /\ state # NoAutomation
    /\ Begin("read", "head", state.id, NoAutomation)
    /\ UNCHANGED <<config, state, body, prio, applied, counters>>

(* Every status but 200 means "missing"; a call that gets no response at   *)
(* all kills the plugin.                                                   *)
HeadOutcomes == {"fine", "status", "panic"}

DoesAutomationV2Exist(outcome) ==
    /\ At("head")
    /\ Failing(outcome)
    /\ CASE outcome = "fine" /\ Exists -> Goto("read-get") /\ UNCHANGED <<state, applied>>
         [] outcome = "panic" -> End("error") /\ UNCHANGED state /\ applied' = NoAutomation
         [] OTHER -> End("ok") /\ state' = NoAutomation /\ applied' = NoAutomation
    /\ UNCHANGED <<config, body, prio, exact>>

(* Mutant: a tracked priority is not refreshed.                            *)
NeverRefreshed(priority) == priority

(* refreshPriority: a priority that is not tracked stays null.             *)
refreshPriority(priority) == IF priority = 0 THEN 0 ELSE prio[op.id]

ReadAutomation(outcome) ==
    /\ At("read-get")
    /\ outcome \in {"fine", "failed"}
    /\ CallOn(outcome)
    /\ IF outcome = "fine"
       THEN state' = [state EXCEPT !.description = body[op.id].description,
                                   !.priority = refreshPriority(@)]
       ELSE UNCHANGED state
    /\ End(IF outcome = "fine" THEN "ok" ELSE "error")
    /\ UNCHANGED <<config, body, prio, exact, applied>>

(* terraform import and the Read that completes it: the filter comes from  *)
(* the service, the priority is not tracked.                               *)
Import(id) ==
    /\ Idle
    /\ state = NoAutomation
    /\ id \in DOMAIN body
    /\ state' = Stored(body[id], id, 0, FALSE)
    /\ Begin("none", "", id, NoAutomation)
    /\ UNCHANGED <<config, body, prio, applied, counters>>

-----------------------------------------------------------------------------
(* Update.  A change of nothing but the priority never goes through the    *)
(* CRUD endpoint.                                                          *)
Differs == <<state.filter, state.description, state.priority>>
             # <<config.filter, config.description, config.priority>>

(* Mutant: any change goes through the CRUD endpoint.                      *)
NeverEqual(plan, prior) == FALSE

modelsEqualIgnoringPriority(plan, prior) ==
    plan.filter = prior.filter /\ plan.description = prior.description

BeginUpdate ==
    /\ Idle
    /\ config # NoAutomation
    /\ state # NoAutomation
    /\ ~state.tainted
    /\ Differs
    /\ Begin("update",
             IF modelsEqualIgnoringPriority(config, state) THEN "verify" ELSE "put",
             state.id, config)
    /\ UNCHANGED <<config, state, body, prio, applied, counters>>

UpdateAutomation(outcome) ==
    /\ At("put")
    /\ CallOn(outcome)
    /\ body' = IF outcome = "failed" THEN body ELSE [body EXCEPT ![op.id] = Put(op.plan)]
    /\ IF outcome = "fine"
       THEN Goto("verify") /\ UNCHANGED applied
       ELSE End("error") /\ applied' = NoAutomation
    /\ UNCHANGED <<config, state, prio, exact>>

(* Nothing is to be done about a priority that is null or right.           *)
Settled(priority) == priority \in {0, prio[op.id]}

(* The GET of updatePriorityOnly, and the one that verifies a full update. *)
VerifyAutomation(outcome) ==
    /\ At("verify")
    /\ outcome \in {"fine", "failed"}
    /\ CallOn(outcome)
    /\ CASE outcome # "fine" -> End("error") /\ UNCHANGED state /\ applied' = NoAutomation
         [] outcome = "fine" /\ Settled(op.plan.priority) ->
                /\ End("ok")
                /\ state' = Stored(op.plan, op.id, op.plan.priority, FALSE)
                /\ applied' = Undisturbed
         [] outcome = "fine" /\ ~Settled(op.plan.priority) ->
                /\ op' = [op EXCEPT !.pc = "update-priority", !.seen = prio[op.id]]
                /\ UNCHANGED <<state, applied>>
    /\ UNCHANGED <<config, body, prio, exact>>

(* Mutant: after a failure the requested priority is stored.               *)
ResolvedAsPlanned(outcome) ==
    IF outcome = "fine" THEN Clamped(prio, op.plan.priority) ELSE op.plan.priority

(* The priority that a PUT of it leaves in the plan.                       *)
Resolved(outcome) == IF outcome = "fine" THEN Clamped(prio, op.plan.priority) ELSE op.seen

(* resolvePlanPriorityOnUpdate: whatever comes of it, the state is stored  *)
(* with the priority that the service is known to hold.                    *)
UpdatePriority(outcome) ==
    LET actual == Resolved(outcome) IN
    /\ At("update-priority")
    /\ CallOn(outcome)
    /\ PriorityEffect(outcome)
    /\ state' = Stored(op.plan, op.id, actual, FALSE)
    /\ End(CASE outcome # "fine" -> "unset"
               [] outcome = "fine" /\ actual # op.plan.priority -> "clamped"
               [] OTHER -> "ok")
    /\ applied' = IF op'.result = "ok" THEN Undisturbed ELSE NoAutomation
    /\ UNCHANGED <<config, body>>

-----------------------------------------------------------------------------
BeginDelete ==
    /\ Idle
    /\ state # NoAutomation
    /\ config = NoAutomation \/ state.tainted
    /\ Begin("delete", "delete", state.id, NoAutomation)
    /\ UNCHANGED <<config, state, body, prio, applied, counters>>

(* A DELETE of what is gone fails; the next Read removes it.               *)
DeleteAutomation(outcome) ==
    /\ At("delete")
    /\ CallOn(outcome)
    /\ IF outcome = "failed" THEN UNCHANGED <<body, prio>> ELSE DeleteEffect(op.id)
    /\ state' = IF outcome = "fine" THEN NoAutomation ELSE state
    /\ End(IF outcome = "fine" THEN "ok" ELSE "error")
    /\ applied' = NoAutomation
    /\ UNCHANGED <<config, exact>>

-----------------------------------------------------------------------------
(* The console: somebody pauses the actions, edits the description, moves  *)
(* any automation, or deletes ours.                                        *)
Outside ==
    /\ outside < MaxOutside
    /\ outside' = outside + 1
    /\ UNCHANGED <<config, state, op, edits, failures>>

PauseOutside(id) ==
    /\ Outside
    /\ id \in DOMAIN body
    /\ body' = [body EXCEPT ![id].paused = TRUE]
    /\ UNCHANGED <<prio, exact, applied>>

EditOutside(id, text) ==
    /\ Outside
    /\ id \in DOMAIN body
    /\ body' = [body EXCEPT ![id].description = text]
    /\ applied' = NoAutomation
    /\ UNCHANGED <<prio, exact>>

MoveOutside(a, n) ==
    /\ Outside
    /\ a \in DOMAIN prio
    /\ prio' = Moved(prio, a, n)
    /\ exact' = FALSE
    /\ UNCHANGED <<body, applied>>

DeleteOutside(id) ==
    /\ Outside
    /\ id \in DOMAIN body
    /\ DeleteEffect(id)
    /\ exact' = FALSE
    /\ applied' = NoAutomation

-----------------------------------------------------------------------------
Handler ==
    \/ \E o \in Outcomes :
          \/ CreateAutomation(o) \/ CreatePriority(o) \/ ReadAutomation(o)
          \/ UpdateAutomation(o) \/ VerifyAutomation(o) \/ UpdatePriority(o)
          \/ DeleteAutomation(o)
    \/ \E o \in HeadOutcomes : DoesAutomationV2Exist(o)

Apply == BeginCreate \/ BeginUpdate \/ BeginDelete

Environment ==
    \/ \E new \in Configs \cup {NoAutomation} : EditConfig(new)
    \/ \E id \in Ids :
          \/ Import(id) \/ PauseOutside(id) \/ DeleteOutside(id)
          \/ \E text \in Texts \cup {Empty} : EditOutside(id, text)
    \/ \E a \in 1 .. Others + OwnIds, n \in 1 .. MaxPriority : MoveOutside(a, n)

Next == Handler \/ Apply \/ BeginRead \/ Environment

(* A handler that has begun is carried on (ApiClient: every call returns), *)
(* and the user keeps running terraform apply, which refreshes first.      *)
Spec ==
    /\ Init /\ [][Next]_vars
    /\ WF_vars(Handler) /\ SF_vars(BeginRead) /\ SF_vars(Apply)

-----------------------------------------------------------------------------
Ops == [kind : {"none", "create", "read", "update", "delete"},
        pc : {"", "post", "create-priority", "head", "read-get", "put", "verify",
              "update-priority", "delete"},
        id : Ids \cup {0}, plan : Configs \cup {NoAutomation}, seen : Nat,
        result : {"none", "ok", "error", "inconsistent", "clamped", "unset"}]

(* The shape of the state.                                                 *)
TypeOK ==
    /\ config \in Configs \cup {NoAutomation}
    /\ state \in States \cup {NoAutomation}
    /\ DOMAIN body \subseteq Ids
    /\ \A id \in DOMAIN body : body[id] \in Bodies
    /\ DOMAIN prio = (1 .. Others) \cup DOMAIN body
    /\ \A a \in DOMAIN prio : prio[a] \in Nat \ {0}
    /\ op \in Ops
    /\ At("update-priority") => op.seen \notin {0, op.plan.priority}
    /\ At("create-priority") \/ At("update-priority") => op.plan.priority # 0
    /\ exact \in BOOLEAN
    /\ applied \in Configs \cup {NoAutomation}
    /\ {edits, failures, outside} \subseteq Nat

(* "An error still persists the server's real priority rather than hiding  *)
(* the remote mutation": when a handler has stored the state, after a      *)
(* success, a clamp or a failure alike, a priority in it is the one the    *)
(* service holds, unless somebody else has reordered the automations or a  *)
(* call took effect that reported an error.                                *)
RecordedPriorityIsHeld ==
    Idle /\ exact /\ op.result \notin {"none", "error"}
         /\ state # NoAutomation /\ state.priority # 0
    => state.id \in DOMAIN prio /\ state.priority = prio[state.id]

(* An update to a configuration that differs from the one applied before   *)
(* it in its priority alone, with nothing in between that disturbed the    *)
(* automation.                                                             *)
PriorityEdit ==
    /\ op.kind = "update"
    /\ applied # NoAutomation
    /\ op.plan # applied
    /\ op.plan = [applied EXCEPT !.priority = op.plan.priority]

Resumes == Exists /\ body[op.id].paused /\ op.id \in DOMAIN body' /\ ~body'[op.id].paused

(* "Changing only priority calls the dedicated priority endpoint alone; the*)
(* automation definition is not resent, so action statuses are unaffected":*)
(* an action that somebody has paused is not resumed by such an update, as *)
(* long as the configuration has a description.  Without one Read stores   *)
(* "", modelsEqualIgnoringPriority sees a difference from the plan's null, *)
(* and the full PUT resumes every action.                                  *)
DescribedPriorityEditKeepsPaused ==
    [][PriorityEdit /\ op.plan.description # Null => ~Resumes]_vars

(* Terraform and the service have what the configuration says.             *)
InSync ==
    /\ config # NoAutomation
    /\ state # NoAutomation /\ ~state.tainted
    /\ state.filter = config.filter
    /\ state.description = config.description
    /\ state.priority = config.priority
    /\ state.id \in DOMAIN body
    /\ body[state.id].description = config.description
    /\ config.priority # 0 => prio[state.id] = config.priority

(* A configuration that can be reached: it describes the automation, and   *)
(* its priority is not above the highest of the organization.              *)
Attainable ==
    /\ config # NoAutomation
    /\ config.description # Null
    /\ config.priority <= Highest([a \in 1 .. Others |-> prio[a]])

(* "If it was moved outside Terraform, the plan shows drift and the next   *)
(* apply reasserts the configured position", and after a failure "the next *)
(* apply retries": once the edits, the failures and the interference end,  *)
(* applying again and again brings everything in line, for good.           *)
Converges == <>[]Attainable => <>[]InSync
===============================================================================
