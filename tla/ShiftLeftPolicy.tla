---------------------------- MODULE ShiftLeftPolicy ----------------------------
(***************************************************************************)
(* The resource orcasecurity_shift_left_policy (shift_left_policy,         *)
(* api_client/shift_left_policy.go, shift_left_policy_catalog.go) under    *)
(* Terraform core.                                                         *)
(*                                                                         *)
(* A policy is a list of controls.  What is sent is what is configured,    *)
(* completed from the catalog of the service; what is stored after a write *)
(* is what was configured; what Read stores is what the service has, in    *)
(* which most of what the state knew already is put back, control by       *)
(* control, by position.  Whether a change in the console is ever seen     *)
(* depends on what the configuration happens to spell out.                 *)
(*                                                                         *)
(* level stands for priority and disabled, cond for the conditions and the *)
(* fields of one type of policy, description for all that is a plain       *)
(* attribute.  A control of the catalog has one name for id and title.     *)
(***************************************************************************)
EXTENDS Integers, SequencesExt

CONSTANTS
    Names,          \* ids and titles of controls
    Values,         \* levels, conditions, descriptions and lists of projects
    Base,           \* the level and the conditions of a control in the catalog
    Null,           \* not configured; empty, on the service
    Empty,          \* the empty text
    None,           \* no policy
    Configs,        \* bound: the configurations of a run
    Catalogs,       \* bound: the catalogs there may be
    Strangers,      \* bound: policies that others have made
    MaxId,          \* bound: policies ever made
    MaxEdits,       \* bound: edits of the configuration, and imports
    MaxFailures,    \* bound: calls that fail
    MaxChanges      \* bound: changes in the console, and of the catalog

Types == {"section", "scm_posture"}     \* eight types that are alike, and the ninth

Controls == [id : Names \cup {Null}, title : Names \cup {Null}, level : Values,
             cond : Values \cup {Null}]

(* What may be written: the controls of an scm_posture policy have ids and *)
(* no titles, and it has no all_controls.                                  *)
Plans ==
    {p \in [type : Types, description : Values \cup {Null, Empty},
            projects : Values \cup {Null}, all : BOOLEAN,
            controls : Seq(Controls), scope : Seq(Values)] :
        p.type = "scm_posture" =>
           /\ ~p.all
           /\ \A i \in DOMAIN p.controls :
                 p.controls[i].id # Null /\ p.controls[i].title = Null}

(* What the service may have: a control without a title has no id, and     *)
(* those of an scm_posture policy have one name for both.                  *)
Policies ==
    {q \in [type : Types, builtin : BOOLEAN, description : Values \cup {Null, Empty},
            projects : Values \cup {Null}, controls : Seq(Controls), scope : SUBSET Values] :
        /\ IsFiniteSet(q.scope)
        /\ \A i \in DOMAIN q.controls :
              /\ q.controls[i].title = Null => q.controls[i].id = Null
              /\ q.type = "scm_posture" =>
                    q.controls[i].id # Null /\ q.controls[i].title = q.controls[i].id}

States == [id : 1 .. MaxId, builtin : BOOLEAN, plan : Plans]

ASSUME ShiftLeftPolicyAssumption ==
    /\ {MaxId, MaxEdits, MaxFailures, MaxChanges} \subseteq Nat /\ MaxId # 0
    /\ Base \in Values /\ {Null, Empty} \cap (Values \cup Names) = {} /\ Null # Empty
    /\ None \notin Plans /\ None \notin Policies /\ None \notin States
    /\ \A p \in Configs : p \in Plans
    /\ \A q \in Strangers : q \in Policies
    /\ Catalogs \subseteq Seq(Names)

VARIABLES
    config,     \* what the user has written, or None
    state,      \* what Terraform tracks, or None: id, builtin, and the plan
    remote,     \* the policies of the service
    nextId,     \* the id of the next one
    catalog,    \* the controls of the catalog
    unlucky,    \* the id of every policy contains "404"
    op,         \* the handler that runs: its next call, its plan, what it sends,
                \* and whether the catalog has changed meanwhile
    drifted,    \* the service has something else than was last written or imported,
                \* or than the catalog makes of that
    edits, failures, changes

vars == <<config, state, remote, nextId, catalog, unlucky, op, drifted,
          edits, failures, changes>>
service == <<catalog, unlucky>>
counters == <<edits, failures, changes>>

-----------------------------------------------------------------------------
NoOp == [kind |-> "none", pc |-> "", id |-> 0, plan |-> None, controls |-> << >>,
         stale |-> FALSE]
Idle == op = NoOp
At(pc) == op.pc = pc
Exists(id) == remote[id] # None

Begin(kind, pc, id, plan) ==
    op' = [kind |-> kind, pc |-> pc, id |-> id, plan |-> plan,
           controls |-> IF plan = None THEN << >> ELSE plan.controls, stale |-> FALSE]
Goto(pc) == op' = [op EXCEPT !.pc = pc]
End == op' = NoOp

(* A call succeeds, is refused with a status, gets no answer, or gets none *)
(* and takes effect.                                                       *)
Outcomes == {"fine", "refused", "unanswered", "lost"}

Failing(outcome) ==
    /\ failures' = IF outcome = "fine" THEN failures ELSE failures + 1
    /\ failures' <= MaxFailures
    /\ UNCHANGED <<edits, changes>>

(* A call about a policy that is gone is answered with 404.                *)
CallOn(outcome) ==
    IF Exists(op.id) THEN Failing(outcome) ELSE outcome = "refused" /\ UNCHANGED counters

-----------------------------------------------------------------------------
(* What is sent.                                                           *)
Known == ToSet(catalog)

(* AddAllCatalogControls: the catalog instead of the configured controls.  *)
scopeEntries ==
    [i \in DOMAIN catalog |-> [id |-> catalog[i], title |-> Null, level |-> Base, cond |-> Null]]

Named(control) == IF control.id # Null THEN control.id ELSE control.title

(* enrichControlsSlice refuses an id that is not in the catalog.           *)
UnknownId(controls) ==
    \E i \in DOMAIN controls : controls[i].id \notin Known \cup {Null}

(* Mutant: the catalog wins.                                               *)
EnrichedCatalogWins(control) ==
    LET name == Named(control) IN
    IF name \in Known THEN [id |-> name, title |-> name, level |-> Base, cond |-> Base]
    ELSE [control EXCEPT !.id = name]

(* What is configured, over what the catalog has under that id or title.   *)
(* A title that it does not have is a control of its own, and the service  *)
(* gives it an id.                                                         *)
Enriched(control) ==
    LET name == Named(control) IN
    IF name \in Known
    THEN [id |-> name,
          title |-> IF control.title = Null THEN name ELSE control.title,
          level |-> control.level,
          cond |-> IF control.cond = Null THEN Base ELSE control.cond]
    ELSE [control EXCEPT !.id = name]

(* What a policy may be after a write.  Projects are left out when there   *)
(* are none, and the service may keep those it has.                        *)
Written(plan, controls, projects) ==
    {[type |-> plan.type, builtin |-> FALSE, description |-> plan.description,
      projects |-> p, controls |-> controls, scope |-> ToSet(plan.scope)] :
        p \in IF plan.projects = Null THEN {Null, projects} ELSE {plan.projects}}

-----------------------------------------------------------------------------
(* What is stored.                                                         *)
Stored(plan, id) == [id |-> id, builtin |-> FALSE, plan |-> plan]

(* Mutant: the id of a control that is configured by its title is shown.   *)
mergeBaseControlFromPlanWithId(dst, src) ==
    [id |-> dst.id,
     title |-> IF src.title = Null THEN Null ELSE dst.title,
     level |-> src.level,
     cond |-> IF src.cond = Null THEN Null ELSE dst.cond]

(* A control of the service, in the place of one that the state has.       *)
mergeBaseControlFromPlan(dst, src) ==
    [id |-> src.id,
     title |-> IF src.title = Null THEN Null ELSE dst.title,
     level |-> src.level,
     cond |-> IF src.cond = Null THEN Null ELSE dst.cond]

mergeControls(dst, src) ==
    [i \in DOMAIN dst |->
        IF i \in DOMAIN src THEN mergeBaseControlFromPlan(dst[i], src[i]) ELSE dst[i]]

mergeProjectsIdsFromPlan(dst, src) ==
    CASE src = Null -> Null
      [] src # Null /\ dst = Null -> src
      [] OTHER -> dst

mapToScmControl(control) == [control EXCEPT !.title = Null]

(* apiToState.  The state of an import knows nothing but id and type.  The *)
(* scope of an scm_posture policy is a Go map, whose order is any.         *)
ApiToState(policy, prior, scope) ==
    LET all == prior # None /\ prior.all IN
    [type |-> policy.type,
     description |-> IF policy.description = Null THEN Empty ELSE policy.description,
     projects |-> mergeProjectsIdsFromPlan(policy.projects,
                                           IF prior = None THEN Null ELSE prior.projects),
     all |-> all,
     controls |-> CASE policy.type = "scm_posture" ->
                            [i \in DOMAIN policy.controls |-> mapToScmControl(policy.controls[i])]
                    [] policy.type = "section" /\ all -> << >>
                    [] OTHER -> IF prior = None THEN policy.controls
                                ELSE mergeControls(policy.controls, prior.controls),
     scope |-> scope]

-----------------------------------------------------------------------------
Init ==
    /\ config = None
    /\ state = None
    /\ \E stranger \in Strangers \cup {None} :
          remote = [id \in 1 .. MaxId |-> IF id = 1 THEN stranger ELSE None]
    /\ nextId = 2
    /\ catalog \in Catalogs
    /\ unlucky \in BOOLEAN
    /\ op = NoOp
    /\ drifted = FALSE
    /\ edits = 0 /\ failures = 0 /\ changes = 0

EditConfig(new) ==
    /\ Idle
    /\ new # config
    /\ edits < MaxEdits
    /\ edits' = edits + 1
    /\ config' = new
    /\ UNCHANGED <<state, remote, nextId, service, op, drifted, failures, changes>>

-----------------------------------------------------------------------------
(* Create and Update.  planToAPI refuses a scope that is empty.            *)
Sendable(plan) == plan.type = "scm_posture" => plan.scope # << >>

FirstCall(plan) == IF plan.all THEN "expand" ELSE "enrich"

BeginCreate ==
    /\ Idle
    /\ config # None
    /\ Sendable(config)
    /\ state = None
    /\ nextId <= MaxId
    /\ Begin("create", FirstCall(config), 0, config)
    /\ UNCHANGED <<config, state, remote, nextId, service, drifted, counters>>

BeginUpdate ==
    /\ Idle
    /\ config # None
    /\ Sendable(config)
    /\ state # None
    /\ config # state.plan
    /\ config.type = state.plan.type
    /\ ~state.builtin
    /\ Begin("update", FirstCall(config), state.id, config)
    /\ UNCHANGED <<config, state, remote, nextId, service, drifted, counters>>

AddAllCatalogControls(outcome) ==
    /\ At("expand")
    /\ outcome \in {"fine", "refused", "unanswered"}
    /\ Failing(outcome)
    /\ IF outcome = "fine"
       THEN op' = [op EXCEPT !.pc = "enrich", !.controls = scopeEntries]
       ELSE End
    /\ UNCHANGED <<config, state, remote, nextId, service, drifted>>

EnrichShiftLeftPolicyFromCatalog(outcome) ==
    /\ At("enrich")
    /\ outcome \in {"fine", "refused", "unanswered"}
    /\ Failing(outcome)
    /\ IF outcome = "fine" /\ catalog # << >> /\ ~UnknownId(op.controls)
       THEN op' = [op EXCEPT !.pc = "write",
                             !.controls = [i \in DOMAIN @ |-> Enriched(@[i])]]
       ELSE End
    /\ UNCHANGED <<config, state, remote, nextId, service, drifted>>

CreateShiftLeftPolicy(outcome) ==
    /\ At("write") /\ op.kind = "create"
    /\ Failing(outcome)
    /\ End
    /\ IF outcome \in {"fine", "lost"}
       THEN /\ \E new \in Written(op.plan, op.controls, Null) :
                 remote' = [remote EXCEPT ![nextId] = new]
            /\ nextId' = nextId + 1
       ELSE UNCHANGED <<remote, nextId>>
    /\ IF outcome = "fine"
       THEN state' = Stored(op.plan, nextId) /\ drifted' = op.stale
       ELSE UNCHANGED <<state, drifted>>
    /\ UNCHANGED <<config, service>>

(* The PUT.  It is followed by a GET.                                      *)
UpdateShiftLeftPolicy(outcome) ==
    /\ At("write") /\ op.kind = "update"
    /\ CallOn(outcome)
    /\ IF outcome \in {"fine", "lost"}
       THEN \E new \in Written(op.plan, op.controls, remote[op.id].projects) :
              remote' = [remote EXCEPT ![op.id] = new]
       ELSE UNCHANGED remote
    /\ IF outcome = "fine" THEN Goto("verify") ELSE End
    /\ drifted' = CASE outcome = "fine" -> op.stale
                     [] outcome = "lost" -> TRUE
                     [] OTHER -> drifted
    /\ UNCHANGED <<config, state, nextId, service>>

VerifyUpdate(outcome) ==
    /\ At("verify")
    /\ outcome \in {"fine", "refused", "unanswered"}
    /\ CallOn(outcome)
    /\ End
    /\ IF outcome = "fine"
       THEN state' = Stored(op.plan, op.id) /\ UNCHANGED drifted
       ELSE UNCHANGED state /\ drifted' = TRUE
    /\ UNCHANGED <<config, remote, nextId, service>>

-----------------------------------------------------------------------------
(* Read, also at the end of an import, whose prior state is empty.         *)
BeginRead ==
    /\ Idle
    /\ state # None
    /\ Begin("read", "head", state.id, state.plan)
    /\ UNCHANGED <<config, state, remote, nextId, service, drifted, counters>>

(* Nothing is left for the catalog to complete.                            *)
Completed(policy) ==
    \A i \in DOMAIN policy.controls :
        policy.controls[i].id \in Known => policy.controls[i].cond # Null

(* ImportState has looked for the policy with a GET.                       *)
ImportState(id) ==
    /\ Idle
    /\ state = None
    /\ Exists(id)
    /\ edits < MaxEdits
    /\ edits' = edits + 1
    /\ Begin("import", "head", id, None)
    /\ drifted' = ~Completed(remote[id])
    /\ UNCHANGED <<config, state, remote, nextId, service, failures, changes>>

(* Any status but 200 is a policy that is gone; no answer is a panic.      *)
DoesShiftLeftPolicyExist(outcome) ==
    /\ At("head")
    /\ outcome \in {"fine", "refused", "unanswered"}
    /\ CallOn(outcome)
    /\ CASE outcome = "fine" -> Goto("get") /\ UNCHANGED <<state, drifted>>
         [] outcome = "refused" -> End /\ state' = None /\ drifted' = FALSE
         [] outcome = "unanswered" -> End /\ UNCHANGED <<state, drifted>>
    /\ UNCHANGED <<config, remote, nextId, service>>

GetShiftLeftPolicy(outcome) ==
    /\ At("get")
    /\ outcome \in {"fine", "refused", "unanswered"}
    /\ CallOn(outcome)
    /\ End
    /\ IF outcome = "fine"
       THEN \E scope \in SetToSeqs(remote[op.id].scope) :
              state' = [id |-> op.id, builtin |-> remote[op.id].builtin,
                        plan |-> ApiToState(remote[op.id], op.plan, scope)]
       ELSE UNCHANGED state
    /\ UNCHANGED <<config, remote, nextId, service, drifted>>

-----------------------------------------------------------------------------
(* Delete, also for a policy whose type is configured to be another.       *)
BeginDelete ==
    /\ Idle
    /\ state # None
    /\ ~state.builtin
    /\ config # None => config.type # state.plan.type
    /\ Begin("delete", "delete", state.id, None)
    /\ UNCHANGED <<config, state, remote, nextId, service, drifted, counters>>

(* Mutant: whatever went wrong, the policy is taken for deleted.           *)
DeleteShiftLeftPolicyAnyway(outcome) ==
    /\ At("delete")
    /\ CallOn(outcome)
    /\ End
    /\ remote' = IF outcome \in {"fine", "lost"} THEN [remote EXCEPT ![op.id] = None] ELSE remote
    /\ state' = None /\ drifted' = FALSE
    /\ UNCHANGED <<config, nextId, service>>

(* An error whose text contains "404" is a policy that is gone already.    *)
(* The text of a call without an answer contains the URL, and so the id.   *)
DeleteShiftLeftPolicy(outcome) ==
    LET done == \/ outcome = "fine" \/ ~Exists(op.id)
                \/ outcome \in {"unanswered", "lost"} /\ unlucky
    IN
    /\ At("delete")
    /\ CallOn(outcome)
    /\ End
    /\ remote' = IF outcome \in {"fine", "lost"} THEN [remote EXCEPT ![op.id] = None] ELSE remote
    /\ IF done THEN state' = None /\ drifted' = FALSE ELSE UNCHANGED <<state, drifted>>
    /\ UNCHANGED <<config, nextId, service>>

-----------------------------------------------------------------------------
(* The console, and the catalog.                                           *)
Outside ==
    /\ changes < MaxChanges
    /\ changes' = changes + 1
    /\ UNCHANGED <<config, state, nextId, unlucky, edits, failures>>

(* Somebody changes the level or the conditions of a control, removes it,  *)
(* or swaps it with the first; or changes description or projects.         *)
ChangedControls(list) ==
    {[list EXCEPT ![i].level = v] : i \in DOMAIN list, v \in Values}
      \cup {[list EXCEPT ![i].cond = v] : i \in DOMAIN list, v \in Values}
      \cup {RemoveAt(list, i) : i \in DOMAIN list}
      \cup {[list EXCEPT ![1] = list[i], ![i] = list[1]] : i \in DOMAIN list}

Changed(policy) ==
    {[policy EXCEPT !.controls = list] : list \in ChangedControls(policy.controls)}
      \cup {[policy EXCEPT !.description = v] : v \in Values}
      \cup {[policy EXCEPT !.projects = v] : v \in Values \cup {Null}}

ChangeOutside(id) ==
    /\ Outside
    /\ Exists(id)
    /\ id \in {op.id} \cup (IF state = None THEN {} ELSE {state.id})
    /\ ~remote[id].builtin
    /\ \E new \in Changed(remote[id]) \ {remote[id]} : remote' = [remote EXCEPT ![id] = new]
    /\ drifted' = TRUE
    /\ UNCHANGED <<op, catalog>>

DeleteOutside(id) ==
    /\ Outside
    /\ Exists(id)
    /\ ~remote[id].builtin
    /\ remote' = [remote EXCEPT ![id] = None]
    /\ UNCHANGED <<op, catalog, drifted>>

(* Controls come and go.                                                   *)
ChangeCatalog(new) ==
    /\ Outside
    /\ new # catalog
    /\ catalog' = new
    /\ op' = IF Idle THEN op ELSE [op EXCEPT !.stale = TRUE]
    /\ drifted' = TRUE
    /\ UNCHANGED remote

-----------------------------------------------------------------------------
Apply == BeginCreate \/ BeginUpdate \/ BeginDelete

Handler ==
    \E o \in Outcomes :
        \/ AddAllCatalogControls(o) \/ EnrichShiftLeftPolicyFromCatalog(o)
        \/ CreateShiftLeftPolicy(o) \/ UpdateShiftLeftPolicy(o) \/ VerifyUpdate(o)
        \/ DoesShiftLeftPolicyExist(o) \/ GetShiftLeftPolicy(o)
        \/ DeleteShiftLeftPolicy(o)

Environment ==
    \/ \E new \in Configs \cup {None} : EditConfig(new)
    \/ \E id \in 1 .. MaxId : ImportState(id) \/ ChangeOutside(id) \/ DeleteOutside(id)
    \/ \E new \in Catalogs : ChangeCatalog(new)

Next == Apply \/ BeginRead \/ Handler \/ Environment

(* Handlers run to their end (ApiClient: every call returns), and the user *)
(* keeps running terraform apply, which refreshes first.                   *)
Spec ==
    /\ Init /\ [][Next]_vars
    /\ WF_vars(Handler) /\ SF_vars(BeginRead) /\ SF_vars(Apply)

-----------------------------------------------------------------------------
(* The type of every variable.                                             *)
Kinds == {"none", "create", "read", "import", "update", "delete"}
Calls == {"", "expand", "enrich", "write", "verify", "head", "get", "delete"}

TypeOK ==
    /\ config \in Configs \cup {None}
    /\ state \in States \cup {None}
    /\ remote \in [1 .. MaxId -> Policies \cup {None}]
    /\ nextId \in 1 .. MaxId + 1
    /\ catalog \in Catalogs /\ unlucky \in BOOLEAN /\ drifted \in BOOLEAN
    /\ op \in [kind : Kinds, pc : Calls, id : 0 .. MaxId, plan : Plans \cup {None},
               controls : Seq(Controls), stale : BOOLEAN]
    /\ edits \in Nat /\ failures \in Nat /\ changes \in Nat

-----------------------------------------------------------------------------
(* The policy has the control that is configured: every field that is      *)
(* given, and the conditions of the catalog when none are.                 *)
Has(control, given) ==
    /\ control.level = given.level
    /\ given.id \in {Null, control.id}
    /\ given.title \in {Null, control.title}
    /\ given.title = Null => control.title = given.id
    /\ given.cond \in {Null, control.cond}
    /\ given.cond = Null /\ control.id \in Known => control.cond = Base

HasAll(policy, plan) ==
    IF plan.all
    THEN /\ Len(policy.controls) = Len(catalog)
         /\ {policy.controls[i].id : i \in DOMAIN policy.controls} = Known
    ELSE /\ Len(policy.controls) = Len(plan.controls)
         /\ \A i \in DOMAIN plan.controls : Has(policy.controls[i], plan.controls[i])

(* The policy is what the plan says, and the catalog.                      *)
Exact(policy, plan) ==
    /\ HasAll(policy, plan)
    /\ policy.scope = ToSet(plan.scope)
    /\ policy.description = plan.description
          \/ (policy.description = Null /\ plan.description = Empty)
    /\ plan.projects \in {Null, policy.projects}

(* Whatever is stored after a write, after a refresh of what was written,  *)
(* and after an import, the service has it: the configured controls in     *)
(* their order, completed from the catalog, or all of the catalog.  That   *)
(* is so until somebody interferes or an update ends with an error, and    *)
(* unless an import finds a control of which the catalog now has more.     *)
(* Where the state has no projects the policy may have some: an import     *)
(* leaves them out, and an update need not take away the last one.         *)
StateIsExact ==
    Idle /\ state # None /\ ~drifted /\ Exists(state.id) =>
        Exact(remote[state.id], state.plan)

Tracked(id) ==
    (state # None /\ id = state.id) \/ (op.kind = "import" /\ id = op.id)

(* "Persist what we know rather than leaking": a policy is forgotten, or   *)
(* never known, only when a HEAD is answered with an error status, when a  *)
(* POST reports an error and took effect, and when a DELETE that has not   *)
(* taken effect gets no answer and the id contains "404".                  *)
NeverLost ==
    [][\A id \in 1 .. MaxId :
         /\ Tracked(id) /\ Exists(id) /\ Exists(id)' =>
              \/ Tracked(id)'
              \/ failures' > failures /\ (At("head") \/ At("get") \/ (At("delete") /\ unlucky))
         /\ ~Exists(id) /\ Exists(id)' => Tracked(id)' \/ failures' > failures]_vars

(* A configuration that is the same after it has been written and read.    *)
Repeatable(plan) ==
    /\ plan.description # Null
    /\ plan.all => plan.controls = << >>
    /\ plan.type = "scm_posture" =>
          /\ Cardinality(ToSet(plan.scope)) = 1 /\ Len(plan.scope) = 1
          /\ \A i \in DOMAIN plan.controls : plan.controls[i].cond # Null

(* What a refresh looks at: the text of what is spelled out, and how many  *)
(* controls there are.                                                     *)
Looks(policy, plan) ==
    /\ policy.description = plan.description
    /\ Null \in {plan.projects, policy.projects} \/ plan.projects = policy.projects
    /\ plan.all \/
          /\ Len(policy.controls) = Len(plan.controls)
          /\ \A i \in DOMAIN plan.controls :
                /\ plan.controls[i].title \in {Null, policy.controls[i].title}
                /\ plan.controls[i].cond \in {Null, policy.controls[i].cond}
                /\ plan.type = "scm_posture" =>
                      /\ plan.controls[i].id = policy.controls[i].id
                      /\ plan.controls[i].level = policy.controls[i].level

InSync ==
    IF config = None THEN state = None
    ELSE /\ state # None
         /\ state.plan = config
         /\ Exists(state.id)
         /\ IF drifted THEN Looks(remote[state.id], config)
            ELSE /\ HasAll(remote[state.id], config)
                 /\ config.projects \in {Null, remote[state.id].projects}

(* Once edits, failures and interference end, applying again and again     *)
(* makes the service and the state what is configured, for good; what      *)
(* somebody else has changed is put right if a refresh looks at it.        *)
Converges ==
    <>[](/\ config # None =>
               Repeatable(config) /\ Sendable(config) /\ ~UnknownId(config.controls)
         /\ nextId <= MaxId /\ catalog # << >>
         /\ state # None => ~state.builtin)
      => <>[]InSync
===============================================================================
