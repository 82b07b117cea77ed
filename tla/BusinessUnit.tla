------------------------------ MODULE BusinessUnit ------------------------------
(***************************************************************************)
(* The resource orcasecurity_business_unit (business_unit/resource.go,     *)
(* api_client/business_unit.go) under Terraform core.                      *)
(*                                                                         *)
(* A business unit selects resources by filters.  Create and Update choose *)
(* what they send of those that are configured, each by a sequence of      *)
(* conditions of its own, and store the plan as a whole; Read stores all   *)
(* the filters the service has.  What is configured, sent, stored and read *)
(* back may thus be four different things.                                 *)
(*                                                                         *)
(* owner stands for the metadata: texts and lists that are always sent,    *)
(* empty when they are not configured.  A filter is one value.             *)
(***************************************************************************)
EXTENDS Integers, Sequences, FiniteSetsExt

CONSTANTS
    Values,         \* what a filter or the metadata may be, but for the empty list
    Null,           \* not configured, or not known yet
    Empty,          \* configured as an empty list or text
    None,           \* no business unit
    Configs,        \* bound: the configurations of a run
    MaxId,          \* bound: business units ever made
    MaxEdits,       \* bound: edits of the configuration, and imports
    MaxFailures,    \* bound: calls that fail
    MaxChanges      \* bound: changes in the console

FilterTypes == {"cloud_providers", "cloud_vendor_id", "cloud_account_tags", "cloud_tags",
                "custom_tags"}
RemoteAttributes == FilterTypes \cup {"projects", "owner"}
Attributes == RemoteAttributes \cup {"cloud_account_ids"}

Plans == [at : [Attributes -> Values \cup {Null, Empty}], global : BOOLEAN \cup {Null}]
States == [id : 1 .. MaxId, at : [Attributes -> Values \cup {Null, Empty}], global : BOOLEAN]
Units == [at : [RemoteAttributes -> Values \cup {Null}], global : BOOLEAN]

ASSUME BusinessUnitAssumption ==
    /\ {MaxId, MaxEdits, MaxFailures, MaxChanges} \subseteq Nat
    /\ Null \notin Values /\ Empty \notin Values /\ Null # Empty
    /\ Configs \subseteq Plans
    /\ None \notin Plans \cup Units \cup States

VARIABLES
    config,     \* what the user has written, or None
    state,      \* what Terraform tracks, or None
    remote,     \* the business units of the service
    nextId,     \* the id of the next one
    merges,     \* a PUT keeps a filter block that it leaves out
    op,         \* the handler that runs: its next call, and its plan
    suspect,    \* something failed or interfered since the state was stored
    edits, failures, changes

vars == <<config, state, remote, nextId, merges, op, suspect, edits, failures, changes>>
counters == <<edits, failures, changes>>

-----------------------------------------------------------------------------
NoOp == [kind |-> "none", pc |-> "", id |-> 0, plan |-> None]
Idle == op = NoOp
At(pc) == op.pc = pc
Exists(id) == remote[id] # None

Begin(kind, pc, id, plan) == op' = [kind |-> kind, pc |-> pc, id |-> id, plan |-> plan]
Goto(pc) == op' = [op EXCEPT !.pc = pc]

(* A call succeeds, fails, or takes effect and reports an error.           *)
Outcomes == {"fine", "failed", "lost"}

Failing(outcome) ==
    /\ failures' = IF outcome = "fine" THEN failures ELSE failures + 1
    /\ failures' <= MaxFailures
    /\ UNCHANGED <<edits, changes>>

(* A call about a business unit that is gone is refused.                   *)
CallOn(outcome) ==
    IF Exists(op.id) THEN Failing(outcome) ELSE outcome = "failed" /\ UNCHANGED counters

-----------------------------------------------------------------------------
(* What is sent.                                                           *)
Given(plan, a) == plan.at[a] \notin {Null, Empty}

(* The deprecated attribute counts when the other one is empty.            *)
getCloudVendorIds(plan) ==
    IF Given(plan, "cloud_vendor_id") THEN plan.at["cloud_vendor_id"]
    ELSE plan.at["cloud_account_ids"]

Configured(plan, a) ==
    IF a = "cloud_vendor_id" THEN getCloudVendorIds(plan) \notin {Null, Empty}
    ELSE Given(plan, a)

(* The first of the filters that is configured, if any.                    *)
First(order, plan) ==
    LET given == {i \in DOMAIN order : Configured(plan, order[i])} IN
    IF given = {} THEN {} ELSE {order[Min(given)]}

CreateFilters(plan) ==
    First(<<"cloud_providers", "cloud_vendor_id", "custom_tags", "cloud_account_tags",
            "cloud_tags">>, plan)
      \cup First(<<"projects">>, plan)

(* Mutant: cloud accounts go alone, whatever else there is.                *)
UpdateFiltersOneOnly(plan) ==
    First(<<"cloud_providers", "cloud_vendor_id", "projects", "custom_tags", "cloud_tags",
            "cloud_account_tags">>, plan)

(* The conditions of Update, in their order.                               *)
UpdateFilters(plan) ==
    IF Configured(plan, "projects") /\ ~Configured(plan, "cloud_providers")
    THEN {"projects"} \cup First(<<"cloud_vendor_id">>, plan)
    ELSE First(<<"cloud_providers", "custom_tags", "cloud_tags", "cloud_account_tags",
                 "cloud_vendor_id">>, plan)

(* The branches of Update that send nothing but filter_data read the       *)
(* business unit afterwards.                                               *)
Verified(plan) == UpdateFilters(plan) \cap FilterTypes # {} /\ "projects" \notin UpdateFilters(plan)

(* Mutant: the deprecated attribute is not sent.                           *)
PayloadCurrent(plan, filters) ==
    [a \in RemoteAttributes |->
        IF (a = "owner" \/ a \in filters) /\ Given(plan, a) THEN plan.at[a] ELSE Null]

(* filter_data, shiftleft_filter_data and the metadata of a request.       *)
Payload(plan, filters) ==
    [a \in RemoteAttributes |->
        CASE a = "owner" -> IF Given(plan, a) THEN plan.at[a] ELSE Null
          [] a = "cloud_vendor_id" /\ a \in filters -> getCloudVendorIds(plan)
          [] a \in filters \ {"cloud_vendor_id"} -> plan.at[a]
          [] OTHER -> Null]

-----------------------------------------------------------------------------
(* What is stored.                                                         *)
Stored(plan, id, global) == [id |-> id, at |-> plan.at, global |-> global]

(* Read: all filters of the service, the cloud accounts in the deprecated  *)
(* attribute when the state had them there; an empty text is null.         *)
ReadBack(at, hadDeprecatedCloudAccountIds) ==
    [a \in Attributes |->
        CASE a = "cloud_account_ids" ->
                IF hadDeprecatedCloudAccountIds THEN at["cloud_vendor_id"] ELSE Null
          [] a = "cloud_vendor_id" /\ hadDeprecatedCloudAccountIds -> Null
          [] OTHER -> at[a]]

FromService(id, hadDeprecatedCloudAccountIds) ==
    [id |-> id, at |-> ReadBack(remote[id].at, hadDeprecatedCloudAccountIds),
     global |-> remote[id].global]

-----------------------------------------------------------------------------
(* The service.                                                            *)
PostEffect(plan) ==
    /\ remote' = [remote EXCEPT ![nextId] =
           [at |-> Payload(plan, CreateFilters(plan)),
            global |-> IF plan.global = Null THEN TRUE ELSE plan.global]]
    /\ nextId' = nextId + 1

Block(a) == IF a \in FilterTypes THEN FilterTypes ELSE {a}

(* filter_data and shiftleft_filter_data are replaced as blocks.           *)
PutEffect(plan) ==
    LET sent == UpdateFilters(plan)
        kept(a) == merges /\ a # "owner" /\ Block(a) \cap sent = {}
    IN
    remote' = [remote EXCEPT ![op.id] =
        [at |-> [a \in RemoteAttributes |->
                    IF kept(a) THEN @.at[a] ELSE Payload(plan, sent)[a]],
         global |-> plan.global]]

-----------------------------------------------------------------------------
Init ==
    /\ config = None
    /\ state = None
    /\ remote = [id \in 1 .. MaxId |-> None]
    /\ nextId = 1
    /\ merges \in BOOLEAN
    /\ op = NoOp
    /\ suspect = FALSE
    /\ edits = 0 /\ failures = 0 /\ changes = 0

EditConfig(new) ==
    /\ Idle
    /\ new # config
    /\ edits < MaxEdits
    /\ edits' = edits + 1
    /\ config' = new
    /\ UNCHANGED <<state, remote, nextId, merges, op, suspect, failures, changes>>

-----------------------------------------------------------------------------
(* Create: CreateBusinessUnit, then resolveCreatedGlobalFilter.            *)
BeginCreate ==
    /\ Idle
    /\ config # None
    /\ state = None
    /\ nextId <= MaxId
    /\ Begin("create", "post", 0, config)
    /\ UNCHANGED <<config, state, remote, nextId, merges, suspect, counters>>

(* The answer tells whether the business unit is global, or only its id.   *)
PostBusinessUnit(outcome, echoes) ==
    /\ At("post")
    /\ Failing(outcome)
    /\ IF outcome = "failed" THEN UNCHANGED <<remote, nextId>> ELSE PostEffect(op.plan)
    /\ CASE outcome # "fine" ->
                op' = NoOp /\ UNCHANGED <<state, suspect>>
         [] outcome = "fine" /\ (echoes \/ op.plan.global # Null) ->
                /\ op' = NoOp
                /\ state' = Stored(op.plan, nextId, remote'[nextId].global)
                /\ suspect' = FALSE
         [] OTHER ->
                /\ op' = [op EXCEPT !.pc = "create-get", !.id = nextId]
                /\ UNCHANGED <<state, suspect>>
    /\ UNCHANGED <<config, merges>>

(* An error, a business unit that is gone and one that does not say        *)
(* whether it is global all fail Create, and nothing is stored.            *)
resolveCreatedGlobalFilter(outcome) ==
    /\ At("create-get")
    /\ outcome \in {"fine", "failed"}
    /\ CallOn(outcome)
    /\ op' = NoOp
    /\ IF outcome = "fine"
       THEN state' = Stored(op.plan, op.id, remote[op.id].global)
       ELSE UNCHANGED state
    /\ UNCHANGED <<config, remote, nextId, merges, suspect>>

-----------------------------------------------------------------------------
(* Read: DoesBusinessUnitExist, GetBusinessUnit.                           *)
BeginRead ==
    /\ Idle
    /\ state # None
    /\ Begin("read", "head", state.id, None)
    /\ UNCHANGED <<config, state, remote, nextId, merges, suspect, counters>>

(* Any status but 200 is a business unit that is gone; a HEAD that gets no *)
(* answer at all kills the plugin.                                         *)
HeadOutcomes == {"fine", "status", "panic"}

DoesBusinessUnitExist(outcome) ==
    /\ At("head")
    /\ Failing(outcome)
    /\ CASE outcome = "fine" /\ Exists(op.id) -> Goto("read-get") /\ UNCHANGED <<state, suspect>>
         [] outcome = "panic" -> op' = NoOp /\ UNCHANGED <<state, suspect>>
         [] OTHER -> op' = NoOp /\ state' = None /\ suspect' = FALSE
    /\ UNCHANGED <<config, remote, nextId, merges>>

ReadBusinessUnit(outcome) ==
    /\ At("read-get")
    /\ outcome \in {"fine", "failed"}
    /\ CallOn(outcome)
    /\ op' = NoOp
    /\ IF outcome = "fine"
       THEN /\ state' = FromService(op.id, state.at["cloud_account_ids"] \notin {Null, Empty})
            /\ suspect' = FALSE
       ELSE UNCHANGED <<state, suspect>>
    /\ UNCHANGED <<config, remote, nextId, merges>>

(* terraform import: the one GET of ImportState.                           *)
ImportState(id) ==
    /\ Idle
    /\ state = None
    /\ Exists(id)
    /\ edits < MaxEdits
    /\ edits' = edits + 1
    /\ state' = FromService(id, FALSE)
    /\ suspect' = FALSE
    /\ UNCHANGED <<config, remote, nextId, merges, op, failures, changes>>

-----------------------------------------------------------------------------
(* Update.  global_filter is computed: what is not configured is planned   *)
(* as it was (UseStateForUnknown).                                         *)

(* The plan of an update.                                                  *)
Planned == [config EXCEPT !.global = IF @ = Null THEN state.global ELSE @]

Differs == state.at # Planned.at \/ state.global # Planned.global

BeginUpdate ==
    /\ Idle
    /\ config # None
    /\ state # None
    /\ Differs
    /\ Begin("update", "put", state.id, Planned)
    /\ UNCHANGED <<config, state, remote, nextId, merges, suspect, counters>>

(* A PUT writes everything but the blocks that a service which merges      *)
(* keeps.                                                                  *)
UpdateBusinessUnit(outcome) ==
    LET stores == outcome = "fine" /\ ~Verified(op.plan) IN
    /\ At("put")
    /\ CallOn(outcome)
    /\ IF outcome = "failed" THEN UNCHANGED remote ELSE PutEffect(op.plan)
    /\ state' = IF stores THEN Stored(op.plan, op.id, op.plan.global) ELSE state
    /\ suspect' = CASE outcome = "fine" -> suspect /\ merges
                    [] outcome = "failed" -> suspect
                    [] outcome = "lost" -> TRUE
    /\ IF outcome = "fine" /\ Verified(op.plan) THEN Goto("verify") ELSE op' = NoOp
    /\ UNCHANGED <<config, nextId, merges>>

(* The GET whose result is not looked at, only its error.                  *)
VerifyUpdate(outcome) ==
    /\ At("verify")
    /\ outcome \in {"fine", "failed"}
    /\ CallOn(outcome)
    /\ op' = NoOp
    /\ IF outcome = "fine"
       THEN state' = Stored(op.plan, op.id, op.plan.global) /\ UNCHANGED suspect
       ELSE UNCHANGED state /\ suspect' = TRUE
    /\ UNCHANGED <<config, remote, nextId, merges>>

-----------------------------------------------------------------------------
BeginDelete ==
    /\ Idle
    /\ config = None
    /\ state # None
    /\ Begin("delete", "delete", state.id, None)
    /\ UNCHANGED <<config, state, remote, nextId, merges, suspect, counters>>

(* Mutant: an error does not keep the business unit in the state.          *)
DeleteBusinessUnitAnyway(outcome) ==
    /\ At("delete")
    /\ CallOn(outcome)
    /\ op' = NoOp
    /\ remote' = IF outcome = "failed" THEN remote ELSE [remote EXCEPT ![op.id] = None]
    /\ state' = None /\ suspect' = FALSE
    /\ UNCHANGED <<config, nextId, merges>>

DeleteBusinessUnit(outcome) ==
    /\ At("delete")
    /\ CallOn(outcome)
    /\ op' = NoOp
    /\ remote' = IF outcome = "failed" THEN remote ELSE [remote EXCEPT ![op.id] = None]
    /\ IF outcome = "fine"
       THEN state' = None /\ suspect' = FALSE
       ELSE UNCHANGED <<state, suspect>>
    /\ UNCHANGED <<config, nextId, merges>>

-----------------------------------------------------------------------------
(* The console: somebody sets or removes a filter, or the metadata, or     *)
(* deletes the business unit.                                              *)
Outside ==
    /\ changes < MaxChanges
    /\ changes' = changes + 1
    /\ UNCHANGED <<config, state, nextId, merges, op, edits, failures>>

ChangeOutside(id, a, value) ==
    /\ Outside
    /\ Exists(id)
    /\ id \in {op.id} \cup (IF state = None THEN {} ELSE {state.id})
    /\ value # remote[id].at[a]
    /\ remote' = [remote EXCEPT ![id].at[a] = value]
    /\ suspect' = TRUE

DeleteOutside(id) ==
    /\ Outside
    /\ Exists(id)
    /\ remote' = [remote EXCEPT ![id] = None]
    /\ UNCHANGED suspect

-----------------------------------------------------------------------------
Apply == BeginCreate \/ BeginUpdate \/ BeginDelete

Handler ==
    \/ \E o \in HeadOutcomes : DoesBusinessUnitExist(o)
    \/ \E o \in Outcomes :
        \/ \E echoes \in BOOLEAN : PostBusinessUnit(o, echoes)
        \/ resolveCreatedGlobalFilter(o)
        \/ ReadBusinessUnit(o) \/ UpdateBusinessUnit(o) \/ VerifyUpdate(o)
        \/ DeleteBusinessUnit(o)

Environment ==
    \/ \E new \in Configs \cup {None} : EditConfig(new)
    \/ \E id \in 1 .. MaxId :
          \/ ImportState(id) \/ DeleteOutside(id)
          \/ \E a \in RemoteAttributes, v \in Values \cup {Null} : ChangeOutside(id, a, v)

Next == Apply \/ BeginRead \/ Handler \/ Environment

(* Handlers run to their end (ApiClient: every call returns), and the user *)
(* keeps running terraform apply, which refreshes first.                   *)
Spec ==
    /\ Init /\ [][Next]_vars
    /\ WF_vars(Handler) /\ SF_vars(BeginRead) /\ SF_vars(Apply)

-----------------------------------------------------------------------------
Ops == [kind : {"none", "create", "read", "update", "delete"},
        pc : {"", "post", "create-get", "head", "read-get", "put", "verify", "delete"},
        id : 0 .. MaxId, plan : Plans \cup {None}]

(* The shape of the state.                                                 *)
TypeOK ==
    /\ config \in Configs \cup {None}
    /\ state \in States \cup {None}
    /\ remote \in [1 .. MaxId -> Units \cup {None}]
    /\ nextId \in 1 .. MaxId + 1
    /\ merges \in BOOLEAN /\ suspect \in BOOLEAN
    /\ op \in Ops
    /\ op.kind = "update" => op.plan.global \in BOOLEAN
    /\ edits \in Nat /\ failures \in Nat /\ changes \in Nat

(* "A business unit cannot be composed of multiple, different filter       *)
(* types"; Shift Left projects go with cloud accounts (the acceptance test *)
(* CloudAndShiftLeft), not with the other types; and nothing is empty.     *)
Documented(plan) ==
    LET types == {a \in Attributes \ {"owner"} : plan.at[a] # Null} IN
    /\ \A a \in Attributes : plan.at[a] # Empty
    /\ \/ Cardinality(types) <= 1
       \/ types = {"cloud_vendor_id", "projects"}
       \/ types = {"cloud_account_ids", "projects"}

(* Whatever Create and Update choose to send, the filters and the metadata *)
(* in the state are those the service has, between two handlers and unless *)
(* something failed or interfered, for every configuration that the        *)
(* documentation allows.  A service that merges may have a filter more,    *)
(* which was removed from the configuration: no call clears it.            *)
StateIsExact ==
    Idle /\ state # None /\ ~suspect /\ Documented(state) =>
        \/ ~Exists(state.id)
        \/ /\ state.global = remote[state.id].global
           /\ \A a \in RemoteAttributes :
                 LET stored == IF a = "cloud_vendor_id" THEN getCloudVendorIds(state)
                               ELSE state.at[a]
                 IN stored = remote[state.id].at[a] \/ (merges /\ stored = Null)

Tracked(id) ==
    (state # None /\ id = state.id) \/ (op.kind = "create" /\ id = op.id)

(* A business unit is lost only by a HEAD that is answered with an error   *)
(* status, by a POST that reports an error and took effect, and by the GET *)
(* after the POST, which is made for a configuration that leaves           *)
(* global_filter out; no other failure forgets one.                        *)
NeverLost ==
    [][\A id \in 1 .. MaxId :
         /\ Tracked(id) /\ Exists(id) /\ Exists(id)' =>
              \/ Tracked(id)'
              \/ failures' > failures
                   /\ (At("head") \/ (At("create-get") /\ op.plan.global = Null))
         /\ ~Exists(id) /\ Exists(id)' => Tracked(id)' \/ failures' > failures]_vars

InSync ==
    IF config = None THEN state = None
    ELSE /\ state # None
         /\ state.at = config.at
         /\ config.global \in {Null, state.global}
         /\ Exists(state.id)
         /\ remote[state.id].global = state.global
         /\ \A a \in RemoteAttributes \ {"cloud_vendor_id"} : remote[state.id].at[a] = config.at[a]
         /\ remote[state.id].at["cloud_vendor_id"] = getCloudVendorIds(config)

(* A filter block that the service has, the configuration has not, and no  *)
(* PUT clears.                                                             *)
Residue ==
    merges /\ state # None /\ config # None /\ Exists(state.id)
      /\ \E a \in RemoteAttributes \ {"owner"} :
            /\ remote[state.id].at[a] # Null
            /\ \A b \in Block(a) : ~Configured(config, b)

(* Once edits, failures and interference end, applying again and again     *)
(* makes the service and the state what is configured, for good.  So a     *)
(* refresh leaves the state as it is: "populate only CloudAccountIds so    *)
(* state matches config (avoids planned update)".                          *)
Converges ==
    <>[](/\ config # None => Documented(config)
         /\ nextId <= MaxId
         /\ ~Residue)
      => <>[]InSync
===============================================================================
