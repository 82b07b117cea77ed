------------------------------- MODULE CustomAlert -------------------------------
(***************************************************************************)
(* The resources orcasecurity_custom_discovery_alert and                   *)
(* orcasecurity_custom_sonar_alert.                                        *)
(*                                                                         *)
(* An alert is written in parts.  Its rule and its compliance frameworks   *)
(* travel in one call, to which the service adds frameworks and does not   *)
(* replace them, so an update that replaces frameworks clears them first   *)
(* (ReplaceFrameworks).  Its remediation text is a document of its own,    *)
(* behind an endpoint of its own, written after the rule each time.        *)
(***************************************************************************)
EXTENDS Integers, Sequences

CONSTANTS
    Rules,          \* the query
    Frameworks,     \* compliance frameworks with section and priority
    Texts,          \* remediation texts
    NoText,         \* no remediation text
    Unset,          \* the rule of an alert that is being imported
    None,           \* no alert
    MaxId,          \* bound: alerts ever made
    MaxEdits,       \* bound: edits of the configuration, and imports
    MaxFailures,    \* bound: calls that fail
    MaxChanges      \* bound: changes in the console

ASSUME CustomAlertAssumption ==
    /\ {MaxEdits, MaxFailures, MaxChanges} \subseteq Nat /\ MaxId \in Nat \ {0}
    /\ Rules # {} /\ Frameworks # {}
    /\ NoText \notin Texts /\ Unset \notin Rules
    /\ None \notin [rule : Rules, frameworks : SUBSET Frameworks, text : Texts \cup {NoText}]

VARIABLES
    sonar,      \* which of the two resources
    config,     \* what the user has written, or None
    state,      \* what Terraform tracks
    remote,     \* the alerts of the service, with their texts
    nextId,     \* the id of the next one
    op,         \* the handler that runs
    suspect,    \* attributes that may differ from what the provider last knew
    edits, failures, changes

vars == <<sonar, config, state, remote, nextId, op, suspect, edits, failures, changes>>
counters == <<edits, failures, changes>>

-----------------------------------------------------------------------------
Alerts == [rule : Rules, frameworks : SUBSET Frameworks, text : Texts \cup {NoText}]
Calls == {"category", "post", "setText", "addText", "deleteText", "get", "getText", "head",
          "clear", "put", "delete"}
Values == [rule : Rules \cup {Unset}, frameworks : SUBSET Frameworks,
           text : Texts \cup {NoText}]
Attributes == {"rule", "frameworks", "text"}

(* A call fails with 400, 500, another error status, or with no answer.    *)
Failures == {"rejected", "broken", "denied", "silent"}
Answers == Failures \cup {"found", "missing"}

NoObject == [id |-> 0, value |-> None]
Blank == [rule |-> Unset, frameworks |-> {}, text |-> NoText]

(* todo: the calls to make; wrote: the attributes the handler has written, *)
(* or read, and not stored.                                                *)
NoOp == [kind |-> "none", todo |-> << >>, id |-> 0, plan |-> None, got |-> None,
         wrote |-> {}]

Idle == op.kind = "none"
Exists(id) == remote[id] # None
Due(call) == op.todo # << >> /\ Head(op.todo) = call

Begin(kind, todo, id, plan) ==
    op' = [NoOp EXCEPT !.kind = kind, !.todo = todo, !.id = id, !.plan = plan]

(* The calls for the remediation text of an alert that is there.           *)
TextCall(text) == IF text = NoText THEN "deleteText" ELSE "setText"

(* Mutant: frameworks are not cleared before they are replaced.            *)
ReplaceWithoutClear(hadOld, hasNew, text) == <<"put", TextCall(text)>>

ReplaceFrameworks(hadOld, hasNew, text) ==
    IF hadOld /\ hasNew
    THEN <<"clear", TextCall(text), "put", TextCall(text)>>
    ELSE <<"put", TextCall(text)>>

(* clear() of ReplaceFrameworks has returned, its text call included.      *)
Cleared ==
    /\ op.kind = "update"
    /\ state.value.frameworks # {} /\ op.plan.frameworks # {}
    /\ Len(op.todo) <= 2

(* Mutant: the plan is stored whole when the update fails.                 *)
AfterFailureAsPlanned == [id |-> op.id, value |-> op.plan]

(* What Update stores when update() fails after clear().                   *)
AfterFailure == [id |-> op.id, value |-> [op.plan EXCEPT !.frameworks = {}]]

(* Read keeps the query that a discovery alert has in the state, and the   *)
(* remediation text when the service has none.                             *)
Refreshed(old, new) ==
    [rule |-> IF sonar \/ old.rule = Unset THEN new.rule ELSE old.rule,
     frameworks |-> new.frameworks,
     text |-> IF new.text = NoText THEN old.text ELSE new.text]

Shown == IF sonar \/ op.plan.rule = Unset THEN {"rule", "frameworks"} ELSE {"frameworks"}

-----------------------------------------------------------------------------
Failing(failed) ==
    /\ failures' = IF failed THEN failures + 1 ELSE failures
    /\ failures' <= MaxFailures
    /\ UNCHANGED <<edits, changes>>

Proceed(todo, id, wrote) ==
    /\ op' = [op EXCEPT !.todo = todo, !.id = id, !.wrote = wrote]
    /\ UNCHANGED state

EndsWith(value) ==
    /\ op' = NoOp
    /\ state' = [id |-> op.id, value |-> value]

(* An error.  reached: what the failing call may have written.             *)
Fails(reached) ==
    /\ op' = NoOp
    /\ IF Cleared
       THEN /\ state' = AfterFailure
            /\ suspect' = suspect \cup
                 IF Due("put") THEN reached \cap {"frameworks"} ELSE {"frameworks"}
       ELSE /\ UNCHANGED state
            /\ suspect' = suspect \cup op.wrote \cup reached

(* A nil response or a nil alert is dereferenced.                          *)
Panics(reached) ==
    /\ op' = [NoOp EXCEPT !.kind = "crashed"]
    /\ UNCHANGED state
    /\ suspect' = suspect \cup op.wrote \cup reached

Removes ==
    /\ op' = NoOp
    /\ state' = NoObject
    /\ suspect' = {}

-----------------------------------------------------------------------------
(* Bound: the alert there may be to import, with a framework and any text; *)
(* rules and frameworks are interchangeable.                               *)
Legacy == [rule : {CHOOSE rule \in Rules : TRUE},
           frameworks : {{CHOOSE framework \in Frameworks : TRUE}},
           text : Texts \cup {NoText}]

Init ==
    /\ sonar \in BOOLEAN
    /\ config = None
    /\ state = NoObject
    /\ remote \in {[id \in 1 .. MaxId |-> IF id = 1 THEN first ELSE None] :
                     first \in {None} \cup Legacy}
    /\ nextId = IF remote[1] = None THEN 1 ELSE 2
    /\ op = NoOp
    /\ suspect = {}
    /\ edits = 0 /\ failures = 0 /\ changes = 0

EditConfig(new) ==
    /\ Idle
    /\ new # config
    /\ edits < MaxEdits
    /\ edits' = edits + 1
    /\ config' = new
    /\ UNCHANGED <<sonar, state, remote, nextId, op, suspect, failures, changes>>

BeginCreate ==
    /\ Idle
    /\ config # None
    /\ state = NoObject
    /\ nextId <= MaxId
    /\ Begin("create",
             <<"category", "post">>
               \o (IF config.text = NoText THEN << >> ELSE <<"setText">>)
               \o <<"get", "getText">>,
             0, config)
    /\ UNCHANGED <<sonar, config, state, remote, nextId, suspect, counters>>

BeginRead ==
    /\ Idle
    /\ state # NoObject
    /\ Begin("read", <<"head", "get", "getText">>, state.id, state.value)
    /\ UNCHANGED <<sonar, config, state, remote, nextId, suspect, counters>>

BeginUpdate ==
    /\ Idle
    /\ config # None
    /\ state # NoObject
    /\ state.value # config
    /\ Begin("update",
             <<"category">>
               \o ReplaceFrameworks(state.value.frameworks # {}, config.frameworks # {},
                                    config.text),
             state.id, config)
    /\ UNCHANGED <<sonar, config, state, remote, nextId, suspect, counters>>

BeginDelete ==
    /\ Idle
    /\ config = None
    /\ state # NoObject
    /\ Begin("delete", <<"delete">>, state.id, None)
    /\ UNCHANGED <<sonar, config, state, remote, nextId, suspect, counters>>

(* ImportState knows the id alone; the Read that follows knows no more.    *)
Import(id) ==
    /\ Idle
    /\ config # None
    /\ state = NoObject
    /\ Exists(id)
    /\ edits < MaxEdits
    /\ edits' = edits + 1
    /\ Begin("import", <<"head", "get", "getText">>, id, Blank)
    /\ UNCHANGED <<sonar, config, state, remote, nextId, suspect, failures, changes>>

-----------------------------------------------------------------------------
(* validateCategory: the categories are listed; the category is one.       *)
ListCategories(failed) ==
    /\ Due("category")
    /\ Failing(failed)
    /\ \/ failed /\ Fails({})
       \/ ~failed /\ Proceed(Tail(op.todo), op.id, {}) /\ UNCHANGED suspect
    /\ UNCHANGED <<sonar, config, remote, nextId>>

PostEffect ==
    /\ remote' = [remote EXCEPT ![nextId] = [op.plan EXCEPT !.text = NoText]]
    /\ nextId' = nextId + 1

Post ==
    /\ Due("post")
    /\ PostEffect
    /\ Proceed(Tail(op.todo), nextId, {})
    /\ suspect' = {}
    /\ UNCHANGED <<sonar, config, counters>>

PostFails(effect) ==
    /\ Due("post")
    /\ Failing(TRUE)
    /\ IF effect THEN PostEffect ELSE UNCHANGED <<remote, nextId>>
    /\ Fails({})
    /\ UNCHANGED <<sonar, config>>

(* The PUT of the rule.  The key of the frameworks is left out when there  *)
(* are none, and then the service has none either.                         *)
Sent == IF Due("clear") THEN {} ELSE op.plan.frameworks
Put ==
    [remote[op.id] EXCEPT
        !.rule = op.plan.rule,
        !.frameworks = IF Sent = {} THEN {} ELSE @ \cup Sent]
Overwritten == IF Sent = {} THEN {"rule", "frameworks"} ELSE {"rule"}

PutRule ==
    /\ Due("clear") \/ Due("put")
    /\ Exists(op.id)
    /\ remote' = [remote EXCEPT ![op.id] = Put]
    /\ Proceed(Tail(op.todo), op.id, op.wrote \cup {"rule", "frameworks"})
    /\ suspect' = suspect \ Overwritten
    /\ UNCHANGED <<sonar, config, nextId, counters>>

PutRuleFails(effect) ==
    /\ Due("clear") \/ Due("put")
    /\ Failing(effect \/ Exists(op.id))
    /\ effect => Exists(op.id)
    /\ remote' = IF effect THEN [remote EXCEPT ![op.id] = Put] ELSE remote
    /\ Fails(IF effect THEN {"rule", "frameworks"} ELSE {})
    /\ UNCHANGED <<sonar, config, nextId>>

-----------------------------------------------------------------------------
(* The remediation text.  A PUT answered by 404 is followed by a POST.     *)
TextCalls == {"setText", "addText", "deleteText"}
WithText == IF Exists(op.id) THEN [remote EXCEPT ![op.id].text = op.plan.text] ELSE remote

Text == IF Exists(op.id) THEN remote[op.id].text ELSE NoText
HasText == Text # NoText

TextIsMissing ==
    /\ Due("setText")
    /\ ~HasText
    /\ Proceed(<<"addText">> \o Tail(op.todo), op.id, op.wrote)
    /\ UNCHANGED <<sonar, config, remote, nextId, suspect, counters>>

WriteText ==
    /\ \E call \in TextCalls : Due(call)
    /\ Due("setText") => HasText
    /\ remote' = WithText
    /\ IF Len(op.todo) = 1
       THEN EndsWith(op.plan)
       ELSE Proceed(Tail(op.todo), op.id, op.wrote \cup {"text"})
    /\ suspect' = suspect \ {"text"}
    /\ UNCHANGED <<sonar, config, nextId, counters>>

WriteTextFails(answer, effect) ==
    /\ \E call \in TextCalls : Due(call)
    /\ Due("setText") /\ effect => HasText
    /\ Failing(TRUE)
    /\ remote' = IF effect THEN WithText ELSE remote
    /\ LET reached == IF effect THEN {"text"} ELSE {} IN
         IF Due("setText") /\ answer = "silent" THEN Panics(reached) ELSE Fails(reached)
    /\ UNCHANGED <<sonar, config, nextId>>

-----------------------------------------------------------------------------
(* DoesCustomDiscoveryAlertExist: 404 and 500 are an alert that is gone.   *)
DoesAlertExist(answer) ==
    /\ Due("head")
    /\ IF Exists(op.id) THEN answer \in Failures \cup {"found"}
       ELSE answer \in Failures \cup {"missing"}
    /\ Failing(answer \in IF Exists(op.id) THEN Failures ELSE Failures \ {"broken"})
    /\ CASE answer = "found" -> Proceed(Tail(op.todo), op.id, {}) /\ UNCHANGED suspect
         [] answer \in {"missing", "broken"} -> Removes
         [] answer = "silent" -> Panics({})
         [] OTHER -> Fails({})
    /\ UNCHANGED <<sonar, config, remote, nextId>>

(* GetCustomDiscoveryAlert: 400 and 500 are nil, which every handler reads.*)
GetAlert(answer) ==
    /\ Due("get")
    /\ IF Exists(op.id) THEN answer \in Failures \cup {"found"}
       ELSE answer \in Failures \cup {"missing"}
    /\ Failing(answer \in IF Exists(op.id) THEN Failures ELSE {"denied", "silent"})
    /\ CASE answer = "found" ->
              LET fresh == IF op.kind = "create" THEN {} ELSE suspect \cap Shown IN
                /\ op' = [op EXCEPT !.todo = Tail(@), !.got = remote[op.id], !.wrote = fresh]
                /\ suspect' = suspect \ fresh
                /\ UNCHANGED state
         [] answer \in {"rejected", "broken", "silent"} -> Panics({})
         [] OTHER -> Fails({})
    /\ UNCHANGED <<sonar, config, remote, nextId>>

(* The end of GetCustomDiscoveryAlert, of Create and of Read.              *)
GetText ==
    /\ Due("getText")
    /\ IF op.kind = "create"
       THEN EndsWith(op.plan) /\ UNCHANGED suspect
       ELSE /\ EndsWith(Refreshed(op.plan, [op.got EXCEPT !.text = Text]))
            /\ suspect' = IF Text # NoText \/ op.plan.text = NoText
                          THEN suspect \ {"text"} ELSE suspect
    /\ UNCHANGED <<sonar, config, remote, nextId, counters>>

GetTextFails(answer) ==
    /\ Due("getText")
    /\ Failing(TRUE)
    /\ IF answer = "silent" THEN Panics({}) ELSE Fails({})
    /\ UNCHANGED <<sonar, config, remote, nextId>>

(* Mutant: an alert that could not be deleted is taken for deleted.        *)
DeleteAlertAnyway(answer, effect) ==
    /\ Due("delete")
    /\ answer = "found" => effect
    /\ effect => Exists(op.id)
    /\ Failing(answer \in Failures)
    /\ remote' = IF effect THEN [remote EXCEPT ![op.id] = None] ELSE remote
    /\ Removes
    /\ UNCHANGED <<sonar, config, nextId>>

(* The rule is deleted, and its text is not.                               *)
DeleteAlert(answer, effect) ==
    /\ Due("delete")
    /\ answer = "found" => effect
    /\ answer = "missing" => ~Exists(op.id)
    /\ effect => Exists(op.id)
    /\ Failing(answer \in Failures)
    /\ remote' = IF effect THEN [remote EXCEPT ![op.id] = None] ELSE remote
    /\ IF answer = "found" THEN Removes ELSE Fails({})
    /\ UNCHANGED <<sonar, config, nextId>>

Restart ==
    /\ op.kind = "crashed"
    /\ op' = NoOp
    /\ UNCHANGED <<sonar, config, state, remote, nextId, suspect, counters>>

-----------------------------------------------------------------------------
(* The console.                                                            *)
ChangeOutside(attribute, value) ==
    /\ changes < MaxChanges
    /\ changes' = changes + 1
    /\ \E id \in {state.id, op.id} \ {0} :
         /\ Exists(id)
         /\ value # remote[id][attribute]
         /\ remote' = [remote EXCEPT ![id][attribute] = value]
    /\ suspect' = suspect \cup {attribute}
    /\ UNCHANGED <<sonar, config, state, nextId, op, edits, failures>>

DeleteOutside(id) ==
    /\ Exists(id)
    /\ changes < MaxChanges
    /\ changes' = changes + 1
    /\ remote' = [remote EXCEPT ![id] = None]
    /\ UNCHANGED <<sonar, config, state, nextId, op, suspect, edits, failures>>

-----------------------------------------------------------------------------
Apply == BeginCreate \/ BeginUpdate \/ BeginDelete

Handler ==
    \/ \E failed \in BOOLEAN : ListCategories(failed)
    \/ Post \/ PutRule \/ TextIsMissing \/ WriteText \/ GetText
    \/ \E effect \in BOOLEAN : PostFails(effect) \/ PutRuleFails(effect)
    \/ \E answer \in Failures, effect \in BOOLEAN : WriteTextFails(answer, effect)
    \/ \E answer \in Answers : DoesAlertExist(answer) \/ GetAlert(answer)
    \/ \E answer \in Failures : GetTextFails(answer)
    \/ \E answer \in Answers, effect \in BOOLEAN : DeleteAlert(answer, effect)
    \/ Restart

Environment ==
    \/ \E new \in Alerts \cup {None} : EditConfig(new)
    \/ \E id \in 1 .. MaxId : Import(id) \/ DeleteOutside(id)
    \/ \E rule \in Rules : ChangeOutside("rule", rule)
    \/ \E frameworks \in SUBSET Frameworks : ChangeOutside("frameworks", frameworks)
    \/ \E text \in Texts \cup {NoText} : ChangeOutside("text", text)

Next == Apply \/ BeginRead \/ Handler \/ Environment

(* Handlers run to their end; the user refreshes and applies again until   *)
(* there is nothing left to do.                                            *)
Spec ==
    /\ Init /\ [][Next]_vars
    /\ WF_vars(Handler)
    /\ SF_vars(BeginRead)
    /\ SF_vars(Apply)

-----------------------------------------------------------------------------
Ops == [kind : {"none", "create", "read", "update", "delete", "import", "crashed"},
        todo : Seq(Calls), id : 0 .. MaxId, plan : Values \cup {None},
        got : Alerts \cup {None}, wrote : SUBSET Attributes]

TypeOK ==
    /\ sonar \in BOOLEAN
    /\ config \in Alerts \cup {None}
    /\ state \in {NoObject} \cup [id : 1 .. MaxId, value : Alerts]
    /\ remote \in [1 .. MaxId -> Alerts \cup {None}]
    /\ nextId \in 1 .. MaxId + 1
    /\ op \in Ops
    /\ suspect \subseteq Attributes
    /\ edits \in Nat /\ failures \in Nat /\ changes \in Nat

(* Between two handlers the state says what the service has, whichever of  *)
(* the calls of an update have failed: what Update stores after clear()    *)
(* is what it has written, and only attributes that an unstored call or    *)
(* the console has touched since may differ, until a Read shows them.      *)
StateIsExact ==
    Idle /\ state # NoObject /\ Exists(state.id) =>
        \A a \in Attributes \ suspect : state.value[a] = remote[state.id][a]

(* "API merges posted frameworks; clear first": while an update runs, the  *)
(* alert never belongs to frameworks of the old and of the new plan at     *)
(* once.                                                                   *)
NeverMixed ==
    op.kind = "update" /\ Exists(op.id) /\ "frameworks" \notin suspect =>
        remote[op.id].frameworks \in {state.value.frameworks, {}, op.plan.frameworks}

Tracked(id) == id = state.id \/ (op.kind = "create" /\ id = op.id)

(* An alert that exists is lost only by a failure: of a call of Create     *)
(* after its POST, or of the HEAD of a Read.  No other error forgets it.   *)
NeverLost ==
    [][\A id \in 1 .. MaxId :
         /\ Tracked(id) /\ Exists(id) /\ Exists(id)' =>
              \/ Tracked(id)'
              \/ failures' > failures /\ (op.kind = "create" \/ Due("head"))
         /\ ~Exists(id) /\ Exists(id)' => Tracked(id)' \/ failures' > failures]_vars

InSync ==
    IF config = None THEN state = NoObject
    ELSE /\ state # NoObject
         /\ state.value = config
         /\ remote[state.id] = config

(* What no number of applies repairs: ids are used up (a bound), a query   *)
(* that was changed and that Read does not look at, and a text that was    *)
(* removed.                                                                *)
Stuck ==
    \/ nextId > MaxId
    \/ ~sonar /\ "rule" \in suspect
    \/ "text" \in suspect

(* Once edits, failures and interference end, refreshing and applying      *)
(* again and again makes the service have what is configured, for good.    *)
Converges == <>[]~Stuck => <>[]InSync
===============================================================================
