--------------------------- MODULE ResourceLifecycle ---------------------------
(***************************************************************************)
(* The life of one object of a resource kind that is managed by plain      *)
(* calls: its handlers are sequences of calls, and kinds differ in which   *)
(* calls, in what their client functions make of an answer, and in what of *)
(* the object is sent, returned and stored.  Catalogue says it of each.    *)
(*                                                                         *)
(* An object has two attributes: optional, which the user may leave out,   *)
(* and main, which is always given and which some kinds never read back.   *)
(* Part of some objects belongs to the console (a dashboard's widget       *)
(* slots, the policies attached to a project): their updates read it and   *)
(* write it back.                                                          *)
(***************************************************************************)
EXTENDS Integers, Sequences, FiniteSets

CONSTANTS
    Kinds,          \* the resource kinds
    Clients,        \* Clients[k]: what the client functions of k do
    Resources,      \* Resources[k]: what the handlers of k do
    Arranges,       \* the kinds with a part that belongs to the console
    Unreturned,     \* the kinds whose Read does not refresh the main attribute
    Sticky,         \* the kinds whose Read skips an empty optional attribute
    PartialUpdates, \* the kinds whose Update may leave the optional attribute out
    TrustsErrors,   \* the kinds that take an error for an object that is gone
    ReadsBack,      \* the kinds whose Create ends with another call than its POST
    Brittle,        \* the kinds whose handlers can panic
    BlindToAbsence, \* the kinds whose Read may not find out that an object is gone
    Mains,          \* values of the main attribute
    Given,          \* the value of the optional attribute, when it has one
    Unset,          \* not given, or not known
    None,           \* no object
    MaxId,          \* bound: objects ever made
    MaxEdits,       \* bound: edits of the configuration, and imports
    MaxFailures,    \* bound: calls that fail
    MaxChanges      \* bound: changes in the console

(* How a call is answered: 200 with the object, 404, 400, 500, another     *)
(* error status, no answer, or a list without the object.                  *)
Failures == {"rejected", "broken", "denied", "silent"}
Answers == Failures \cup {"found", "missing", "unlisted"}

Calls == {"lookup", "head", "get", "post", "put", "delete"}
Handlers == {"create", "read", "update", "import"}

(* The calls of the handlers, in their order.                              *)
Creations == {<<"post">>, <<"post", "get">>, <<"post", "lookup">>, <<"lookup", "post">>}
Refreshes == {<<"get">>, <<"head", "get">>, <<"get", "lookup">>}
Updates ==
    {<< >>, <<"put">>, <<"put", "get">>, <<"put", "lookup">>, <<"get", "put">>,
     <<"get", "put", "get">>, <<"lookup", "put", "get">>}
Adoptions == {<< >>, <<"get">>}

Denials == Answers \ {"found"}
Readers == [gone : SUBSET Denials, panic : SUBSET Denials, unclear : SUBSET Denials]
ClientProfiles ==
    [head : Readers, get : Readers, delete : Readers,
     listed : BOOLEAN, named : BOOLEAN, omits : {"nothing", "unset", "always"}]
ResourceProfiles ==
    [create : Creations, read : Refreshes, update : Updates, adopt : Adoptions,
     absent : [create : {"error", "panic", "kept"}, read : {"error", "panic", "removed"},
               update : {"error", "panic", "kept"}, import : {"error", "panic", "removed"}],
     echoes : SUBSET {"create", "update"}, hides : {"nothing", "kept", "never"},
     sticky : BOOLEAN, computed : BOOLEAN, replaces : {"nothing", "optional", "everything"}]

ASSUME ResourceLifecycleAssumption ==
    /\ {MaxEdits, MaxFailures, MaxChanges} \subseteq Nat /\ MaxId \in Nat \ {0}
    /\ Given # Unset /\ {Given, Unset, None} \cap Mains = {}
    /\ None \notin [optional : {Given, Unset}, main : Mains \cup {Unset}]
    /\ \A k \in Kinds : Clients[k] \in ClientProfiles /\ Resources[k] \in ResourceProfiles

Trusting(reader) == (reader.gone \cup reader.unclear) \cap Failures # {}

(* The lists name every kind that has the weakness they are about.         *)
ASSUME KindsAssumption ==
    \A k \in Kinds :
        LET calls == Clients[k]
            handlers == Resources[k]
        IN
        /\ k \notin Brittle =>
              /\ calls.head.panic = {} /\ calls.get.panic = {}
              /\ \A handler \in Handlers : handlers.absent[handler] # "panic"
        /\ k \notin TrustsErrors =>
              \A reader \in {calls.head, calls.get, calls.delete} : ~Trusting(reader)
        /\ k \notin ReadsBack => handlers.create[Len(handlers.create)] = "post"
        /\ k \notin Unreturned => handlers.hides = "nothing"
        /\ k \notin Sticky => ~handlers.sticky
        /\ k \notin PartialUpdates => calls.omits = "nothing"
        /\ k \in Arranges =>
              /\ handlers.update # << >> /\ Head(handlers.update) = "get"
              /\ handlers.absent["update"] # "kept"
        /\ handlers.update = << >> => handlers.replaces = "everything"

VARIABLES
    kind,       \* the resource kind
    absence,    \* how the service answers a GET of an object that is gone
    merges,     \* the service keeps what an update leaves out
    config,     \* what the user has written, or None
    state,      \* what Terraform tracks
    remote,     \* the objects of the service
    nextId,     \* the id of the next one
    layout,     \* the console's part of the object
    op,         \* the handler that runs
    suspect,    \* attributes changed with no handler that knows of it
    arranged,   \* the console's part as the console left it
    raced,      \* it was changed while an update was running
    edits, failures, changes

vars == <<kind, absence, merges, config, state, remote, nextId, layout, op,
          suspect, arranged, raced, edits, failures, changes>>
settings == <<kind, absence, merges>>
console == <<layout, arranged, raced>>
counters == <<edits, failures, changes>>

client == Clients[kind]
resource == Resources[kind]

-----------------------------------------------------------------------------
Configs == [optional : {Given, Unset}, main : Mains]
Values == [optional : {Given, Unset}, main : Mains \cup {Unset}]
Attributes == {"optional", "main"}

NoObject == [id |-> 0, value |-> None]
Idle == op.kind = "none"
Exists(id) == remote[id] # None

NoOp == [kind |-> "none", todo |-> << >>, id |-> 0, plan |-> None, got |-> None,
         layout |-> 0]

(* Mutant: the status is read of an answer that never came.                *)
ResultsUnguarded(reader, answer) ==
    CASE answer = "found" -> {"found"}
      [] answer = "silent" -> {"panic"}
      [] answer \in reader.gone -> {"gone"}
      [] OTHER -> {"error"}

(* Mutant: any error status is an object that is gone.                     *)
ResultsLenient(reader, answer) ==
    CASE answer = "found" -> {"found"}
      [] answer \in reader.panic -> {"panic"}
      [] OTHER -> {"gone"}

(* What a client function makes of an answer.                              *)
Results(reader, answer) ==
    CASE answer = "found" -> {"found"}
      [] answer \in reader.gone -> {"gone"}
      [] answer \in reader.panic -> {"panic"}
      [] answer \in reader.unclear -> {"gone", "error"}
      [] OTHER -> {"error"}

(* How the service may answer a GET of an object that is gone: by the      *)
(* protocol, or by a status the client takes for it.                       *)
Absences(k) ==
    {IF Clients[k].listed THEN "unlisted" ELSE "missing"}
        \cup (Clients[k].get.gone \cap {"missing", "rejected", "broken"})

(* Mutant: an optional attribute that is not given is left out.            *)
WrittenOmitting(old, plan) ==
    IF plan.optional = Unset THEN [plan EXCEPT !.optional = old.optional] ELSE plan

(* What the service has after an update with this plan.                    *)
Written(old, plan) ==
    IF client.omits = "always" \/ (client.omits = "unset" /\ plan.optional = Unset)
    THEN [plan EXCEPT !.optional = IF merges THEN old.optional ELSE Unset]
    ELSE plan

(* What is stored of an answer, over what was known.                       *)
Refreshed(old, new) ==
    [optional |-> IF resource.sticky /\ new.optional = Unset THEN old.optional
                  ELSE new.optional,
     main |-> CASE resource.hides = "nothing" -> new.main
                [] resource.hides = "kept" /\ old.main = Unset -> new.main
                [] OTHER -> old.main]

(* The plan: an attribute Terraform computes keeps its value when unset.   *)
Planned ==
    IF resource.computed /\ config.optional = Unset /\ state # NoObject
    THEN [config EXCEPT !.optional = state.value.optional]
    ELSE config

MustReplace ==
    CASE resource.replaces = "everything" -> TRUE
      [] resource.replaces = "optional" -> state.value.optional # Planned.optional
      [] OTHER -> FALSE

AbsentFor ==
    IF op.kind = "import" /\ Len(op.todo) <= Len(resource.read)
    THEN resource.absent["read"] ELSE resource.absent[op.kind]

-----------------------------------------------------------------------------
(* How a handler goes on: to its next call, or to its end.                 *)
Begin(handler, todo, id, plan) ==
    op' = [NoOp EXCEPT !.kind = handler, !.todo = todo, !.id = id, !.plan = plan]

Due(call) == op.todo # << >> /\ Head(op.todo) = call

(* What the handler stores at its end.                                     *)
Result(got) ==
    IF op.kind \in {"create", "update"} /\ op.kind \notin resource.echoes
    THEN op.plan ELSE Refreshed(op.plan, got)

Goes(id, got, seen) ==
    IF Len(op.todo) = 1
    THEN /\ op' = NoOp
         /\ state' = [id |-> id, value |-> Result(got)]
    ELSE /\ op' = [op EXCEPT !.todo = Tail(@), !.id = id, !.got = got, !.layout = seen]
         /\ UNCHANGED state

(* A handler that ends with nothing stored leaves what it has written, or  *)
(* read, in doubt.                                                         *)
InDoubt == IF op.got = None THEN suspect ELSE Attributes

Fails ==
    /\ op' = NoOp
    /\ UNCHANGED state
    /\ suspect' = InDoubt

Crashes ==
    /\ op' = [NoOp EXCEPT !.kind = "crashed"]
    /\ UNCHANGED state
    /\ suspect' = InDoubt

Removes ==
    /\ op' = NoOp
    /\ state' = NoObject
    /\ suspect' = {}

Failing(failed) ==
    /\ failures' = IF failed THEN failures + 1 ELSE failures
    /\ failures' <= MaxFailures
    /\ UNCHANGED <<edits, changes>>

-----------------------------------------------------------------------------
Init ==
    /\ kind \in Kinds
    /\ absence \in Absences(kind)
    /\ merges \in IF client.omits = "nothing" THEN {FALSE} ELSE BOOLEAN
    /\ config = None
    /\ state = NoObject
    /\ \E first \in {None} \cup [optional : {Given}, main : Mains] :
         /\ remote = [id \in 1 .. MaxId |-> IF id = 1 THEN first ELSE None]
         /\ nextId = IF first = None \/ client.named THEN 1 ELSE 2
    /\ layout = 0 /\ arranged = 0 /\ raced = FALSE
    /\ op = NoOp
    /\ suspect = {}
    /\ edits = 0 /\ failures = 0 /\ changes = 0

EditConfig(new) ==
    /\ Idle
    /\ new # config
    /\ edits < MaxEdits
    /\ edits' = edits + 1
    /\ config' = new
    /\ UNCHANGED <<settings, console, state, remote, nextId, op, suspect, failures, changes>>

BeginCreate ==
    /\ Idle
    /\ config # None
    /\ state = NoObject
    /\ nextId <= MaxId
    /\ Begin("create", resource.create, 0, Planned)
    /\ UNCHANGED <<settings, console, config, state, remote, nextId, suspect, counters>>

BeginRead ==
    /\ Idle
    /\ state # NoObject
    /\ Begin("read", resource.read, state.id, state.value)
    /\ UNCHANGED <<settings, console, config, state, remote, nextId, suspect, counters>>

BeginUpdate ==
    /\ Idle
    /\ config # None
    /\ state # NoObject
    /\ state.value # Planned
    /\ ~MustReplace
    /\ Begin("update", resource.update, state.id, Planned)
    /\ UNCHANGED <<settings, console, config, state, remote, nextId, suspect, counters>>

BeginDelete ==
    /\ Idle
    /\ state # NoObject
    /\ \/ config = None
       \/ config # None /\ state.value # Planned /\ MustReplace
    /\ Begin("delete", <<"delete">>, state.id, None)
    /\ UNCHANGED <<settings, console, config, state, remote, nextId, suspect, counters>>

(* The import of an object, and the Read that Terraform runs after it.     *)
Import(id) ==
    /\ Idle
    /\ config # None
    /\ state = NoObject
    /\ Exists(id)
    /\ edits < MaxEdits
    /\ edits' = edits + 1
    /\ Begin("import", resource.adopt \o resource.read, id,
             [optional |-> Unset, main |-> Unset])
    /\ UNCHANGED <<settings, console, config, state, remote, nextId, suspect, failures, changes>>

-----------------------------------------------------------------------------
(* Another document of the service that the handler needs.                 *)
LookUp(failed) ==
    /\ Due("lookup")
    /\ Failing(failed)
    /\ \/ failed /\ Fails
       \/ ~failed /\ Goes(op.id, op.got, op.layout) /\ UNCHANGED suspect
    /\ UNCHANGED <<settings, console, config, remote, nextId>>

(* The id of the next object: the name the user gives it, for some kinds.  *)
NewId == IF client.named THEN 1 ELSE nextId
Taken == client.named /\ Exists(1)

PostEffect ==
    /\ ~Taken
    /\ remote' = [remote EXCEPT ![NewId] = op.plan]
    /\ nextId' = IF client.named THEN nextId ELSE nextId + 1

Post ==
    /\ Due("post")
    /\ PostEffect
    /\ Goes(NewId, op.plan, op.layout)
    /\ suspect' = {}
    /\ UNCHANGED <<settings, console, config, counters>>

(* The POST is refused, because of the name or not, or its answer is lost. *)
PostFails(effect) ==
    /\ Due("post")
    /\ Failing(effect \/ ~Taken)
    /\ IF effect THEN PostEffect ELSE UNCHANGED <<remote, nextId>>
    /\ Fails
    /\ UNCHANGED <<settings, console, config>>

(* Mutant: the console's part is written empty.                            *)
PutEffectEmptied ==
    /\ Exists(op.id)
    /\ remote' = [remote EXCEPT ![op.id] = Written(remote[op.id], op.plan)]
    /\ layout' = IF kind \in Arranges THEN 0 ELSE layout
    /\ UNCHANGED <<arranged, raced>>

PutEffect ==
    /\ Exists(op.id)
    /\ remote' = [remote EXCEPT ![op.id] = Written(remote[op.id], op.plan)]
    /\ layout' = IF kind \in Arranges THEN op.layout ELSE layout
    /\ UNCHANGED <<arranged, raced>>

Put ==
    /\ Due("put")
    /\ PutEffect
    /\ Goes(op.id, Written(remote[op.id], op.plan), op.layout)
    /\ suspect' = {}
    /\ UNCHANGED <<settings, config, nextId, counters>>

PutFails(effect) ==
    /\ Due("put")
    /\ Failing(effect \/ Exists(op.id))
    /\ IF effect THEN PutEffect ELSE UNCHANGED <<remote, console>>
    /\ op' = NoOp
    /\ suspect' = IF effect THEN Attributes ELSE suspect
    /\ UNCHANGED <<settings, config, state, nextId>>

StatusOfAbsence == IF absence = "unlisted" THEN "missing" ELSE absence

Probe(answer) ==
    /\ Due("head")
    /\ answer = "found" => Exists(op.id)
    /\ LET due == IF Exists(op.id) THEN "found" ELSE StatusOfAbsence IN
         /\ answer \in Failures \cup {due}
         /\ Failing(answer # due)
    /\ \/ "found" \in Results(client.head, answer) /\ Goes(op.id, op.got, op.layout)
            /\ UNCHANGED suspect
       \/ "gone" \in Results(client.head, answer) /\ Removes
       \/ "error" \in Results(client.head, answer) /\ Fails
       \/ "panic" \in Results(client.head, answer) /\ Crashes
    /\ UNCHANGED <<settings, console, config, remote, nextId>>

(* What a Read refreshes is not in doubt any more; what an import does not *)
(* read is.                                                                *)
Shown ==
    {a \in Attributes :
        /\ a = "main" => kind \notin Unreturned
        /\ a = "optional" => kind \notin Sticky}
Cleared ==
    CASE op.kind = "read" -> suspect \ Shown
      [] op.kind = "import" -> Attributes \ Shown
      [] OTHER -> suspect

(* nil without an error.                                                   *)
GetAbsent ==
    \/ AbsentFor = "kept" /\ Goes(op.id, op.plan, op.layout) /\ UNCHANGED suspect
    \/ AbsentFor = "removed" /\ Removes
    \/ AbsentFor = "error" /\ Fails
    \/ AbsentFor = "panic" /\ Crashes

Get(answer) ==
    /\ Due("get")
    /\ LET due == IF Exists(op.id) THEN "found" ELSE absence IN
         /\ answer \in Failures \cup {due}
         /\ Failing(answer # due)
    /\ \/ "found" \in Results(client.get, answer) /\ Goes(op.id, remote[op.id], layout)
            /\ suspect' = Cleared
       \/ "gone" \in Results(client.get, answer) /\ GetAbsent
       \/ "error" \in Results(client.get, answer) /\ Fails
       \/ "panic" \in Results(client.get, answer) /\ Crashes
    /\ UNCHANGED <<settings, console, config, remote, nextId>>

(* A DELETE, which may take effect although it fails.                      *)
Destroy(answer, effect) ==
    /\ Due("delete")
    /\ LET due == IF Exists(op.id) THEN "found" ELSE StatusOfAbsence IN
         /\ answer \in Failures \cup {due}
         /\ Failing(answer # due)
         /\ answer = "found" => effect
         /\ ~Exists(op.id) => ~effect
    /\ remote' = IF effect THEN [remote EXCEPT ![op.id] = None] ELSE remote
    /\ \/ Results(client.delete, answer) \cap {"found", "gone"} # {} /\ Removes
       \/ "error" \in Results(client.delete, answer) /\ Fails
    /\ UNCHANGED <<settings, console, config, nextId>>

(* Terraform reports the panic; the next command starts a new provider.    *)
Restart ==
    /\ op.kind = "crashed"
    /\ op' = NoOp
    /\ UNCHANGED <<settings, console, config, state, remote, nextId, suspect, counters>>

-----------------------------------------------------------------------------
(* The console.                                                            *)
Outside ==
    /\ changes < MaxChanges
    /\ changes' = changes + 1
    /\ UNCHANGED <<settings, config, state, nextId, op, edits, failures>>

Known == {state.id, op.id} \ {0}

ChangeOutside(id, attribute, value) ==
    /\ Exists(id)
    /\ value # remote[id][attribute]
    /\ Outside
    /\ remote' = [remote EXCEPT ![id][attribute] = value]
    /\ suspect' = suspect \cup {attribute}
    /\ UNCHANGED console

DeleteOutside(id) ==
    /\ Exists(id)
    /\ Outside
    /\ remote' = [remote EXCEPT ![id] = None]
    /\ UNCHANGED <<console, suspect>>

Rearrange ==
    /\ kind \in Arranges
    /\ Outside
    /\ layout' = 1 - layout
    /\ arranged' = layout'
    /\ raced' = (op.kind = "update" /\ op.got # None)
    /\ UNCHANGED <<remote, suspect>>

-----------------------------------------------------------------------------
Apply == BeginCreate \/ BeginUpdate \/ BeginDelete

Handler ==
    \/ \E failed \in BOOLEAN : LookUp(failed)
    \/ Post
    \/ Put
    \/ \E effect \in BOOLEAN : PostFails(effect) \/ PutFails(effect)
    \/ \E answer \in Answers : Probe(answer) \/ Get(answer)
    \/ \E answer \in Answers, effect \in BOOLEAN : Destroy(answer, effect)
    \/ Restart

Environment ==
    \/ \E new \in Configs \cup {None} : EditConfig(new)
    \/ \E id \in 1 .. MaxId : Import(id)
    \/ \E id \in Known :
          \/ \E value \in {Given, Unset} : ChangeOutside(id, "optional", value)
          \/ \E value \in Mains : ChangeOutside(id, "main", value)
          \/ DeleteOutside(id)
    \/ Rearrange

Next == Apply \/ BeginRead \/ Handler \/ Environment

(* Handlers run to their end; the user refreshes and applies again until   *)
(* there is nothing left to do.                                            *)
Spec ==
    /\ Init /\ [][Next]_vars
    /\ WF_vars(Handler)
    /\ SF_vars(BeginRead)
    /\ SF_vars(Apply)

-----------------------------------------------------------------------------
Ops == [kind : Handlers \cup {"none", "delete", "crashed"}, todo : Seq(Calls), id : 0 .. MaxId,
        plan : Values \cup {None}, got : Values \cup {None}, layout : {0, 1}]

TypeOK ==
    /\ kind \in Kinds /\ absence \in Denials /\ merges \in BOOLEAN
    /\ config \in Configs \cup {None}
    /\ state \in {NoObject} \cup [id : 1 .. MaxId, value : Values]
    /\ remote \in [1 .. MaxId -> Configs \cup {None}]
    /\ nextId \in 1 .. MaxId + 1
    /\ layout \in {0, 1} /\ arranged \in {0, 1} /\ raced \in BOOLEAN
    /\ op \in Ops
    /\ suspect \subseteq Attributes
    /\ edits \in Nat /\ failures \in Nat /\ changes \in Nat

(* A handler panics only in the Brittle kinds: their client functions read *)
(* the status of an answer that never came, or their handlers a field of   *)
(* an object that is gone.                                                 *)
CrashesOnlyKnown == op.kind = "crashed" => kind \in Brittle

Tracked(id) == id = state.id \/ (op.kind = "create" /\ id = op.id)

(* "Persist what we know rather than leaking" the object: no handler loses *)
(* an object that exists, one it has just created or one that was tracked  *)
(* before.  Kinds in ReadsBack do when a call after their POST fails, and  *)
(* those in TrustsErrors when an error is taken for an object that is gone.*)
NeverLost ==
    [][\A id \in 1 .. MaxId :
         /\ Tracked(id) /\ Exists(id) /\ Exists(id)' =>
              \/ Tracked(id)'
              \/ kind \in IF op.kind = "create" THEN ReadsBack ELSE TrustsErrors
         /\ ~Exists(id) /\ Exists(id)' => Tracked(id)' \/ failures' > failures]_vars

(* Between two handlers the tracked attributes are those of the service,   *)
(* but for a call that failed and a change in the console that no Read has *)
(* seen.  An optional attribute may also differ that an update left out.   *)
StateIsExact ==
    Idle /\ state # NoObject /\ Exists(state.id) =>
        /\ "main" \notin suspect => state.value.main = remote[state.id].main
        /\ "optional" \notin suspect /\ kind \notin PartialUpdates =>
              state.value.optional = remote[state.id].optional

(* Terraform refuses a result that differs from the plan.  A handler that  *)
(* ends well stores the plan, also where it stores what the service has    *)
(* answered, if nobody else changed the object meanwhile.                  *)
StoresPlan ==
    [][/\ op.kind \in {"create", "update"} /\ op' = NoOp
       /\ state' # state /\ suspect' = {}
       /\ kind \notin PartialUpdates
       => state'.value = op.plan]_vars

(* An update writes the console's part of the object back as the console   *)
(* left it, unless it was changed between the GET and the PUT.             *)
LayoutKept == layout # arranged => raced

InSync ==
    IF config = None THEN state = NoObject
    ELSE /\ state # NoObject
         /\ state.value = Planned
         /\ remote[state.id] = Planned

(* What no number of applies repairs: ids are used up (a bound), the name  *)
(* is taken by an object that is not tracked, a change of an attribute     *)
(* that no Read sees or no PUT sends, and an object whose absence shows    *)
(* only as an error.                                                       *)
Stuck ==
    \/ nextId > MaxId
    \/ state = NoObject /\ config # None /\ client.named /\ Exists(1)
    \/ kind \in Unreturned /\ "main" \in suspect
    \/ kind \in Sticky /\ "optional" \in suspect
    \/ kind \in PartialUpdates /\ (merges \/ client.omits = "always")
    \/ kind \in BlindToAbsence /\ state # NoObject /\ ~Exists(state.id)

(* Once edits, failures and interference end, refreshing and applying      *)
(* again and again makes the service have what is configured, for good.    *)
Converges == <>[]~Stuck => <>[]InSync
===============================================================================
