-------------------------------- MODULE Values --------------------------------
(***************************************************************************)
(* One optional attribute on its way from the configuration to the service *)
(* and back: what is sent for null and for empty, and what the state holds *)
(* when the service shows nothing (integrations_common, tfconv, and the    *)
(* resources that use them).                                               *)
(*                                                                         *)
(* Every write and every read is one step that succeeds: ResourceLifecycle *)
(* and the modules of the resources say what happens when calls fail.      *)
(*                                                                         *)
(* A value is Null or a sequence of elements.  A set is its sorted         *)
(* sequence; a text or a number has at most one element; the elements of a *)
(* JSON text are the members of its object, and their order stands for     *)
(* what makes two texts of one object differ: the order of the keys, white *)
(* space, and the shorthand of a mapping.                                  *)
(***************************************************************************)
EXTENDS Integers, SequencesExt

CONSTANTS
    Elements,   \* elements of a list or set, members of a JSON object, texts
    Null,       \* the attribute is not configured; null in the state
    Nil,        \* nothing in the JSON: an omitted key, a nil slice or pointer
    MaxEdits,   \* bound: edits of the configuration and imports
    MaxChanges  \* bound: changes of the attribute in the console

VARIABLES
    kind,        \* the attribute
    service,     \* how the service answers for it; never changes
    configured,  \* its value in the configuration
    tracked,     \* [value, tainted] in the state, Null without such a resource
    remote,      \* what the service holds, << >> when it is empty
    edits, changes

valueVars == <<kind, service, configured, tracked, remote, edits, changes>>

-----------------------------------------------------------------------------
(* The attributes, each for those of its sort:                             *)
(*   scope             cloud_accounts of a group access, channels of slack *)
(*   keywords          keywords of a sensitive data identifier             *)
(*   assignment        clusters of an admission policy assignment          *)
(*   selectors         selector_cloud_accounts of a data detection rule    *)
(*   document          categories of a DSPM policy                         *)
(*   business_units    of an opsgenie or sentinel integration              *)
(*   description       of an admission control                             *)
(*   sensitivity,                                                          *)
(*   threshold         text and number of a sensitive data identifier      *)
(*   input_parameters  of an admission control                             *)
(*   status_mapping    alert_status_mapping_json of a ticket template      *)
(*   mapping           mapping_json of a ticket template                   *)
ListKinds == {"scope", "keywords"}
SetKinds == {"assignment", "selectors", "document", "business_units"}
ScalarKinds == {"description", "sensitivity", "threshold"}
DocumentKinds == {"input_parameters", "status_mapping", "mapping"}
Kinds == ListKinds \cup SetKinds \cup ScalarKinds \cup DocumentKinds

Texts == {s \in BoundedSeq(Elements, 2) : IsInjective(s)}

ASSUME ValuesAssumption ==
    /\ Elements \subseteq Nat /\ {MaxEdits, MaxChanges} \subseteq Nat
    /\ Null # Nil
    /\ Texts \cap {Null, Nil} = {}

(* The texts of one content, and the one that sorts it: the order of a     *)
(* set, and the text json.Marshal and jsonencode give an object.           *)
Layouts(s) == {t \in Texts : ToSet(t) = ToSet(s)}
Sorted(s) == CHOOSE t \in Layouts(s) : \A i, j \in DOMAIN t : i < j => t[i] < t[j]

(* What the service may hold.                                              *)
Contents(k) ==
    CASE k \in SetKinds    -> {Sorted(s) : s \in Texts}
      [] k \in ScalarKinds -> {s \in Texts : Len(s) <= 1}
      [] OTHER         -> Texts

(* What may be configured: sensitivity is one of four words, a number is   *)
(* never empty, and the mapping of a template is required.                 *)
Configs(k) ==
    CASE k \in {"sensitivity", "threshold"} -> (Contents(k) \ {<< >>}) \cup {Null}
      [] k = "mapping"                      -> Contents(k)
      [] OTHER                              -> Contents(k) \cup {Null}

(* blank: how an empty value is shown; keeps: a key that an update leaves  *)
(* out keeps its value; shuffles: a list or an object comes back in any    *)
(* order.  The detector endpoint replaces everything, the endpoints of     *)
(* admission controls, detection rules and business units keep what they   *)
(* do not receive; of the others the code does not say.                    *)
Services(k) ==
    [blank    : IF k = "threshold" THEN {Nil} ELSE {Nil, << >>},
     keeps    : CASE k \in {"keywords", "sensitivity", "threshold"} -> {FALSE}
                  [] k \in {"document", "status_mapping"}           -> BOOLEAN
                  [] OTHER                                          -> {TRUE},
     shuffles : BOOLEAN]

-----------------------------------------------------------------------------
(* To the service.                                                         *)

(* StringSliceFromList and StringSliceFromSet: never nil.                  *)
StringSliceFrom(v) == IF v = Null THEN << >> ELSE v

(* StringListToAPI, StringSetToAPI, BusinessUnitsToAPI, Int64ToAPIPtr.     *)
ToAPI(v) == IF v = Null THEN Nil ELSE v

(* StringListToAPINonNull, StringSetToAPINonNull.                          *)
ToAPINonNull(v) == IF ToAPI(v) = Nil THEN << >> ELSE v

(* encoding/json drops an empty slice and an empty string.                 *)
omitempty(a) == IF a = << >> THEN Nil ELSE a

(* A JSON text is sent as it is, and {} is not empty for omitempty.        *)
DecodeJSONField(v) == ToAPI(v)

(* Mutant: the key is left out when there are no parameters.               *)
NormalizeNothing(a) == a

(* normalizeAdmissionControllerControl.                                    *)
normalize(a) == IF a = Nil THEN << >> ELSE a

(* The key in the body of a request; a nil pointer that is not dropped is  *)
(* a JSON null, which clears the description.                              *)
Sent(k, v, creating) ==
    CASE k \in {"scope", "assignment"}          -> StringSliceFrom(v)
      [] k = "selectors"                        -> ToAPINonNull(v)
      [] k \in {"keywords", "document"}         -> omitempty(ToAPI(v))
      [] k = "business_units"                   ->
            IF creating THEN omitempty(ToAPI(v)) ELSE ToAPI(v)
      [] k = "description"                      -> StringSliceFrom(v)
      [] k = "sensitivity"                      -> omitempty(StringSliceFrom(v))
      [] k = "threshold"                        -> ToAPI(v)
      [] k = "input_parameters"                 -> normalize(DecodeJSONField(v))
      [] k \in {"status_mapping", "mapping"}    -> DecodeJSONField(v)

-----------------------------------------------------------------------------
(* From the service; prior is the planned value after a write and the one  *)
(* of the state in a read, null in an import.                              *)

Blank(a) == a \in {Nil, << >>}

(* Mutant: an empty answer is an empty value.                              *)
EmptyUnlessAnswered(prior, a) == IF Blank(a) THEN << >> ELSE a

(* OptionalListMatchPlan and OptionalSetMatchPlan, and with the same       *)
(* outcome StringListFromAPIPreserveNull and StringSetFromAPIPreserveNull. *)
MatchPlan(prior, a) ==
    IF ~Blank(a) THEN a ELSE IF prior = Null THEN Null ELSE << >>

(* OptionalStringMatchPlan: a value that was cleared is not resurrected.   *)
OptionalStringMatchPlan(prior, a) ==
    IF ~Blank(a) THEN a ELSE IF prior = << >> THEN prior ELSE Null

(* StringOrNull, and Int64FromAPIPtr, which sees no empty number.          *)
OrNull(a) == IF Blank(a) THEN Null ELSE a

(* SetValueFrom makes a null set of a nil slice.                           *)
BusinessUnitsFromAPI(prior, a) ==
    IF a = Nil \/ (Blank(a) /\ prior = Null) THEN Null ELSE a

(* EncodeJSONField: an empty answer keeps the planned value whatever it is,*)
(* and without one the text is written anew.  EncodeOrcaMappingField       *)
(* always writes it anew, with the shorthand.                              *)
EncodeJSONField(prior, a) ==
    IF Blank(a) THEN prior ELSE IF prior = Null THEN Sorted(a) ELSE a

EncodeOrcaMappingField(prior, a) == IF Blank(a) THEN prior ELSE Sorted(a)

FromAPI(k, prior, a) ==
    CASE k \in {"scope", "keywords"}                  -> MatchPlan(prior, a)
      [] k \in {"assignment", "selectors", "document"} ->
            MatchPlan(prior, IF Blank(a) THEN a ELSE Sorted(a))
      [] k = "business_units"                         ->
            BusinessUnitsFromAPI(prior, IF Blank(a) THEN a ELSE Sorted(a))
      [] k = "description"                            -> OptionalStringMatchPlan(prior, a)
      [] k \in {"sensitivity", "threshold"}           -> OrNull(a)
      [] k \in {"input_parameters", "status_mapping"} -> EncodeJSONField(prior, a)
      [] k = "mapping"                                -> EncodeOrcaMappingField(prior, a)

(* The framework, after every handler: a JSON text that means the same as  *)
(* the one before it (StringSemanticEquals) gives way to that one.         *)
SemanticEquals(k, prior, new) ==
    /\ k \in DocumentKinds
    /\ prior # Null /\ new # Null
    /\ ToSet(prior) = ToSet(new)

Settled(k, prior, new) == IF SemanticEquals(k, prior, new) THEN prior ELSE new

(* What a GET, or the answer of a write, can show of the content s.        *)
Answers(s) ==
    IF s = << >> THEN {service.blank}
    ELSE IF service.shuffles THEN Layouts(s) ELSE {s}

-----------------------------------------------------------------------------
ValueInit ==
    /\ kind \in Kinds
    /\ service \in Services(kind)
    /\ configured \in Configs(kind)
    /\ tracked = Null
    /\ remote = << >>
    /\ edits = 0 /\ changes = 0

Exists == tracked # Null

(* These resources store the plan after a write, the others the answer.    *)
StoresPlan(k) == k \in {"keywords", "selectors", "document", "sensitivity", "threshold"}

(* A write with the content after it.  A created object whose state is not *)
(* what was planned is tainted; an update only reports the error.          *)
Write(creating, content) ==
    /\ remote' = content
    /\ \E a \in Answers(content) :
         LET new == IF StoresPlan(kind) THEN configured
                    ELSE Settled(kind, configured, FromAPI(kind, configured, a))
         IN tracked' = [value |-> new, tainted |-> creating /\ new # configured]
    /\ UNCHANGED <<kind, service, configured, edits, changes>>

(* A new object has what was sent; a tainted one is deleted first.         *)
Create ==
    /\ Exists => tracked.tainted
    /\ LET sent == Sent(kind, configured, TRUE)
       IN Write(TRUE, IF sent = Nil THEN << >> ELSE sent)

(* Terraform compares texts when it plans, not what they mean.             *)
Update ==
    /\ Exists /\ ~tracked.tainted
    /\ tracked.value # configured
    /\ LET sent == Sent(kind, configured, FALSE)
       IN Write(FALSE, IF sent # Nil THEN sent
                       ELSE IF service.keeps THEN remote ELSE << >>)

Refresh(prior) ==
    \E a \in Answers(remote) :
        tracked' = [tracked EXCEPT !.value = Settled(kind, prior, FromAPI(kind, prior, a))]

Read ==
    /\ Exists
    /\ Refresh(tracked.value)
    /\ UNCHANGED <<kind, service, configured, remote, edits, changes>>

(* The resource is taken out of the state and imported: there is no prior. *)
Import ==
    /\ Exists /\ ~tracked.tainted
    /\ edits < MaxEdits
    /\ edits' = edits + 1
    /\ Refresh(Null)
    /\ UNCHANGED <<kind, service, configured, remote, changes>>

EditConfig ==
    /\ edits < MaxEdits
    /\ edits' = edits + 1
    /\ configured' \in Configs(kind) \ {configured}
    /\ UNCHANGED <<kind, service, tracked, remote, changes>>

ChangeOutside ==
    /\ Exists
    /\ changes < MaxChanges
    /\ changes' = changes + 1
    /\ remote' \in Contents(kind) \ {remote}
    /\ UNCHANGED <<kind, service, configured, tracked, edits>>

ValueNext == Create \/ Update \/ Read \/ Import \/ EditConfig \/ ChangeOutside

(* Somebody keeps refreshing and applying; nobody has to edit, import or   *)
(* change anything.                                                        *)
ValueSpec ==
    /\ ValueInit /\ [][ValueNext]_valueVars
    /\ WF_valueVars(Create) /\ WF_valueVars(Update) /\ WF_valueVars(Read)

-----------------------------------------------------------------------------
ValueTypeOK ==
    /\ kind \in Kinds
    /\ service \in Services(kind)
    /\ configured \in Configs(kind)
    /\ tracked \in {Null} \cup [value : Contents(kind) \cup {Null}, tainted : BOOLEAN]
    /\ remote \in Contents(kind)
    /\ edits \in 0 .. MaxEdits /\ changes \in 0 .. MaxChanges

(* What the code cannot express.  A list is compared in the order in which *)
(* the service returns it.                                                 *)
Reordered ==
    kind \in ListKinds /\ service.shuffles /\ configured # Null /\ Len(configured) >= 2

(* A key is left out for a value that should be cleared, and is kept.      *)
CannotBeCleared ==
    /\ service.keeps
    /\ \/ kind = "document" /\ configured \in {Null, << >>}
       \/ kind \in {"business_units", "status_mapping"} /\ configured = Null

(* An empty set of business units, and an answer without any.              *)
NilIsNull == kind = "business_units" /\ configured = << >> /\ service.blank = Nil

(* Somebody has emptied an object that is configured: the planned text     *)
(* stays in the state.                                                     *)
EmptiedUnseen == kind \in DocumentKinds /\ remote = << >> /\ configured \notin {Null, << >>}

(* "must match the planned value after apply": a write leaves the state    *)
(* with what was planned, null, empty and text alike, except for the cases *)
(* named above.  Otherwise Terraform reports a bug of the provider, and    *)
(* replaces what it has just created.                                      *)
Consistent ==
    [][(Create \/ Update) /\ ~Reordered /\ ~CannotBeCleared /\ ~NilIsNull
        => tracked'.value = configured]_valueVars

InSync ==
    /\ Exists /\ ~tracked.tainted
    /\ tracked.value = configured
    /\ ToSet(remote) = IF configured = Null THEN {} ELSE ToSet(configured)

(* "to avoid a null vs [] diff on every plan": once the edits, imports and *)
(* changes end, refreshing and applying comes to rest with the value in    *)
(* the state and the content on the service that were configured, except   *)
(* for the cases named above.                                              *)
ValueConverges ==
    <>[](~Reordered /\ ~CannotBeCleared /\ ~NilIsNull /\ ~EmptiedUnseen) => <>[]InSync
===============================================================================
