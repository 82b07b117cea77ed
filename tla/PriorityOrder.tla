----------------------------- MODULE PriorityOrder -----------------------------
(***************************************************************************)
(* The orcasecurity_automation_v2_priority_order resource                  *)
(* (automation_v2_priority_order/resource.go): it owns the top of the      *)
(* evaluation order, one PUT per listed automation, then lists the         *)
(* automations page by page to see what it has achieved, and tries a       *)
(* second time before it gives up.                                         *)
(*                                                                         *)
(* Meanwhile anybody may move, create or delete automations in the Orca    *)
(* console, and a PUT that the client gave up on and retried may reach the *)
(* service late.                                                           *)
(***************************************************************************)
EXTENDS EvaluationOrder, Sequences

CONSTANTS
    MaxAutomations,     \* bound: automations ever created
    MaxPriority,        \* bound: priorities in legacy data
    MaxListed,          \* bound: length of a configured list
    Lists,              \* bound: the lists that users configure
    MaxOutside,         \* bound: what others do in the console
    PageLimit           \* pageLimit (300): automations in a page

Automations == 1 .. MaxAutomations

(* SizeAtLeast(1) and UniqueValues.                                        *)
ValidLists ==
    {s \in UNION {[1 .. n -> Automations] : n \in 1 .. MaxListed} : UniqueValues(s)}

ASSUME PriorityOrderAssumption ==
    /\ MaxAutomations \in Nat /\ MaxPriority \in Nat /\ MaxListed \in Nat
    /\ Lists \subseteq ValidLists
    /\ MaxOutside \in Nat
    /\ PageLimit \in Nat \ {0}

VARIABLES
    prio,       \* the service's evaluation order
    created,    \* how many automations have been created
    config,     \* automation_ids as configured; << >> is no such resource
    state,      \* automation_ids in Terraform's state, and whether there are
    op,         \* the handler that runs: where it is and what it has read
    late,       \* a retried PUT of which the first attempt is still to come
    quiet,      \* has only the handler changed the order since it began
    before,     \* the order when it began, while only it has changed it
    strayed,    \* has a late PUT changed the order in that quiet
    outside     \* how often others have changed the order

vars == <<prio, created, config, state, op, late, quiet, before, strayed, outside>>

-----------------------------------------------------------------------------
Orders == UNION {[A -> 1 .. MaxPriority] : A \in {1 .. n : n \in 0 .. MaxAutomations}}

NotManaged == [managed |-> FALSE, ids |-> << >>]
Managed(ids) == [managed |-> TRUE, ids |-> ids]
NoPut == [id |-> 0, priority |-> 0]
NoOrder == << >>

AtMost(bound, n) == IF n > bound THEN bound ELSE n

Idle == op.kind = "none"
At(pc) == op.pc = pc

Init ==
    /\ prio \in Orders
    /\ created = Cardinality(DOMAIN prio)
    /\ config = << >>
    /\ state = NotManaged
    /\ op = [kind |-> "none", pc |-> "idle", ids |-> << >>, next |-> 1, attempt |-> 0,
             all |-> << >>, result |-> "none"]
    /\ late = NoPut
    /\ quiet = FALSE
    /\ before = NoOrder
    /\ strayed = FALSE
    /\ outside = 0

-----------------------------------------------------------------------------
(* The user writes, edits or removes the resource.                         *)
Configure(ids) ==
    /\ Idle
    /\ ids # config
    /\ config' = ids
    /\ UNCHANGED <<prio, created, state, op, late, quiet, before, strayed, outside>>

(* A handler begins; a late PUT of an earlier one can still interfere.     *)
Begin(kind, pc, ids) ==
    /\ op' = [kind |-> kind, pc |-> pc, ids |-> ids, next |-> 1, attempt |-> 0,
              all |-> << >>, result |-> "none"]
    /\ quiet' = (late = NoPut)
    /\ before' = IF quiet' THEN prio ELSE NoOrder
    /\ strayed' = FALSE
    /\ UNCHANGED <<prio, created, config, state, late, outside>>

(* Create, or Update when the plan shows a difference: applyOrder.         *)
BeginApply ==
    /\ Idle
    /\ config # << >>
    /\ state # Managed(config)
    /\ Begin("apply", "assert", config)

BeginRead ==
    /\ Idle
    /\ state.managed
    /\ Begin("read", "list", state.ids)

(* Nothing is promised of what follows.                                    *)
Forget ==
    /\ quiet' = FALSE
    /\ before' = NoOrder
    /\ strayed' = FALSE

History == <<quiet, before, strayed>>

(* A handler ends; one that fails promises nothing.                        *)
End(result) ==
    /\ op' = [kind |-> "none", pc |-> "idle", ids |-> << >>, next |-> 1, attempt |-> 0,
              all |-> << >>, result |-> result]
    /\ IF result = "error" THEN Forget ELSE UNCHANGED History

(* Mutant: the list's entries are numbered from 2.                         *)
PutPositionLate(i) == i + 1

PutPosition(i) == i

(* assertOrder: the PUT for the next entry of the list.  It succeeds,      *)
(* perhaps by a retry whose first attempt is still on its way; or fails,   *)
(* as for an automation that is gone, perhaps after it took effect or      *)
(* before it does.                                                         *)
AssertNext(outcome) ==
    LET id == op.ids[op.next]
        put == [id |-> id, priority |-> PutPosition(op.next)]
        effect == outcome \notin {"failed", "pending"}
    IN
    /\ At("assert")
    /\ effect => id \in DOMAIN prio
    /\ prio' = IF effect THEN Moved(prio, id, put.priority) ELSE prio
    /\ IF outcome \in {"retried", "pending"}
       THEN late = NoPut /\ late' = put
       ELSE UNCHANGED late
    /\ \/ outcome \in {"failed", "pending", "lost"} /\ End("error")
       \/ /\ outcome \in {"fine", "retried"}
          /\ op' = IF op.next < Len(op.ids) THEN [op EXCEPT !.next = @ + 1]
                   ELSE [op EXCEPT !.pc = "list", !.all = << >>]
          /\ UNCHANGED History
    /\ UNCHANGED <<created, config, state, outside>>

-----------------------------------------------------------------------------
(* ListAutomationsV2: a page begins after the items received so far.       *)
Page ==
    SubSeq(Ranking(prio), Len(op.all) + 1,
           AtMost(Cardinality(DOMAIN prio), Len(op.all) + PageLimit))

Listed == op.all \o Page

LastPage == Page = << >> \/ Len(Listed) >= Cardinality(DOMAIN prio)

(* topNIDs.                                                                *)
Top(n, s) == SubSeq(s, 1, AtMost(Len(s), n))

ListPage ==
    /\ At("list")
    /\ ~LastPage
    /\ op' = [op EXCEPT !.all = Listed]
    /\ UNCHANGED <<prio, created, config, state, late, quiet, before, strayed, outside>>

ListFails ==
    /\ At("list")
    /\ End("error")
    /\ UNCHANGED <<prio, created, config, state, late, outside>>

(* Mutant: the second attempt is trusted.                                  *)
TrustSecondAttempt ==
    LET achieved == Top(Len(op.ids), Listed) IN
    /\ At("list")
    /\ op.kind = "apply"
    /\ LastPage
    /\ CASE achieved = op.ids \/ op.attempt = 1 ->
                End("ok") /\ state' = Managed(op.ids)
         [] OTHER ->
                /\ op' = [op EXCEPT !.pc = "assert", !.next = 1, !.attempt = 1]
                /\ UNCHANGED <<state, History>>
    /\ UNCHANGED <<prio, created, config, late, outside>>

(* Mutant: it is tried again until it works.                               *)
VerifyForever ==
    LET achieved == Top(Len(op.ids), Listed) IN
    /\ At("list")
    /\ op.kind = "apply"
    /\ LastPage
    /\ CASE achieved = op.ids -> End("ok") /\ state' = Managed(op.ids)
         [] OTHER ->
                /\ op' = [op EXCEPT !.pc = "assert", !.next = 1, !.attempt = 1]
                /\ UNCHANGED <<state, History>>
    /\ UNCHANGED <<prio, created, config, late, outside>>

(* applyOrder with the last page in hand: the plan is saved, or the whole  *)
(* list is asserted once more, or the apply fails.                         *)
VerifyOrder ==
    LET achieved == Top(Len(op.ids), Listed) IN
    /\ At("list")
    /\ op.kind = "apply"
    /\ LastPage
    /\ CASE achieved = op.ids -> End("ok") /\ state' = Managed(op.ids)
         [] achieved # op.ids /\ op.attempt = 1 -> End("diverged") /\ UNCHANGED state
         [] OTHER ->
                /\ op' = [op EXCEPT !.pc = "assert", !.next = 1, !.attempt = 1]
                /\ UNCHANGED <<state, History>>
    /\ UNCHANGED <<prio, created, config, late, outside>>

(* Read: the state becomes what is at the top, as long as it was.          *)
RefreshOrder ==
    /\ At("list")
    /\ op.kind = "read"
    /\ LastPage
    /\ End("ok")
    /\ state' = Managed(Top(Len(op.ids), Listed))
    /\ UNCHANGED <<prio, created, config, late, outside>>

(* Delete makes no call: the automations keep their positions.             *)
Delete ==
    /\ Idle
    /\ config = << >>
    /\ state.managed
    /\ state' = NotManaged
    /\ op' = [op EXCEPT !.result = "none"]
    /\ Forget
    /\ UNCHANGED <<prio, created, config, late, outside>>

-----------------------------------------------------------------------------
(* The first attempt of a retried PUT reaches the service after all.       *)
LatePut ==
    /\ late # NoPut
    /\ prio' = IF late.id \in DOMAIN prio
               THEN Moved(prio, late.id, late.priority) ELSE prio
    /\ late' = NoPut
    /\ strayed' = (quiet /\ (strayed \/ prio' # prio))
    /\ UNCHANGED <<created, config, state, op, quiet, before, outside>>

(* The console: somebody else moves, creates or deletes an automation.     *)
Outside(order, count) ==
    /\ prio' = order
    /\ created' = count
    /\ Forget
    /\ outside < MaxOutside
    /\ outside' = outside + 1
    /\ UNCHANGED <<config, state, op, late>>

MoveOutside(a, n) == a \in DOMAIN prio /\ Outside(Moved(prio, a, n), created)

CreateOutside ==
    /\ created < MaxAutomations
    /\ Outside([a \in DOMAIN prio \cup {created + 1} |->
                  IF a \in DOMAIN prio THEN prio[a] ELSE Highest(prio) + 1],
               created + 1)

DeleteOutside(a) ==
    /\ a \in DOMAIN prio
    /\ Outside([b \in DOMAIN prio \ {a} |-> prio[b]], created)

-----------------------------------------------------------------------------
Outcomes == {"fine", "retried", "failed", "pending", "lost"}

Handler ==
    \/ \E o \in Outcomes : AssertNext(o)
    \/ ListPage
    \/ ListFails
    \/ VerifyOrder
    \/ RefreshOrder

Terraform ==
    \/ \E ids \in Lists \cup {<< >>} : Configure(ids)
    \/ BeginApply
    \/ BeginRead
    \/ Delete

Environment ==
    \/ LatePut
    \/ CreateOutside
    \/ \E a \in Automations : DeleteOutside(a)
    \/ \E a \in Automations, n \in 1 .. MaxPriority : MoveOutside(a, n)

Next == Handler \/ Terraform \/ Environment

(* A handler that has begun is carried on: every call of the client        *)
(* returns (ApiClient), and nothing else is waited for.                    *)
Spec == Init /\ [][Next]_vars /\ WF_vars(Handler)

-----------------------------------------------------------------------------
(* The shape of the state.                                                 *)
TypeOK ==
    /\ created \in 0 .. MaxAutomations
    /\ DOMAIN prio \subseteq 1 .. created
    /\ \A a \in DOMAIN prio : prio[a] \in Nat \ {0}
    /\ config \in Lists \cup {<< >>}
    /\ state.managed \in BOOLEAN
    /\ Len(state.ids) <= MaxListed
    /\ op.kind \in {"none", "apply", "read"}
    /\ <<op.kind, op.pc>> \in {<<"none", "idle">>, <<"apply", "assert">>,
                              <<"apply", "list">>, <<"read", "list">>}
    /\ At("assert") => op.next \in 1 .. Len(op.ids)
    /\ op.attempt \in 0 .. 1
    /\ op.result \in {"none", "ok", "error", "diverged"}
    /\ late = NoPut \/ (late.id \in Automations /\ late.priority \in 1 .. MaxListed)
    /\ quiet \in BOOLEAN
    /\ strayed \in BOOLEAN

(* A list in Terraform's state, saved by an apply or by a refresh, is what *)
(* the service evaluates first, in this order: unless somebody has         *)
(* reordered the automations since the handler began.  A late duplicate of *)
(* one of the handler's own PUTs cannot spoil it, before or after the end, *)
(* on an order without duplicates; with duplicates a later PUT of the list *)
(* may push back an entry already placed, and the late PUT then undoes     *)
(* what has been verified.                                                 *)
SavedOrderIsAchieved ==
    Idle /\ quiet /\ op.result = "ok" /\ state.managed /\ (strayed => Distinct(before))
    => state.ids = Top(Len(state.ids), Ranking(prio))

(* Does the handler work undisturbed on an order without duplicates?       *)
Undisturbed == quiet /\ Distinct(before)

(* "This resource asserts the whole list sequentially from a single owner, *)
(* so a full reorder always converges in one apply", and "automations not  *)
(* listed keep their relative order": true whenever nobody interferes and  *)
(* no two automations share a priority; gaps do no harm.                   *)
FullReorderConverges ==
    Undisturbed =>
        /\ op.result # "diverged"
        /\ ~Idle => \A a, b \in DOMAIN prio \ {op.ids[i] : i \in DOMAIN op.ids} :
                      Before(before, a, b) = Before(prio, a, b)

(* While the list is asserted each move leaves the entries already placed  *)
(* where they are.                                                         *)
PrefixHeld ==
    Undisturbed /\ At("assert") =>
        \A i \in 1 .. op.next - 1 : prio[op.ids[i]] = i

(* Every handler ends, with or without an error, whatever the others do to *)
(* the list it is paging through.                                          *)
HandlersEnd == ~Idle ~> Idle
=============================================================================
