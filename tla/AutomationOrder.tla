---------------------------- MODULE AutomationOrder ----------------------------
(***************************************************************************)
(* Several owners of the one evaluation order in one Terraform             *)
(* configuration: automations with the priority attribute                  *)
(* (automation_v2/priority.go) and the bulk list of                        *)
(* orcasecurity_automation_v2_priority_order.  Automation and              *)
(* PriorityOrder follow one handler in a world that interferes; here the   *)
(* handlers of all owners meet.                                            *)
(*                                                                         *)
(* A terraform apply refreshes every owner, plans those whose position has *)
(* drifted, and runs their handlers concurrently.  Each PUT of one owner   *)
(* may move what another has placed, or is about to compare.               *)
(***************************************************************************)
EXTENDS EvaluationOrder, Sequences

CONSTANTS
    Count,          \* how many automations there are
    MaxLegacy,      \* bound: priorities at first
    MaxEntries,     \* bound: length of the list
    MaxFailures     \* bound: PUTs that fail

ASSUME AutomationOrderAssumption ==
    /\ {Count, MaxLegacy, MaxEntries, MaxFailures} \subseteq Nat
    /\ Count <= MaxLegacy

VARIABLES
    standing,   \* the evaluation order of the service
    legacy,     \* what it was at first
    pins,       \* the priority attribute of each automation, 0 when it has none
    list,       \* automation_ids of the list; << >> is no such resource
    referring,  \* the list refers to the automations, and so comes after them
    saved,      \* the list is in Terraform's state
    at,         \* where the handler of each owner is
    next,       \* the entry of the list that is asserted next
    attempt,    \* which attempt of the list this is
    applies,    \* applies that had anything to do
    failures

ownersVars ==
    <<standing, legacy, pins, list, referring, saved, at, next, attempt, applies, failures>>
wanted == <<legacy, pins, list, referring>>

-----------------------------------------------------------------------------
Ids == 1 .. Count
TheList == 0                            \* the list, as an owner
Owners == Ids \cup {TheList}

BulkLists == {s \in UNION {[1 .. n -> Ids] : n \in 0 .. MaxEntries} : UniqueValues(s)}

(* Automations are numbered by the order they are in at first, which has   *)
(* no duplicates but may have gaps.                                        *)
LegacyOrders == {p \in [Ids -> 1 .. MaxLegacy] : \A a, b \in Ids : a < b => p[a] < p[b]}

Leading(n) == SubSeq(Ranking(standing), 1, n)

(* All owners have the positions they ask for.                             *)
Met(p) ==
    /\ \A a \in Ids : pins[a] \in {0, p[a]}
    /\ \A i \in DOMAIN list : p[list[i]] = i

(* They can: some order without gaps meets them all.  Owners that both     *)
(* list and pin an automation are compatible when they agree on it.        *)
(* Others, the documentation says, "will fight each other, producing       *)
(* perpetual plan diffs", and are left out.                                *)
Compatible == \E p \in [Ids -> Ids] : Distinct(p) /\ Met(p)

(* What a PUT comes to: it takes effect or not, and the owner is told.     *)
PutOutcomes == {"fine", "failed", "lost"}

Failing(outcome) ==
    /\ failures' = IF outcome = "fine" THEN failures ELSE failures + 1
    /\ failures' <= MaxFailures

PriorityEffect(outcome, a, n) ==
    standing' = IF outcome = "failed" THEN standing ELSE Moved(standing, a, n)

OwnersInit ==
    /\ standing \in LegacyOrders
    /\ legacy = standing
    /\ pins \in [Ids -> 0 .. Count]
    /\ list \in BulkLists
    /\ Compatible
    /\ referring \in BOOLEAN
    /\ saved = FALSE
    /\ at = [o \in Owners |-> "idle"]
    /\ next = 1 /\ attempt = 0
    /\ applies = 0
    /\ failures = 0

-----------------------------------------------------------------------------
(* What a refresh followed by a plan finds to do.                          *)
PinDrifted(a) == pins[a] # 0 /\ standing[a] # pins[a]

ListDrifted == list # << >> /\ (saved => Leading(Len(list)) # list)

Resting == \A o \in Owners : at[o] = "idle"

(* terraform apply: every owner is refreshed, then the handlers begin.     *)
Apply ==
    /\ Resting
    /\ ListDrifted \/ \E a \in Ids : PinDrifted(a)
    /\ at' = [o \in Owners |->
                CASE o = TheList /\ ListDrifted -> "assert"
                  [] o # TheList /\ PinDrifted(o) -> "verify"
                  [] OTHER -> "idle"]
    /\ next' = 1 /\ attempt' = 0
    /\ applies' = IF applies <= Count THEN applies + 1 ELSE applies
    /\ UNCHANGED <<standing, wanted, saved, failures>>

-----------------------------------------------------------------------------
(* The handler of an automation: a GET, and a PUT unless its priority has  *)
(* come right meanwhile.                                                   *)
updatePriorityOnly(a) ==
    /\ at[a] = "verify"
    /\ at' = [at EXCEPT ![a] = IF standing[a] = pins[a] THEN "idle" ELSE "set"]
    /\ UNCHANGED <<standing, wanted, saved, next, attempt, applies, failures>>

(* Mutant: the priority is counted from 0, as the list is in Go.           *)
applyPriorityFromZero(a, outcome) ==
    /\ at[a] = "set"
    /\ Failing(outcome)
    /\ PriorityEffect(outcome, a, IF pins[a] = 1 THEN 1 ELSE pins[a] - 1)
    /\ at' = [at EXCEPT ![a] = "idle"]
    /\ UNCHANGED <<wanted, saved, next, attempt, applies>>

applyPriority(a, outcome) ==
    /\ at[a] = "set"
    /\ Failing(outcome)
    /\ PriorityEffect(outcome, a, pins[a])
    /\ at' = [at EXCEPT ![a] = "idle"]
    /\ UNCHANGED <<wanted, saved, next, attempt, applies>>

(* Terraform runs the handler of a resource after those it refers to.      *)
Turn == referring => \A a \in Ids : at[a] = "idle"

(* Mutant: the entries are counted from 0, as they are in Go.              *)
assertOrderFromZero(outcome) ==
    /\ at[TheList] = "assert"
    /\ Turn
    /\ Failing(outcome)
    /\ PriorityEffect(outcome, list[next], IF next = 1 THEN 1 ELSE next - 1)
    /\ CASE outcome # "fine" -> at' = [at EXCEPT ![TheList] = "idle"] /\ next' = 1
         [] outcome = "fine" /\ next < Len(list) -> next' = next + 1 /\ UNCHANGED at
         [] OTHER -> at' = [at EXCEPT ![TheList] = "list"] /\ next' = 1
    /\ UNCHANGED <<wanted, saved, attempt, applies>>

(* assertOrder.                                                            *)
assertOrder(outcome) ==
    /\ at[TheList] = "assert"
    /\ Turn
    /\ Failing(outcome)
    /\ PriorityEffect(outcome, list[next], next)
    /\ CASE outcome # "fine" -> at' = [at EXCEPT ![TheList] = "idle"] /\ next' = 1
         [] outcome = "fine" /\ next < Len(list) -> next' = next + 1 /\ UNCHANGED at
         [] OTHER -> at' = [at EXCEPT ![TheList] = "list"] /\ next' = 1
    /\ UNCHANGED <<wanted, saved, attempt, applies>>

(* applyOrder: what has been achieved is compared with the list, which is  *)
(* asserted a second time, or saved, or not.                               *)
applyOrder ==
    LET achieved == Leading(Len(list)) = list IN
    /\ at[TheList] = "list"
    /\ CASE achieved ->
                at' = [at EXCEPT ![TheList] = "idle"] /\ saved' = TRUE /\ UNCHANGED attempt
         [] ~achieved /\ attempt = 1 ->
                at' = [at EXCEPT ![TheList] = "idle"] /\ UNCHANGED <<saved, attempt>>
         [] OTHER ->
                at' = [at EXCEPT ![TheList] = "assert"] /\ attempt' = 1 /\ UNCHANGED saved
    /\ UNCHANGED <<standing, wanted, next, applies, failures>>

Handle ==
    \/ \E a \in Ids : updatePriorityOnly(a)
    \/ \E a \in Ids, o \in PutOutcomes : applyPriority(a, o)
    \/ \E o \in PutOutcomes : assertOrder(o)
    \/ applyOrder

OwnersNext == Apply \/ Handle

(* Handlers run to their end, and the user keeps running terraform apply.  *)
OwnersSpec ==
    OwnersInit /\ [][OwnersNext]_ownersVars /\ WF_ownersVars(Handle) /\ WF_ownersVars(Apply)

-----------------------------------------------------------------------------
(* The shape of the state.                                                 *)
OwnersTypeOK ==
    /\ DOMAIN standing = Ids /\ Distinct(standing)
    /\ \A a \in Ids : standing[a] \in 1 .. MaxLegacy
    /\ legacy \in LegacyOrders
    /\ pins \in [Ids -> 0 .. Count] /\ list \in BulkLists
    /\ referring \in BOOLEAN /\ saved \in BOOLEAN
    /\ DOMAIN at = Owners /\ at[TheList] \in {"idle", "assert", "list"}
    /\ \A a \in Ids : at[a] \in {"idle", "verify", "set"}
    /\ at[TheList] = "assert" => next \in DOMAIN list
    /\ attempt \in 0 .. 1
    /\ applies \in 0 .. Count + 1
    /\ failures \in 0 .. MaxFailures

(* "Both mechanisms write to the same global ordering": a list that is     *)
(* saved and in place is not displaced any more by the handlers of         *)
(* automations that are pinned elsewhere, concurrent ones that have read   *)
(* an older order included.                                                *)
HeldListStays ==
    [][saved /\ Leading(Len(list)) = list => Leading(Len(list))' = list]_ownersVars

(* "Reordering several automations in one apply is order-dependent, so it  *)
(* can take more than one apply to converge": but fewer than there are     *)
(* automations, in whichever order the handlers meet, when the order has   *)
(* no gaps, and only one when the list is the only owner.                  *)
FewApplies ==
    failures = 0 =>
        /\ (\A a \in Ids : legacy[a] = a) => applies <= 1 \/ applies < Count
        /\ (\A a \in Ids : pins[a] = 0) => applies <= 1

(* Owners that are compatible come to rest: applying again and again gives *)
(* each its position, for good, whatever undoes what in between.           *)
Converges == <>[](Met(standing) /\ Resting)
===============================================================================
