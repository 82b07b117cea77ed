------------------------------- MODULE RbacAccess -------------------------------
(***************************************************************************)
(* The resources orcasecurity_group_access and orcasecurity_user_access    *)
(* over their shared engine (api_client/rbac_access.go).                   *)
(*                                                                         *)
(* The service has no route for one assignment: a handler reads the whole  *)
(* collection, page by page for groups, in one answer for users, and takes *)
(* the row with its id, or else, because the service may have given the    *)
(* row a new id, a row of the same owner, role and scope.                  *)
(*                                                                         *)
(* Several resources of one owner and role are managed at once; Terraform  *)
(* runs their handlers concurrently.  Owner and role are fixed (a change   *)
(* replaces the resource), so a row is its id and its scope.               *)
(***************************************************************************)
EXTENDS Integers, Sequences

CONSTANTS
    Resources,          \* the access resources of one owner and role
    Scopes,             \* cloud accounts, projects and user filters of a row
    NoScope,            \* not configured
    PageLimit,          \* rbacAccessPageLimit (300)
    MaxId,              \* bound: rows ever created
    MaxEdits,           \* bound: edits of the configuration
    MaxFailures,        \* bound: calls that fail
    MaxChanges          \* bound: what the service and others do to the rows

ASSUME RbacAccessAssumption ==
    /\ {MaxId, MaxEdits, MaxFailures, MaxChanges} \subseteq Nat
    /\ PageLimit \in Nat \ {0}
    /\ NoScope \notin Scopes

VARIABLES
    paginated,  \* which endpoint: group access is paged, user access is not
    config,     \* config[r]: the scope the user has written, or NoScope
    state,      \* state[r]: the row Terraform tracks, or NoRow
    rows,       \* the collection, in the order of the list endpoint
    nextId,     \* the id of the next row
    op,         \* op[r]: the handler of r that runs
    settled,    \* no row has changed but by a handler that knows of it
    edits, failures, changes

vars == <<paginated, config, state, rows, nextId, op, settled, edits, failures, changes>>
counters == <<edits, failures, changes>>

-----------------------------------------------------------------------------
Rows == [id : 1 .. MaxId, scope : Scopes]
NoRow == [id |-> 0, scope |-> NoScope]

RowsOf(list) == {list[i] : i \in DOMAIN list}
IdsOf(list) == {row.id : row \in RowsOf(list)}

AtMost(bound, n) == IF n > bound THEN bound ELSE n

(* Where the row with this id, and the first row with this scope, is.      *)
IndexOfId(list, id) == CHOOSE i \in DOMAIN list : list[i].id = id
FirstOfScope(list, scope) ==
    CHOOSE i \in DOMAIN list :
        /\ list[i].scope = scope
        /\ \A j \in DOMAIN list : list[j].scope = scope => i <= j

(* The list after the row with this id has gone.                           *)
Without(list, id) ==
    IF id \in IdsOf(list)
    THEN [i \in 1 .. Len(list) - 1 |-> IF i < IndexOfId(list, id) THEN list[i] ELSE list[i + 1]]
    ELSE list

HasScope(list, scope) == \E row \in RowsOf(list) : row.scope = scope

(* Mutant: the first row of the same scope is as good.                     *)
FindByScope(list, id, want) ==
    CASE HasScope(list, want) -> list[FirstOfScope(list, want)]
      [] OTHER -> NoRow

(* Mutant: a changed id is not followed.                                   *)
FindById(list, id, want) ==
    IF id \in IdsOf(list) THEN list[IndexOfId(list, id)] ELSE NoRow

(* findAccess with the whole list in hand, pickMatchingAccess.             *)
Find(list, id, want) ==
    CASE id \in IdsOf(list) -> list[IndexOfId(list, id)]
      [] id \notin IdsOf(list) /\ HasScope(list, want) -> list[FirstOfScope(list, want)]
      [] OTHER -> NoRow

Idle(r) == op[r].kind = "none"
At(r, pc) == op[r].pc = pc

NoOp == [kind |-> "none", pc |-> "", id |-> 0, want |-> NoScope, got |-> << >>]
Begin(r, kind, pc, id, want) ==
    op' = [op EXCEPT ![r] = [kind |-> kind, pc |-> pc, id |-> id, want |-> want,
                             got |-> << >>]]
End(r) == op' = [op EXCEPT ![r] = NoOp]

Outcomes == {"fine", "failed", "lost"}
Failing(outcome) ==
    /\ failures' = IF outcome = "fine" THEN failures ELSE failures + 1
    /\ failures' <= MaxFailures
    /\ UNCHANGED <<edits, changes>>

Init ==
    /\ paginated \in BOOLEAN
    /\ config = [r \in Resources |-> NoScope]
    /\ state = [r \in Resources |-> NoRow]
    /\ rows = << >>
    /\ nextId = 1
    /\ op = [r \in Resources |-> NoOp]
    /\ settled = TRUE
    /\ edits = 0 /\ failures = 0 /\ changes = 0

EditConfig(r, scope) ==
    /\ \A q \in Resources : Idle(q)
    /\ scope # config[r]
    /\ edits < MaxEdits
    /\ edits' = edits + 1
    /\ config' = [config EXCEPT ![r] = scope]
    /\ UNCHANGED <<paginated, state, rows, nextId, op, settled, failures, changes>>

-----------------------------------------------------------------------------
(* The handlers begin.                                                     *)
BeginCreate(r) ==
    /\ Idle(r)
    /\ config[r] # NoScope
    /\ state[r] = NoRow
    /\ nextId <= MaxId
    /\ Begin(r, "create", "post", 0, config[r])
    /\ UNCHANGED <<paginated, config, state, rows, nextId, settled, counters>>

BeginRead(r) ==
    /\ Idle(r)
    /\ state[r] # NoRow
    /\ Begin(r, "read", "list", state[r].id, state[r].scope)
    /\ UNCHANGED <<paginated, config, state, rows, nextId, settled, counters>>

BeginUpdate(r) ==
    /\ Idle(r)
    /\ config[r] # NoScope
    /\ state[r] # NoRow
    /\ state[r].scope # config[r]
    /\ Begin(r, "update", "put", state[r].id, config[r])
    /\ UNCHANGED <<paginated, config, state, rows, nextId, settled, counters>>

BeginDelete(r) ==
    /\ Idle(r)
    /\ config[r] = NoScope
    /\ state[r] # NoRow
    /\ Begin(r, "delete", "delete", state[r].id, NoScope)
    /\ UNCHANGED <<paginated, config, state, rows, nextId, settled, counters>>

(* ImportState and the Read that follows, with the state locked: the user  *)
(* names a row that no resource tracks.  Nothing but the id is known.      *)
Import(r, id) ==
    /\ \A q \in Resources : Idle(q) /\ state[q].id # id
    /\ config[r] # NoScope
    /\ state[r] = NoRow
    /\ id < nextId
    /\ Begin(r, "import", "list", id, NoScope)
    /\ UNCHANGED <<paginated, config, state, rows, nextId, settled, counters>>

-----------------------------------------------------------------------------
(* createAccess: the id of the new row comes with the answer.              *)
CreateAccess(r, outcome) ==
    /\ At(r, "post")
    /\ nextId <= MaxId
    /\ Failing(outcome)
    /\ IF outcome = "failed"
       THEN UNCHANGED <<rows, nextId>>
       ELSE /\ rows' = Append(rows, [id |-> nextId, scope |-> op[r].want])
            /\ nextId' = nextId + 1
    /\ IF outcome = "fine"
       THEN op' = [op EXCEPT ![r].pc = "list", ![r].id = nextId]
       ELSE End(r)
    /\ settled' = (settled /\ outcome # "lost")
    /\ UNCHANGED <<paginated, config, state>>

(* updateAccess: the PUT.  It is refused when there is no such row.        *)
UpdateAccess(r, outcome) ==
    LET there == op[r].id \in IdsOf(rows) IN
    /\ At(r, "put")
    /\ IF there THEN Failing(outcome) ELSE outcome = "failed" /\ UNCHANGED counters
    /\ rows' = IF outcome = "failed" THEN rows
               ELSE [rows EXCEPT ![IndexOfId(rows, op[r].id)].scope = op[r].want]
    /\ IF outcome = "fine" THEN op' = [op EXCEPT ![r].pc = "list"] ELSE End(r)
    /\ settled' = (settled /\ outcome # "lost")
    /\ UNCHANGED <<paginated, config, state, nextId>>

(* deleteAccess: a 404 counts as done.                                     *)
DeleteAccess(r, outcome) ==
    LET there == op[r].id \in IdsOf(rows) IN
    /\ At(r, "delete")
    /\ IF there THEN Failing(outcome) ELSE outcome = "fine" /\ UNCHANGED counters
    /\ rows' = IF outcome = "failed" THEN rows ELSE Without(rows, op[r].id)
    /\ state' = IF outcome = "fine" THEN [state EXCEPT ![r] = NoRow] ELSE state
    /\ End(r)
    /\ settled' = (settled /\ outcome # "lost")
    /\ UNCHANGED <<paginated, config, nextId>>

-----------------------------------------------------------------------------
(* pageAllAccess: what the next GET answers, and whether it is the last.   *)
Page(r) ==
    IF paginated
    THEN SubSeq(rows, Len(op[r].got) + 1, AtMost(Len(rows), Len(op[r].got) + PageLimit))
    ELSE rows
Listed(r) == op[r].got \o Page(r)
LastPage(r) == ~paginated \/ Page(r) = << >> \/ Len(Listed(r)) >= Len(rows)

ListPage(r) ==
    /\ At(r, "list")
    /\ ~LastPage(r)
    /\ op' = [op EXCEPT ![r].got = Listed(r)]
    /\ UNCHANGED <<paginated, config, state, rows, nextId, settled, counters>>

Planned(r) == [id |-> op[r].id, scope |-> op[r].want]

(* Create only warns and stores what it has sent; Read and Update fail,    *)
(* and the state stays.                                                    *)
ListFails(r) ==
    /\ At(r, "list")
    /\ Failing("failed")
    /\ state' = IF op[r].kind = "create" THEN [state EXCEPT ![r] = Planned(r)] ELSE state
    /\ End(r)
    /\ UNCHANGED <<paginated, config, rows, nextId, settled>>

(* Mutant: Read keeps a resource that was not found.                       *)
StoreFoundOrKeep(r) ==
    LET found == Find(Listed(r), op[r].id, op[r].want) IN
    /\ At(r, "list")
    /\ LastPage(r)
    /\ state' = [state EXCEPT ![r] = IF found = NoRow /\ op[r].kind # "import"
                                     THEN Planned(r)
                                     ELSE found]
    /\ End(r)
    /\ UNCHANGED <<paginated, config, rows, nextId, settled, counters>>

(* The last page is in: Read removes the resource when nothing was found,  *)
(* Create and Update store what they have sent.                            *)
StoreFound(r) ==
    LET found == Find(Listed(r), op[r].id, op[r].want) IN
    /\ At(r, "list")
    /\ LastPage(r)
    /\ state' = [state EXCEPT ![r] =
                   IF found = NoRow /\ op[r].kind \in {"create", "update"}
                   THEN Planned(r)
                   ELSE found]
    /\ End(r)
    /\ UNCHANGED <<paginated, config, rows, nextId, settled, counters>>

-----------------------------------------------------------------------------
(* The service and the console.                                            *)
Outside ==
    /\ changes < MaxChanges
    /\ changes' = changes + 1
    /\ settled' = FALSE
    /\ UNCHANGED <<paginated, config, state, op, edits, failures>>

DeleteOutside(id) ==
    /\ Outside
    /\ id \in IdsOf(rows)
    /\ rows' = Without(rows, id)
    /\ UNCHANGED nextId

(* The row gets a new id.                                                  *)
Recreate(id) ==
    /\ Outside
    /\ id \in IdsOf(rows)
    /\ nextId <= MaxId
    /\ rows' = Append(Without(rows, id), [rows[IndexOfId(rows, id)] EXCEPT !.id = nextId])
    /\ nextId' = nextId + 1

-----------------------------------------------------------------------------
Handler(r) ==
    \/ \E o \in Outcomes : CreateAccess(r, o) \/ UpdateAccess(r, o) \/ DeleteAccess(r, o)
    \/ ListPage(r)
    \/ ListFails(r)
    \/ StoreFound(r)

Apply(r) == BeginCreate(r) \/ BeginUpdate(r) \/ BeginDelete(r)

Next ==
    \/ \E r \in Resources :
          \/ Handler(r)
          \/ Apply(r)
          \/ BeginRead(r)
          \/ \E scope \in Scopes \cup {NoScope} : EditConfig(r, scope)
          \/ \E id \in 1 .. MaxId : Import(r, id)
    \/ \E id \in 1 .. MaxId : DeleteOutside(id) \/ Recreate(id)

(* A handler is carried on, and the user keeps applying.                   *)
Spec ==
    /\ Init /\ [][Next]_vars
    /\ \A r \in Resources :
          WF_vars(Handler(r)) /\ SF_vars(BeginRead(r)) /\ SF_vars(Apply(r))

-----------------------------------------------------------------------------
Ops == [kind : {"none", "create", "read", "import", "update", "delete"},
        pc : {"", "post", "put", "delete", "list"}, id : 0 .. MaxId,
        want : Scopes \cup {NoScope}, got : Seq(Rows)]

StepsOf(kind) ==
    CASE kind = "create" -> {"post", "list"}
      [] kind = "update" -> {"put", "list"}
      [] kind \in {"read", "import"} -> {"list"}
      [] kind = "delete" -> {"delete"}
      [] kind = "none" -> {""}

(* The shape of the state.  No two rows have the same id.                  *)
TypeOK ==
    /\ paginated \in BOOLEAN
    /\ config \in [Resources -> Scopes \cup {NoScope}]
    /\ state \in [Resources -> Rows \cup {NoRow}]
    /\ rows \in Seq(Rows)
    /\ \A i, j \in DOMAIN rows : rows[i].id = rows[j].id => i = j
    /\ nextId \in 1 .. MaxId + 1
    /\ op \in [Resources -> Ops]
    /\ \A r \in Resources :
         /\ op[r].pc \in StepsOf(op[r].kind)
         /\ op[r].kind \in {"create", "read", "update"} => op[r].want # NoScope
    /\ settled \in BOOLEAN
    /\ edits \in Nat /\ failures \in Nat /\ changes \in Nat

(* A handler that ends with another row than its own, or with none.        *)
Abandons(r) ==
    At(r, "list") /\ state'[r] # state[r] /\ state'[r].id # op[r].id

(* "Exact id match first, then role+scope as a fallback for when the id    *)
(* changed server-side": a resource leaves its row for another one, or is  *)
(* removed from the state, only when the row is not on the service.  That  *)
(* holds of user access, which is read in one answer; a page boundary that *)
(* moves between two GETs hides a row that is there.                       *)
SnapshotFallbackOnlyWhenGone ==
    [][\A r \in Resources : ~paginated /\ Abandons(r) => op[r].id \notin IdsOf(rows)]_vars

(* "It is the re-creation bug": a resource is removed from the state, to   *)
(* be created again, only when no row of its scope is left either.         *)
RecreatedOnlyWhenLost ==
    [][\A r \in Resources :
         ~paginated /\ Abandons(r) /\ state'[r] = NoRow => ~HasScope(rows, op[r].want)]_vars

(* Twins, resources with the same owner, role and scope, come to share a   *)
(* row only after the service or somebody else has removed or renamed one, *)
(* or a call took effect that reported an error: not by any interleaving   *)
(* of their own handlers.                                                  *)
TwinsKeepTheirRows ==
    settled /\ ~paginated =>
        \A r, q \in Resources :
            r # q /\ state[r] # NoRow /\ state[q] # NoRow => state[r].id # state[q].id

(* Every configured resource tracks a row that grants what is configured,  *)
(* and no other is tracked.                                                *)
InSync ==
    \A r \in Resources :
        /\ state[r].scope = config[r]
        /\ config[r] # NoScope => state[r] \in RowsOf(rows)

(* Resources that share a row and want different scopes of it.             *)
Fighting ==
    \E r, q \in Resources :
        /\ state[r].id = state[q].id /\ state[r] # NoRow
        /\ config[r] # config[q]
        /\ NoScope \notin {config[r], config[q]}

(* Once edits, failures and interference end, applying again and again     *)
(* makes every resource track a row that grants what is configured, for    *)
(* good, also when twins share a row and one of them is destroyed.  It     *)
(* does not when one of them is edited: each then takes the row from the   *)
(* other, for ever.  Bound: as long as ids for new rows are left.          *)
Converges == <>[](nextId <= MaxId /\ ~Fighting) => <>[]InSync
===============================================================================
