--------------------------------- MODULE Group ---------------------------------
(***************************************************************************)
(* The orcasecurity_group resource (group/resource.go, api_client/group.go)*)
(* against the Orca service and under Terraform core.                      *)
(*                                                                         *)
(* One configured group is followed through any sequence of refreshes and  *)
(* applies.  A handler is a sequence of API calls; each call is one step,  *)
(* and each may fail cleanly, fail after it took effect (its reply was     *)
(* lost, or a retry of it was refused), or get no response at all.  What a *)
(* handler has stored when it ends is all that Terraform will know.        *)
(*                                                                         *)
(* The group's name is fixed and unique on the service, so the service     *)
(* holds at most one group; id tells its incarnations apart.               *)
(***************************************************************************)
EXTENDS Integers

CONSTANTS
    Users,              \* user ids
    Attrs,              \* values of the attributes the PUT replaces
    Absent,             \* not a user: marks the null set of users
    NoGroup,            \* nothing: not configured, not in state, not remote
    MaxId               \* bound on the incarnations of the group

ASSUME GroupAssumption == Absent \notin Users /\ MaxId \in Nat \ {0}

(* The null set of users, which plan and state tell from the empty one.    *)
Null == {Absent}

UserSets == (SUBSET Users) \cup {Null}
Configs == [attr : Attrs, users : UserSets]
States == [id : 1 .. MaxId, attr : Attrs, users : UserSets, tainted : BOOLEAN]
Remotes == [id : 1 .. MaxId, attr : Attrs, users : SUBSET Users]

ASSUME NoGroupAssumption == \A g \in Configs \cup States \cup Remotes : g # NoGroup

(* A changing request as the service sees it; fields a verb does not use   *)
(* hold the value of the group it is about.                                *)
Changes == [verb : {"post", "put", "add", "remove", "delete"},
            id : 0 .. MaxId, attr : Attrs, users : SUBSET Users]

VARIABLES
    config,     \* what the user has written, or NoGroup
    state,      \* Terraform's state of the resource, or NoGroup
    remote,     \* the group on the service, or NoGroup
    created,    \* how many groups the service has created
    op,         \* the handler that runs: where it is and what it was given
    straggler,  \* a request given up on that the service may still execute
    doubt       \* has some failure left Terraform unable to know the remote

vars == <<config, state, remote, created, op, straggler, doubt>>

-----------------------------------------------------------------------------
(* The service.                                                            *)

(* The name is unique; the other requests name an id that must exist.      *)
Accepts(req) ==
    IF req.verb = "post"
    THEN remote = NoGroup /\ created < MaxId
    ELSE remote # NoGroup /\ remote.id = req.id

Executed(req) ==
    CASE req.verb = "post" -> [id |-> created + 1, attr |-> req.attr, users |-> {}]
      [] req.verb = "put" -> [remote EXCEPT !.attr = req.attr]
      [] req.verb = "add" -> [remote EXCEPT !.users = @ \cup req.users]
      [] req.verb = "remove" -> [remote EXCEPT !.users = @ \ req.users]
      [] req.verb = "delete" -> NoGroup

Perform(req) ==
    /\ Accepts(req)
    /\ remote' = Executed(req)
    /\ created' = IF req.verb = "post" THEN created + 1 ELSE created

(* What a changing call comes to, its retries included: no error; an error *)
(* and no effect; an error although it took effect (the reply was lost, or *)
(* the retry of it was refused); an error while the request is still on    *)
(* its way.                                                                *)
Outcomes == {"fine", "clean", "lost", "late"}

Call(req, outcome) ==
    /\ IF outcome \in {"fine", "lost"}
       THEN Perform(req)
       ELSE UNCHANGED <<remote, created>>
    /\ IF outcome = "late"
       THEN straggler = NoGroup /\ straggler' = req
       ELSE UNCHANGED straggler
    /\ doubt' = (doubt \/ outcome \in {"lost", "late"})

NoCall == UNCHANGED <<remote, created, straggler, doubt>>

(* The service executes the straggler after all, or never.                 *)
LateEffect ==
    /\ straggler # NoGroup
    /\ straggler' = NoGroup
    /\ Perform(straggler) \/ UNCHANGED <<remote, created>>
    /\ UNCHANGED <<config, state, op, doubt>>

(* Somebody deletes the group in the Orca console.                         *)
DeletedOutside ==
    /\ remote # NoGroup
    /\ remote' = NoGroup
    /\ UNCHANGED <<config, state, created, op, straggler, doubt>>

(* The body of a GET may list the members or leave them out.               *)
ApiUsers(listed) == IF listed THEN remote.users ELSE {}

-----------------------------------------------------------------------------
(* The pieces of the handlers.                                             *)

userIDsFromSet(s) == IF s = Null THEN {} ELSE s

toAdd(prior, next) == userIDsFromSet(next) \ userIDsFromSet(prior)

(* Mutant: the members to remove are all the prior ones.                   *)
EveryPrior(prior, next) == userIDsFromSet(prior)

toRemove(prior, next) == userIDsFromSet(prior) \ userIDsFromSet(next)

(* Mutant: an absent member list is reported as an empty one.              *)
AbsentIsEmpty(planOrPrior, api) == api

(* An empty or absent member list keeps the reference value.               *)
optionalUsersSetMatchPlan(planOrPrior, api) ==
    IF api # {} THEN api ELSE planOrPrior

Idle == op.kind = "none"
At(kind, pc) == op.kind = kind /\ op.pc = pc

Begin(kind, pc, id, plan) ==
    op' = [kind |-> kind, pc |-> pc, id |-> id, plan |-> plan, result |-> "none"]
Goto(pc) == op' = [op EXCEPT !.pc = pc]

(* The handler returns "ok" or with an "error" diagnostic, or by a "panic".*)
End(result) == op' = [op EXCEPT !.kind = "none", !.pc = "", !.result = result]

(* Does a request that names the id of this handler find the group?        *)
Found == remote # NoGroup /\ remote.id = op.id

GroupRequest(verb, users) ==
    [verb |-> verb, id |-> op.id, attr |-> op.plan.attr, users |-> users]

(* Terraform core keeps an object whose create failed as tainted.          *)
Stored(users, failed) ==
    [id |-> op.id, attr |-> op.plan.attr, users |-> users, tainted |-> failed]

-----------------------------------------------------------------------------
Init ==
    /\ config = NoGroup
    /\ state = NoGroup
    /\ remote = NoGroup
    /\ created = 0
    /\ op = [kind |-> "none", pc |-> "", id |-> 0, plan |-> NoGroup, result |-> "none"]
    /\ straggler = NoGroup
    /\ doubt = FALSE

(* The user edits the configuration between two runs of Terraform.         *)
EditConfig(new) ==
    /\ Idle
    /\ new # config
    /\ config' = new
    /\ op' = [op EXCEPT !.plan = NoGroup, !.result = "none"]
    /\ UNCHANGED <<state, remote, created, straggler, doubt>>

-----------------------------------------------------------------------------
(* Create: CreateGroup, AddGroupUsers, GetGroup.                           *)
BeginCreate ==
    /\ Idle
    /\ config # NoGroup
    /\ state = NoGroup
    /\ created < MaxId
    /\ Begin("create", "post", 0, config)
    /\ NoCall
    /\ UNCHANGED <<config, state>>

(* The service refuses a second group of the same name, so a POST that is  *)
(* retried after its first attempt took effect ends in an error.           *)
CreateGroup(outcome) ==
    /\ At("create", "post")
    /\ Call(GroupRequest("post", {}), outcome)
    /\ IF outcome = "fine"
       THEN op' = [op EXCEPT !.pc = "add", !.id = created']
       ELSE End("error")
    /\ UNCHANGED <<config, state>>

(* Mutant: a group whose users could not be set is not stored.             *)
CreateAddUsersUnstored(outcome) ==
    LET users == userIDsFromSet(op.plan.users) IN
    /\ At("create", "add")
    /\ IF users = {}
       THEN outcome = "fine" /\ NoCall
       ELSE Call(GroupRequest("add", users), outcome)
    /\ IF outcome = "fine" THEN Goto("get") ELSE End("error")
    /\ UNCHANGED <<config, state>>

(* AddGroupUsers makes no call when there is nobody to add.  After a       *)
(* failure the new group is stored with null users.                        *)
CreateAddUsers(outcome) ==
    LET users == userIDsFromSet(op.plan.users) IN
    /\ At("create", "add")
    /\ IF users = {}
       THEN outcome = "fine" /\ NoCall
       ELSE Call(GroupRequest("add", users), outcome)
    /\ IF outcome = "fine"
       THEN Goto("get") /\ UNCHANGED state
       ELSE End("error") /\ state' = Stored(Null, TRUE)
    /\ UNCHANGED config

(* What GetGroup comes to.  It panics when there is no response, and hands *)
(* a nil group to a caller that dereferences it after a 400 or a 500: both *)
(* kill the plugin.  Any other failure is an error.                        *)
GetOutcomes == {"ok", "error", "panic"}

GetGroup(outcome) == outcome = "ok" => Found

(* The created group is stored, as planned if it cannot be refreshed; but  *)
(* a panic stores nothing.                                                 *)
CreateRefresh(outcome, listed) ==
    /\ At("create", "get")
    /\ GetGroup(outcome)
    /\ state' = CASE outcome = "ok" ->
                       Stored(optionalUsersSetMatchPlan(op.plan.users, ApiUsers(listed)), FALSE)
                   [] outcome = "error" -> Stored(op.plan.users, TRUE)
                   [] outcome = "panic" -> state
    /\ End(outcome)
    /\ doubt' = (doubt \/ outcome = "panic")
    /\ UNCHANGED <<config, remote, created, straggler>>

-----------------------------------------------------------------------------
(* Read: DoesGroupExist, GetGroup.                                         *)
BeginRead ==
    /\ Idle
    /\ state # NoGroup
    /\ Begin("read", "head", state.id, NoGroup)
    /\ NoCall
    /\ UNCHANGED <<config, state>>

(* The service has answered that there is no group: if no request is left  *)
(* on its way either, Terraform and the service agree.                     *)
Cleared == remote = NoGroup /\ straggler = NoGroup

(* The existence probe: a HEAD answered by 200 or 404, by another status,  *)
(* or by nothing.  Everything but 200 means "missing", also a 401, or a    *)
(* 503 after the last retry; without a response the code panics.           *)
HeadOutcomes == {"answer", "status", "panic"}

DoesGroupExist(outcome) ==
    /\ At("read", "head")
    /\ CASE outcome = "answer" /\ Found -> Goto("get") /\ UNCHANGED state
         [] outcome = "panic" -> End("panic") /\ UNCHANGED state
         [] OTHER -> End("ok") /\ state' = NoGroup
    /\ doubt' = CASE outcome = "status" /\ remote # NoGroup -> TRUE
                  [] outcome = "answer" /\ Cleared -> FALSE
                  [] OTHER -> doubt
    /\ UNCHANGED <<config, remote, created, straggler>>

(* A member list in the answer, when there is one, settles every doubt.    *)
ReadGetGroup(outcome, listed) ==
    /\ At("read", "get")
    /\ GetGroup(outcome)
    /\ IF outcome = "ok"
       THEN state' = [state EXCEPT
                       !.attr = remote.attr,
                       !.users = optionalUsersSetMatchPlan(@, ApiUsers(listed))]
       ELSE UNCHANGED state
    /\ End(outcome)
    /\ doubt' = (doubt /\ ~(outcome = "ok" /\ ApiUsers(listed) # {} /\ straggler = NoGroup))
    /\ UNCHANGED <<config, remote, created, straggler>>

(* terraform import: the id, completed by a successful Read; the reference *)
(* value for the members is null.  The import of a group that has members  *)
(* leaves them untracked when the GET does not list them.                  *)
Import(listed) ==
    /\ Idle
    /\ state = NoGroup
    /\ remote # NoGroup
    /\ state' = [id |-> remote.id, attr |-> remote.attr,
                 users |-> optionalUsersSetMatchPlan(Null, ApiUsers(listed)),
                 tainted |-> FALSE]
    /\ op' = [op EXCEPT !.plan = NoGroup, !.result = "ok"]
    /\ doubt' = (straggler # NoGroup \/ (remote.users # {} /\ ~listed))
    /\ UNCHANGED <<config, remote, created, straggler>>

-----------------------------------------------------------------------------
(* Update: UpdateGroup, AddGroupUsers, RemoveGroupUsers, GetGroup.         *)
BeginUpdate ==
    /\ Idle
    /\ config # NoGroup
    /\ state # NoGroup
    /\ ~state.tainted
    /\ <<state.attr, state.users>> # <<config.attr, config.users>>
    /\ Begin("update", "put", state.id, config)
    /\ NoCall
    /\ UNCHANGED <<config, state>>

UpdateGroup(outcome) ==
    /\ At("update", "put")
    /\ Call(GroupRequest("put", {}), outcome)
    /\ IF outcome = "fine" THEN Goto("add") ELSE End("error")
    /\ UNCHANGED <<config, state>>

(* A failure stores the new attributes with the prior members.             *)
UpdateAddUsers(outcome) ==
    LET new == toAdd(state.users, op.plan.users) IN
    /\ At("update", "add")
    /\ IF new = {}
       THEN outcome = "fine" /\ NoCall
       ELSE Call(GroupRequest("add", new), outcome)
    /\ IF outcome = "fine"
       THEN Goto("remove") /\ UNCHANGED state
       ELSE End("error") /\ state' = Stored(state.users, FALSE)
    /\ UNCHANGED config

(* A failure stores the prior members together with the added ones.        *)
UpdateRemoveUsers(outcome) ==
    LET old == toRemove(state.users, op.plan.users)
        afterwards == userIDsFromSet(state.users) \cup toAdd(state.users, op.plan.users)
    IN
    /\ At("update", "remove")
    /\ IF old = {}
       THEN outcome = "fine" /\ NoCall
       ELSE Call(GroupRequest("remove", old), outcome)
    /\ IF outcome = "fine"
       THEN Goto("get") /\ UNCHANGED state
       ELSE End("error") /\ state' = Stored(afterwards, FALSE)
    /\ UNCHANGED config

(* As in Create; after a panic Terraform keeps the prior state.            *)
UpdateRefresh(outcome, listed) ==
    /\ At("update", "get")
    /\ GetGroup(outcome)
    /\ state' = CASE outcome = "ok" ->
                       [Stored(optionalUsersSetMatchPlan(op.plan.users, ApiUsers(listed)), FALSE)
                          EXCEPT !.attr = remote.attr]
                   [] outcome = "error" -> Stored(op.plan.users, FALSE)
                   [] outcome = "panic" -> state
    /\ End(outcome)
    /\ doubt' = (doubt \/ outcome = "panic")
    /\ UNCHANGED <<config, remote, created, straggler>>

-----------------------------------------------------------------------------
(* Terraform destroys a group that left the configuration, and a tainted   *)
(* one before it creates it anew.                                          *)
BeginDelete ==
    /\ Idle
    /\ state # NoGroup
    /\ config = NoGroup \/ state.tainted
    /\ Begin("delete", "delete", state.id, [attr |-> state.attr, users |-> state.users])
    /\ NoCall
    /\ UNCHANGED <<config, state>>

(* Mutant: the error of the DELETE is only reported.                       *)
DeleteGroupAnyway(outcome) ==
    /\ At("delete", "delete")
    /\ Call(GroupRequest("delete", {}), outcome)
    /\ state' = NoGroup
    /\ End(IF outcome = "fine" THEN "ok" ELSE "error")
    /\ UNCHANGED config

DeleteGroup(outcome) ==
    /\ At("delete", "delete")
    /\ Call(GroupRequest("delete", {}), outcome)
    /\ state' = IF outcome = "fine" THEN NoGroup ELSE state
    /\ End(IF outcome = "fine" THEN "ok" ELSE "error")
    /\ UNCHANGED config

-----------------------------------------------------------------------------
Create ==
    \/ BeginCreate
    \/ \E o \in Outcomes : CreateGroup(o) \/ CreateAddUsers(o)
    \/ \E o \in GetOutcomes, l \in BOOLEAN : CreateRefresh(o, l)

Read ==
    \/ BeginRead
    \/ \E o \in HeadOutcomes : DoesGroupExist(o)
    \/ \E l \in BOOLEAN : Import(l)
    \/ \E o \in GetOutcomes, l \in BOOLEAN : ReadGetGroup(o, l)

Update ==
    \/ BeginUpdate
    \/ \E o \in Outcomes : UpdateGroup(o) \/ UpdateAddUsers(o) \/ UpdateRemoveUsers(o)
    \/ \E o \in GetOutcomes, l \in BOOLEAN : UpdateRefresh(o, l)

Delete == BeginDelete \/ \E o \in Outcomes : DeleteGroup(o)

Environment ==
    \/ LateEffect
    \/ DeletedOutside
    \/ \E new \in Configs \cup {NoGroup} : EditConfig(new)

Next == Environment \/ Create \/ Read \/ Update \/ Delete

Spec == Init /\ [][Next]_vars

-----------------------------------------------------------------------------
Steps == {<<"none", "">>, <<"create", "post">>, <<"create", "add">>,
          <<"create", "get">>, <<"read", "head">>, <<"read", "get">>,
          <<"update", "put">>, <<"update", "add">>, <<"update", "remove">>,
          <<"update", "get">>, <<"delete", "delete">>}

(* The shape of the state.                                                 *)
TypeOK ==
    /\ config \in Configs \cup {NoGroup}
    /\ state \in States \cup {NoGroup}
    /\ remote \in Remotes \cup {NoGroup}
    /\ created \in 0 .. MaxId
    /\ op \in [kind : {"none", "create", "read", "update", "delete"},
               pc : {"", "post", "add", "get", "head", "put", "remove", "delete"},
               id : 0 .. MaxId,
               plan : Configs \cup {NoGroup},
               result : {"none", "ok", "error", "panic"}]
    /\ <<op.kind, op.pc>> \in Steps
    /\ straggler \in Changes \cup {NoGroup}
    /\ doubt \in BOOLEAN

(* What Terraform has stored is what the service has.                      *)
Exact ==
    /\ state.id = remote.id
    /\ state.attr = remote.attr
    /\ userIDsFromSet(state.users) = remote.users

(* Between two handlers, after any mixture of successes and errors, no     *)
(* group is outside Terraform's state and the state is exact, membership   *)
(* included, unless a named event has put it in doubt: a call that failed  *)
(* and yet takes effect, a panic after the changes were made, or an        *)
(* existence probe answered by an error.  A deletion that Terraform        *)
(* notices, or a member list in a refresh, settles the doubt again.        *)
TrackedUnlessInDoubt ==
    Idle /\ ~doubt /\ remote # NoGroup => state # NoGroup /\ Exact

(* A create or update that reports success has stored what was planned,    *)
(* null and empty users told apart: otherwise Terraform fails the apply    *)
(* with "Provider produced inconsistent result after apply".               *)
ConsistentAfterApply ==
    Idle /\ ~doubt /\ op.result = "ok" /\ op.plan # NoGroup /\ state # NoGroup
    => state.attr = op.plan.attr /\ state.users = op.plan.users

(* No call of an update takes a member away that the plan keeps, not even  *)
(* for the time until the next one.                                        *)
KeptMembersStay ==
    [][op.kind = "update" /\ op' # op /\ Found =>
         \A u \in remote.users \cap userIDsFromSet(op.plan.users) : u \in remote'.users]_vars

(* A group in the state is forgotten only by a Read or a Delete that       *)
(* reports no error, whatever happens on the way.                          *)
NeverForgottenOnError ==
    [][state # NoGroup /\ state' = NoGroup
         => op.kind \in {"delete", "read"} /\ op'.result = "ok"]_vars

(* What the comments on the last call of Create and Update promise: when   *)
(* every change has been made, a refresh that fails does not lose them.    *)
RefreshFailureKeepsTrack ==
    [][(At("create", "get") \/ At("update", "get")) /\ op' # op
                      /\ op'.result # "ok"
         => state' # NoGroup /\ userIDsFromSet(state'.users) = userIDsFromSet(op.plan.users)]_vars
===============================================================================
