---------------------------- MODULE AutomationProofs ----------------------------
(***************************************************************************)
(* Proofs about one automation and its priority, for any number of other   *)
(* automations, any priorities, edits, failures and interference.          *)
(***************************************************************************)
EXTENDS Automation, WellFoundedInduction, TLAPS

(* An order as the service holds it: positive priorities, a highest one.   *)
Orderly(p) ==
    /\ \A a \in DOMAIN p : p[a] \in Nat \ {0}
    /\ \E bound \in Nat : \A a \in DOMAIN p : p[a] <= bound

(* Where a handler is, and which automation it is about.                   *)
OpInv ==
    /\ op.kind = "none" => op.pc = ""
    /\ op.kind = "create" =>
          /\ op.pc \in {"post", "create-priority"}
          /\ op.id \in Ids /\ op.plan \in Configs /\ state = NoAutomation
    /\ op.kind \in {"read", "update", "delete"} => state # NoAutomation /\ op.id = state.id
    /\ op.kind = "read" => op.pc \in {"head", "read-get"}
    /\ op.kind = "update" =>
          op.pc \in {"put", "verify", "update-priority"} /\ op.plan \in Configs
    /\ op.kind = "delete" => op.pc = "delete"

(* What UpdatePriority falls back to is what the service holds.            *)
SeenInv == At("update-priority") /\ exact => Exists /\ op.seen = prio[op.id]

(* The definition is sent when it differs from the state.                  *)
PutInv == At("put") => ~modelsEqualIgnoringPriority(op.plan, state)

(* What was applied is in the state, and on the service but for an update  *)
(* that has sent another definition.                                       *)
AppliedInv ==
    applied # NoAutomation =>
        /\ state # NoAutomation
        /\ state.filter = applied.filter
        /\ applied.description # Null => state.description = applied.description
        /\ ~At("verify") /\ ~At("update-priority") /\ state.id \in DOMAIN body =>
              body[state.id].description = ValueString(applied.description)

Inv ==
    /\ TypeOK
    /\ Orderly(prio)
    /\ OpInv
    /\ SeenInv
    /\ PutInv
    /\ RecordedPriorityIsHeld
    /\ AppliedInv

-----------------------------------------------------------------------------
(* The evaluation order.                                                   *)

(* A set of naturals with a bound has a greatest element.                  *)
LEMMA GreatestElement ==
    ASSUME NEW S, S \subseteq Nat, S # {}, NEW bound \in Nat, \A s \in S : s <= bound
    PROVE  \E max \in S : \A s \in S : s <= max
<1> DEFINE T == {bound - s : s \in S}
<1>1. T \subseteq Nat /\ T # {}
  <2>1. \A s \in S : bound - s \in Nat /\ bound - s \in T
    OBVIOUS
  <2>2. \A t \in T : t \in Nat
    OBVIOUS
  <2>3. \E s \in S : TRUE
    OBVIOUS
  <2> HIDE DEF T
  <2> QED
    BY <2>1, <2>2, <2>3
<1>2. PICK x \in T : \A y \in T : <<y, x>> \notin OpToRel(<, Nat)
  <2> HIDE DEF T
  <2> QED
    BY <1>1, NatLessThanWellFounded, WFMin
<1>3. \A y \in T : ~(y < x)
  BY <1>1, <1>2 DEF OpToRel
<1>4. PICK max \in S : x = bound - max
  BY <1>2
<1> QED
  BY <1>3, <1>4

LEMMA HighestType ==
    ASSUME NEW p, Orderly(p)
    PROVE  /\ Highest(p) \in Nat
           /\ \A a \in DOMAIN p : p[a] <= Highest(p) /\ Highest(p) # 0
<1>1. CASE DOMAIN p = {}
  BY <1>1 DEF Highest
<1>2. CASE DOMAIN p # {}
  <2> DEFINE S == {p[a] : a \in DOMAIN p}
  <2>1. S \subseteq Nat /\ S # {} /\ 0 \notin S
    BY <1>2 DEF Orderly
  <2>2. PICK bound \in Nat : \A s \in S : s <= bound
    BY DEF Orderly
  <2>3. \E max \in S : \A s \in S : s <= max
    <3> HIDE DEF S
    <3> QED
      BY <2>1, <2>2, GreatestElement
  <2>4. \E n \in S : \A b \in DOMAIN p : p[b] <= n
    BY <2>3
  <2>5. Highest(p) \in S /\ \A b \in DOMAIN p : p[b] <= Highest(p)
    BY <1>2, <2>4 DEF Highest
  <2> QED
    BY <2>1, <2>5
<1> QED
  BY <1>1, <1>2

(* A request for a priority puts the automation where Clamped says.        *)
LEMMA MovedOrderly ==
    ASSUME NEW p, Orderly(p), NEW a \in DOMAIN p, NEW n \in Nat \ {0}
    PROVE  /\ Orderly(Moved(p, a, n)) /\ DOMAIN Moved(p, a, n) = DOMAIN p
           /\ Moved(p, a, n)[a] = Clamped(p, n) /\ Clamped(p, n) \in Nat \ {0}
<1> DEFINE new == Clamped(p, n)
           q == Moved(p, a, n)
<1>1. /\ new \in Nat \ {0} /\ new <= Highest(p)
      /\ Highest(p) \in Nat
      /\ \A b \in DOMAIN p : p[b] \in Nat \ {0} /\ p[b] <= Highest(p)
  BY HighestType DEF Clamped, Orderly
<1>2. DOMAIN q = DOMAIN p /\ q[a] = new
  BY DEF Moved
<1>3. ASSUME NEW b \in DOMAIN p PROVE q[b] \in Nat \ {0} /\ q[b] <= Highest(p)
  <2>1. q[b] = CASE b = a -> new
                 [] b # a /\ new <= p[b] /\ p[b] < p[a] -> p[b] + 1
                 [] b # a /\ p[a] < p[b] /\ p[b] <= new -> p[b] - 1
                 [] OTHER -> p[b]
    BY DEF Moved
  <2> HIDE DEF new, q
  <2> QED
    BY <1>1, <2>1
<1>4. Orderly(q)
  <2> HIDE DEF q
  <2> QED
    BY <1>1, <1>2, <1>3 DEF Orderly
<1> QED
  BY <1>1, <1>2, <1>4

-----------------------------------------------------------------------------
(* The service.                                                            *)
Served ==
    /\ DOMAIN body \subseteq Ids
    /\ \A id \in DOMAIN body : body[id] \in Bodies
    /\ DOMAIN prio = (1 .. Others) \cup DOMAIN body
    /\ Orderly(prio)

LEMMA ServedInv == ASSUME Inv PROVE Served
BY DEF Inv, TypeOK, Served

LEMMA PutType ==
    ASSUME NEW plan \in Configs
    PROVE  /\ Put(plan) \in Bodies /\ Put(plan).description = ValueString(plan.description)
           /\ plan.filter \in Filters /\ plan.description \in Texts \cup {Null}
           /\ plan.priority \in Nat
BY AutomationAssumption DEF Put, Bodies, Configs, ValueString, Priorities

LEMMA PostServes ==
    ASSUME Served, NEW id \in Ids, NEW plan \in Configs, PostEffect(id, plan)
    PROVE  Served' /\ id \in DOMAIN body' /\ body'[id] = Put(plan)
<1>1. DOMAIN body' = DOMAIN body \cup {id} /\ DOMAIN prio' = DOMAIN prio \cup {id}
  BY DEF PostEffect
<1>2. \A i \in DOMAIN body' : body'[i] = IF i = id THEN Put(plan) ELSE body[i]
  BY DEF PostEffect
<1>3. \A i \in DOMAIN body' : body'[i] \in Bodies
  BY <1>1, <1>2, PutType DEF Served
<1>4. Orderly(prio')
  <2>1. /\ Highest(prio) \in Nat /\ \A a \in DOMAIN prio : prio[a] <= Highest(prio)
        /\ \A a \in DOMAIN prio : prio[a] \in Nat \ {0}
    BY HighestType DEF Served, Orderly
  <2>2. \A a \in DOMAIN prio' : prio'[a] = IF a = id THEN Highest(prio) + 1 ELSE prio[a]
    BY DEF PostEffect
  <2> DEFINE top == Highest(prio)
  <2> HIDE DEF top
  <2>3. \A a \in DOMAIN prio' : prio'[a] \in Nat \ {0} /\ prio'[a] <= top + 1
    BY <1>1, <2>1, <2>2 DEF top
  <2>4. top + 1 \in Nat
    BY <2>1 DEF top
  <2> QED
    BY <2>3, <2>4 DEF Orderly
<1> QED
  BY <1>1, <1>2, <1>3, <1>4 DEF Served

LEMMA DeleteServes ==
    ASSUME Served, NEW id \in DOMAIN body, DeleteEffect(id)
    PROVE  /\ Served'
           /\ DOMAIN body' = DOMAIN body \ {id}
           /\ \A i \in DOMAIN body' : body'[i] = body[i]
<1>1. /\ DOMAIN body' = DOMAIN body \ {id} /\ DOMAIN prio' = DOMAIN prio \ {id}
      /\ \A i \in DOMAIN body' : body'[i] = body[i]
  BY DEF DeleteEffect
<1>2. id \notin 1 .. Others /\ id \in DOMAIN prio
  BY AutomationAssumption DEF Served, Ids
<1>3. Orderly(prio')
  <2>1. PICK bound \in Nat : \A a \in DOMAIN prio : prio[a] <= bound
    BY DEF Served, Orderly
  <2>2. \A a \in DOMAIN prio : prio[a] \in Nat \ {0}
    BY DEF Served, Orderly
  <2>3. \A a \in DOMAIN prio' :
           prio'[a] = prio[a] \/ (prio'[a] = prio[a] - 1 /\ prio[a] > prio[id])
    BY DEF DeleteEffect
  <2>4. \A a \in DOMAIN prio' : prio'[a] \in Nat \ {0} /\ prio'[a] <= bound
    BY <1>1, <1>2, <2>1, <2>2, <2>3
  <2> QED
    BY <2>4 DEF Orderly
<1> QED
  BY <1>1, <1>2, <1>3 DEF Served

LEMMA MoveServes ==
    ASSUME Served, NEW a \in DOMAIN prio, NEW n \in Nat \ {0},
           prio' = Moved(prio, a, n), UNCHANGED body
    PROVE  /\ Served' /\ DOMAIN prio' = DOMAIN prio
           /\ prio'[a] = Clamped(prio, n) /\ Clamped(prio, n) \in Nat \ {0}
BY MovedOrderly DEF Served

LEMMA StoredType ==
    ASSUME NEW plan, plan.filter \in Filters, plan.description \in Texts \cup {Null, Empty},
           NEW id \in Ids, NEW priority \in Nat, NEW tainted \in BOOLEAN
    PROVE  LET row == Stored(plan, id, priority, tainted) IN
             /\ row \in States /\ row # NoAutomation
             /\ row.id = id /\ row.filter = plan.filter /\ row.description = plan.description
             /\ row.priority = priority
<1>1. Stored(plan, id, priority, tainted) \in States
  BY DEF Stored, States
<1> QED
  BY <1>1, NoAutomationAssumption DEF Stored

-----------------------------------------------------------------------------
(* Handlers.                                                               *)
Results == {"none", "ok", "error", "inconsistent", "clamped", "unset"}

LEMMA EndsType ==
    ASSUME op \in Ops, NEW result \in Results, End(result)
    PROVE  /\ op' \in Ops /\ op'.kind = "none" /\ op'.pc = "" /\ op'.result = result
           /\ op'.id = op.id /\ op'.plan = op.plan
BY DEF Ops, End, Results

LEMMA GoesType ==
    ASSUME op \in Ops, NEW pc \in {"create-priority", "read-get", "verify"}, Goto(pc)
    PROVE  /\ op' \in Ops /\ op'.kind = op.kind /\ op'.pc = pc /\ op'.result = op.result
           /\ op'.id = op.id /\ op'.plan = op.plan /\ op'.seen = op.seen
BY DEF Ops, Goto

LEMMA BeginsType ==
    ASSUME NEW kind \in {"none", "create", "read", "update", "delete"},
           NEW pc \in {"", "post", "head", "put", "verify", "delete"},
           NEW id \in Ids, NEW plan \in Configs \cup {NoAutomation}, Begin(kind, pc, id, plan)
    PROVE  /\ op' \in Ops /\ op'.kind = kind /\ op'.pc = pc /\ op'.result = "none"
           /\ op'.id = id /\ op'.plan = plan /\ exact' \in BOOLEAN
BY DEF Ops, Begin

(* What is known of the handler that runs.                                 *)
LEMMA Current ==
    ASSUME Inv
    PROVE  /\ op \in Ops /\ op.id \in Ids \cup {0} /\ op.seen \in Nat
           /\ op.plan \in Configs \cup {NoAutomation} /\ op.result \in Results
           /\ At("post") => op.kind = "create"
           /\ At("create-priority") => op.kind = "create" /\ op.plan.priority # 0
           /\ At("head") \/ At("read-get") => op.kind = "read"
           /\ At("put") \/ At("verify") \/ At("update-priority") => op.kind = "update"
           /\ At("update-priority") => op.plan.priority # 0 /\ op.seen # 0
           /\ At("delete") => op.kind = "delete"
           /\ At("") => op.kind = "none"
           /\ op.kind = "create" => op.id \in Ids /\ op.plan \in Configs /\ state = NoAutomation
           /\ op.kind = "update" => op.plan \in Configs
           /\ op.kind \in {"read", "update", "delete"} =>
                 state \in States /\ state # NoAutomation /\ op.id = state.id /\ op.id \in Ids
<1>1. op \in Ops /\ OpInv /\ TypeOK
  BY DEF Inv, TypeOK
<1>2. \A row \in States : row.id \in Ids
  BY DEF States
<1> QED
  BY <1>1, <1>2 DEF OpInv, TypeOK, At, Ops, Results

LEMMA CountersType ==
    ASSUME TypeOK, NEW outcome, Failing(outcome) \/ UNCHANGED counters
    PROVE  {edits', failures', outside'} \subseteq Nat
BY DEF TypeOK, Failing, counters

-----------------------------------------------------------------------------
(* No handler runs after the step.                                         *)
LEMMA IdleInv ==
    ASSUME op' \in Ops, op'.kind = "none", op'.pc = "", Served',
           config' \in Configs \cup {NoAutomation}, state' \in States \cup {NoAutomation},
           exact' \in BOOLEAN, applied' \in Configs \cup {NoAutomation},
           {edits', failures', outside'} \subseteq Nat,
           RecordedPriorityIsHeld', AppliedInv'
    PROVE  Inv'
<1>1. \A pc \in {"update-priority", "create-priority", "put"} : ~At(pc)'
  BY DEF At
<1>2. TypeOK' /\ Orderly(prio)'
  BY <1>1 DEF TypeOK, Served, Orderly
<1>3. OpInv' /\ SeenInv' /\ PutInv'
  BY <1>1 DEF OpInv, SeenInv, PutInv
<1> QED
  BY <1>2, <1>3 DEF Inv

(* A handler runs after the step.                                          *)
LEMMA BusyInv ==
    ASSUME op' \in Ops, op'.kind # "none", Served',
           config' \in Configs \cup {NoAutomation}, state' \in States \cup {NoAutomation},
           exact' \in BOOLEAN, applied' \in Configs \cup {NoAutomation},
           {edits', failures', outside'} \subseteq Nat,
           At("update-priority")' => op'.seen \notin {0, op'.plan.priority},
           At("create-priority")' \/ At("update-priority")' => op'.plan.priority # 0,
           OpInv', SeenInv', PutInv', AppliedInv'
    PROVE  Inv'
<1>1. TypeOK' /\ Orderly(prio)'
  BY DEF TypeOK, Served, Orderly
<1>2. RecordedPriorityIsHeld'
  BY DEF RecordedPriorityIsHeld, Idle
<1> QED
  BY <1>1, <1>2 DEF Inv

(* Nothing happens to Terraform's side.                                    *)
LEMMA OutsideInv ==
    ASSUME Inv, UNCHANGED <<state, op>>, config' \in Configs \cup {NoAutomation},
           {edits', failures', outside'} \subseteq Nat, Served',
           \/ exact' = FALSE
           \/ UNCHANGED <<exact, prio>> /\ DOMAIN body' = DOMAIN body,
           \/ applied' = NoAutomation
           \/ /\ UNCHANGED applied
              /\ \A id \in DOMAIN body' :
                   id \in DOMAIN body /\ body'[id].description = body[id].description
    PROVE  Inv'
<1> USE DEF Inv
<1>1. exact' \in BOOLEAN
  <2>1. CASE exact' = FALSE
    BY <2>1, Zenon
  <2>2. CASE exact' = exact
    BY <2>2, Zenon DEF TypeOK
  <2> QED
    BY <2>1, <2>2
<1>2. applied' \in Configs \cup {NoAutomation}
  BY DEF TypeOK
<1>3. TypeOK' /\ Orderly(prio)'
  BY <1>1, <1>2 DEF TypeOK, Served, Orderly, At
<1>4. OpInv' /\ PutInv'
  BY DEF OpInv, PutInv, At
<1>5. exact' => exact /\ UNCHANGED prio /\ DOMAIN body' = DOMAIN body
  <2>1. CASE exact' = FALSE
    BY <2>1, Zenon
  <2>2. CASE UNCHANGED <<exact, prio>> /\ DOMAIN body' = DOMAIN body
    BY <2>2, Zenon
  <2> QED
    BY <2>1, <2>2
<1>6. SeenInv'
  BY <1>5 DEF SeenInv, At, Exists
<1>7. RecordedPriorityIsHeld'
  BY <1>5 DEF RecordedPriorityIsHeld, Idle
<1>8. AppliedInv'
  BY DEF AppliedInv, At
<1> QED
  BY <1>3, <1>4, <1>6, <1>7, <1>8

LEMMA EnvironmentInv ==
    ASSUME Inv, Environment
    PROVE  Inv'
<1>1. Served /\ TypeOK
  BY ServedInv DEF Inv
<1>2. ASSUME NEW new \in Configs \cup {NoAutomation}, EditConfig(new) PROVE Inv'
  <2>1. UNCHANGED <<state, op, body, prio, exact, applied, failures, outside>> /\ config' = new
        /\ edits' = edits + 1
    BY <1>2 DEF EditConfig
  <2> QED
    BY <1>1, <2>1, OutsideInv DEF Served, TypeOK
<1>3. ASSUME Outside
      PROVE  /\ UNCHANGED <<state, op>> /\ config' \in Configs \cup {NoAutomation}
             /\ {edits', failures', outside'} \subseteq Nat
  BY <1>1, <1>3 DEF Outside, TypeOK
<1>4. ASSUME NEW id \in Ids, PauseOutside(id) PROVE Inv'
  <2>1. /\ UNCHANGED <<prio, exact, applied>> /\ id \in DOMAIN body /\ Outside
        /\ body' = [body EXCEPT ![id].paused = TRUE]
    BY <1>4 DEF PauseOutside
  <2>2. /\ DOMAIN body' = DOMAIN body
        /\ \A i \in DOMAIN body : body'[i] = IF i = id THEN [body[i] EXCEPT !.paused = TRUE]
                                             ELSE body[i]
    BY <2>1
  <2>3. \A i \in DOMAIN body : body'[i] \in Bodies /\ body'[i].description = body[i].description
    BY <1>1, <2>2 DEF Served, Bodies
  <2>4. Served'
    BY <1>1, <2>1, <2>2, <2>3 DEF Served
  <2> QED
    BY <1>3, <2>1, <2>2, <2>3, <2>4, OutsideInv
<1>5. ASSUME NEW id \in Ids, NEW text \in Texts \cup {Empty}, EditOutside(id, text) PROVE Inv'
  <2>1. /\ UNCHANGED <<prio, exact>> /\ id \in DOMAIN body /\ Outside /\ applied' = NoAutomation
        /\ body' = [body EXCEPT ![id].description = text]
    BY <1>5 DEF EditOutside
  <2>2. /\ DOMAIN body' = DOMAIN body
        /\ \A i \in DOMAIN body : body'[i] = IF i = id THEN [body[i] EXCEPT !.description = text]
                                             ELSE body[i]
    BY <2>1
  <2>3. \A i \in DOMAIN body : body'[i] \in Bodies
    BY <1>1, <2>2 DEF Served, Bodies
  <2>4. Served'
    BY <1>1, <2>1, <2>2, <2>3 DEF Served
  <2> QED
    BY <1>3, <2>1, <2>2, <2>4, OutsideInv
<1>6. ASSUME NEW a \in 1 .. Others + OwnIds, NEW n \in 1 .. MaxPriority, MoveOutside(a, n)
      PROVE  Inv'
  <2>1. /\ UNCHANGED <<body, applied>> /\ a \in DOMAIN prio /\ Outside /\ exact' = FALSE
        /\ prio' = Moved(prio, a, n) /\ n \in Nat \ {0}
    BY <1>6, AutomationAssumption DEF MoveOutside
  <2>2. Served'
    BY <1>1, <2>1, MoveServes
  <2> QED
    BY <1>3, <2>1, <2>2, OutsideInv
<1>7. ASSUME NEW id \in Ids, DeleteOutside(id) PROVE Inv'
  <2>1. /\ Outside /\ id \in DOMAIN body /\ DeleteEffect(id) /\ exact' = FALSE
        /\ applied' = NoAutomation
    BY <1>7 DEF DeleteOutside
  <2>2. Served'
    BY <1>1, <2>1, DeleteServes
  <2> QED
    BY <1>3, <2>1, <2>2, OutsideInv
<1>8. ASSUME NEW id \in Ids, Import(id) PROVE Inv'
  <2>1. /\ state = NoAutomation /\ id \in DOMAIN body
        /\ state' = Stored(body[id], id, 0, FALSE)
        /\ Begin("none", "", id, NoAutomation)
        /\ UNCHANGED <<config, body, prio, applied, edits, failures, outside>>
    BY <1>8 DEF Import, counters
  <2>2. /\ op' \in Ops /\ op'.kind = "none" /\ op'.pc = "" /\ op'.result = "none"
        /\ exact' \in BOOLEAN
    BY <2>1, BeginsType
  <2>3. body[id].filter \in Filters /\ body[id].description \in Texts \cup {Null, Empty}
    BY <1>1, <2>1 DEF Served, Bodies
  <2>4. state' \in States
    BY <2>1, <2>3, StoredType
  <2>5. Served'
    BY <1>1, <2>1 DEF Served
  <2>6. RecordedPriorityIsHeld'
    BY <2>2 DEF RecordedPriorityIsHeld
  <2>7. AppliedInv'
    BY <2>1 DEF AppliedInv, Inv
  <2>8. /\ config' \in Configs \cup {NoAutomation} /\ applied' \in Configs \cup {NoAutomation}
        /\ {edits', failures', outside'} \subseteq Nat
    BY <1>1, <2>1 DEF TypeOK
  <2> QED
    BY <2>2, <2>4, <2>5, <2>6, <2>7, <2>8, IdleInv
<1> QED
  BY <1>2, <1>4, <1>5, <1>6, <1>7, <1>8 DEF Environment

-----------------------------------------------------------------------------
(* A handler begins.                                                       *)
LEMMA BeginsInv ==
    ASSUME Inv, NEW kind \in {"create", "read", "update", "delete"},
           NEW pc \in {"post", "head", "put", "verify", "delete"}, NEW id \in Ids,
           NEW plan \in Configs \cup {NoAutomation}, Begin(kind, pc, id, plan),
           UNCHANGED <<config, state, body, prio, applied, edits, failures, outside>>,
           kind = "create" => pc = "post" /\ plan \in Configs /\ state = NoAutomation,
           kind \in {"read", "update", "delete"} => state # NoAutomation /\ id = state.id,
           kind = "read" => pc = "head",
           kind = "update" => pc \in {"put", "verify"} /\ plan \in Configs,
           kind = "delete" => pc = "delete",
           pc = "put" => ~modelsEqualIgnoringPriority(plan, state),
           Idle
    PROVE  Inv'
<1>1. /\ op' \in Ops /\ op'.kind = kind /\ op'.pc = pc /\ op'.id = id /\ op'.plan = plan
      /\ exact' \in BOOLEAN
  BY BeginsType
<1>2. Served'
  BY ServedInv DEF Served
<1>3. /\ config' \in Configs \cup {NoAutomation} /\ state' \in States \cup {NoAutomation}
      /\ applied' \in Configs \cup {NoAutomation}
      /\ {edits', failures', outside'} \subseteq Nat
  BY DEF Inv, TypeOK
<1>4. ~At("update-priority")' /\ ~At("create-priority")'
  BY <1>1 DEF At
<1>5. OpInv'
  BY <1>1 DEF OpInv
<1>6. SeenInv' /\ PutInv'
  BY <1>1, <1>4 DEF SeenInv, PutInv, At, modelsEqualIgnoringPriority
<1>7. AppliedInv'
  <2>1. ~At("verify") /\ ~At("update-priority")
    BY Current DEF Idle
  <2> QED
    BY <2>1 DEF AppliedInv, Inv
<1> QED
  BY <1>1, <1>2, <1>3, <1>4, <1>5, <1>6, <1>7, BusyInv

LEMMA ApplyInv ==
    ASSUME Inv, Apply \/ BeginRead
    PROVE  Inv'
<1>1. /\ config \in Configs \cup {NoAutomation}
      /\ state # NoAutomation => state \in States /\ state.id \in Ids
      /\ NoAutomation \in Configs \cup {NoAutomation}
  BY DEF Inv, TypeOK, States
<1>2. CASE BeginCreate
  <2>1. PICK id \in Ids : Begin("create", "post", id, config)
    BY <1>2 DEF BeginCreate
  <2> QED
    BY <1>1, <1>2, <2>1, BeginsInv DEF BeginCreate, counters
<1>3. CASE BeginUpdate
  <2>1. CASE modelsEqualIgnoringPriority(config, state)
    BY <1>1, <1>3, <2>1, BeginsInv DEF BeginUpdate, counters
  <2>2. CASE ~modelsEqualIgnoringPriority(config, state)
    BY <1>1, <1>3, <2>2, BeginsInv DEF BeginUpdate, counters
  <2> QED
    BY <2>1, <2>2
<1>4. CASE BeginDelete
  BY <1>1, <1>4, BeginsInv DEF BeginDelete, counters
<1>5. CASE BeginRead
  BY <1>1, <1>5, BeginsInv DEF BeginRead, counters
<1> QED
  BY <1>2, <1>3, <1>4, <1>5 DEF Apply

-----------------------------------------------------------------------------
(* A handler ends.  With an error, nothing is known of what was applied;   *)
(* the state is what it was.                                               *)
LEMMA ErrorInv ==
    ASSUME Inv, End("error"), UNCHANGED <<config, state>>, Served', exact' \in BOOLEAN,
           applied' = NoAutomation, {edits', failures', outside'} \subseteq Nat
    PROVE  Inv'
<1>1. op' \in Ops /\ op'.kind = "none" /\ op'.pc = "" /\ op'.result = "error"
  BY Current, EndsType DEF Results
<1>2. /\ config' \in Configs \cup {NoAutomation} /\ state' \in States \cup {NoAutomation}
      /\ applied' \in Configs \cup {NoAutomation}
  BY DEF Inv, TypeOK
<1>3. RecordedPriorityIsHeld' /\ AppliedInv'
  BY <1>1 DEF RecordedPriorityIsHeld, AppliedInv
<1> QED
  BY <1>1, <1>2, <1>3, IdleInv

(* The resource is gone from the state.                                    *)
LEMMA RemovedInv ==
    ASSUME Inv, End("ok"), UNCHANGED config, state' = NoAutomation, Served', exact' \in BOOLEAN,
           applied' = NoAutomation, {edits', failures', outside'} \subseteq Nat
    PROVE  Inv'
<1>1. op' \in Ops /\ op'.kind = "none" /\ op'.pc = ""
  BY Current, EndsType DEF Results
<1>2. config' \in Configs \cup {NoAutomation}
  BY DEF Inv, TypeOK
<1>3. RecordedPriorityIsHeld' /\ AppliedInv'
  BY DEF RecordedPriorityIsHeld, AppliedInv
<1> QED
  BY <1>1, <1>2, <1>3, IdleInv

(* The plan is stored, with the priority that the service holds.           *)
LEMMA StoredInv ==
    ASSUME Inv, op.plan \in Configs, op.id \in Ids, NEW result \in Results, End(result),
           UNCHANGED config,
           NEW priority \in Nat, NEW tainted \in BOOLEAN,
           state' = Stored(op.plan, op.id, priority, tainted),
           Served', exact' \in BOOLEAN, {edits', failures', outside'} \subseteq Nat,
           exact' /\ priority # 0 => op.id \in DOMAIN prio' /\ priority = prio'[op.id],
           \/ applied' = NoAutomation
           \/ /\ applied' = op.plan
              /\ op.id \in DOMAIN body' =>
                    body'[op.id].description = ValueString(op.plan.description)
    PROVE  Inv'
<1>1. op' \in Ops /\ op'.kind = "none" /\ op'.pc = "" /\ op'.id = op.id
  BY Current, EndsType
<1>2. /\ state' \in States /\ state' # NoAutomation /\ state'.id = op.id
      /\ state'.filter = op.plan.filter /\ state'.description = op.plan.description
      /\ state'.priority = priority
  BY PutType, StoredType
<1>3. config' \in Configs \cup {NoAutomation} /\ applied' \in Configs \cup {NoAutomation}
  BY DEF Inv, TypeOK
<1>4. RecordedPriorityIsHeld'
  BY <1>2 DEF RecordedPriorityIsHeld
<1>5. AppliedInv'
  BY <1>2 DEF AppliedInv
<1> QED
  BY <1>1, <1>2, <1>3, <1>4, <1>5, IdleInv

(* The plan, or nothing.                                                   *)
LEMMA UndisturbedPlan ==
    \/ Undisturbed = NoAutomation
    \/ Undisturbed = op.plan /\ body[op.id].description = ValueString(op.plan.description)
BY DEF Undisturbed

LEMMA CreateAutomationInv ==
    ASSUME Inv, NEW outcome \in Outcomes, CreateAutomation(outcome)
    PROVE  Inv'
<1>1. At("post") /\ op.kind = "create" /\ op \in Ops /\ op.id \in Ids /\ op.plan \in Configs
      /\ state = NoAutomation /\ op.plan.priority \in Nat
  BY Current, PutType DEF CreateAutomation
<1>2. UNCHANGED <<config, exact>> /\ {edits', failures', outside'} \subseteq Nat
      /\ exact' \in BOOLEAN
  <2>1. exact' = exact
    BY DEF CreateAutomation
  <2>2. exact' \in BOOLEAN
    BY <2>1, Zenon DEF Inv, TypeOK
  <2> QED
    BY <2>2, CountersType DEF CreateAutomation, Inv
<1>3. /\ Served'
      /\ outcome # "failed" => op.id \in DOMAIN body' /\ body'[op.id] = Put(op.plan)
  <2>1. CASE outcome = "failed"
    BY <2>1, ServedInv DEF CreateAutomation, Served
  <2>2. CASE outcome # "failed"
    BY <1>1, <2>2, ServedInv, PostServes DEF CreateAutomation
  <2> QED
    BY <2>1, <2>2
<1>4. applied = NoAutomation
  BY <1>1 DEF Inv, AppliedInv
<1>5. CASE outcome # "fine"
  <2>1. End("error") /\ UNCHANGED state /\ applied' = NoAutomation
    BY <1>5 DEF CreateAutomation
  <2> QED
    BY <1>2, <1>3, <2>1, ErrorInv
<1>6. CASE outcome = "fine" /\ op.plan.priority # 0
  <2>1. Goto("create-priority") /\ UNCHANGED <<state, applied>>
    BY <1>6 DEF CreateAutomation
  <2>2. /\ op' \in Ops /\ op'.kind = "create" /\ op'.pc = "create-priority"
        /\ op'.id = op.id /\ op'.plan = op.plan
    BY <1>1, <2>1, GoesType
  <2>3. OpInv' /\ SeenInv' /\ PutInv' /\ AppliedInv'
    BY <1>1, <1>4, <2>1, <2>2 DEF OpInv, SeenInv, PutInv, AppliedInv, At
  <2>4. /\ config' \in Configs \cup {NoAutomation} /\ state' \in States \cup {NoAutomation}
        /\ applied' \in Configs \cup {NoAutomation}
    BY <1>2, <2>1 DEF Inv, TypeOK
  <2>5. ~At("update-priority")' /\ op'.plan.priority # 0
    BY <1>6, <2>2 DEF At
  <2> QED
    BY <1>2, <1>3, <2>2, <2>3, <2>4, <2>5, BusyInv
<1>7. CASE outcome = "fine" /\ op.plan.priority = 0
  <2>1. End("ok") /\ state' = Stored(op.plan, op.id, 0, FALSE) /\ applied' = op.plan
    BY <1>7 DEF CreateAutomation
  <2>2. body'[op.id].description = ValueString(op.plan.description)
    BY <1>1, <1>3, <1>7, PutType
  <2>3. "ok" \in Results /\ 0 \in Nat /\ FALSE \in BOOLEAN
    BY DEF Results
  <2> QED
    BY <1>1, <1>2, <1>3, <2>1, <2>2, <2>3, StoredInv
<1> QED
  BY <1>5, <1>6, <1>7

LEMMA CallType ==
    ASSUME Inv, NEW outcome, CallOn(outcome)
    PROVE  {edits', failures', outside'} \subseteq Nat /\ (outcome # "failed" => Exists)
BY CountersType DEF CallOn, Inv

(* The endpoint of the priority: the order that comes of it.               *)
LEMMA PriorityServes ==
    ASSUME Inv, NEW outcome \in Outcomes, PriorityEffect(outcome), UNCHANGED body,
           outcome # "failed" => Exists, op.plan \in Configs, op.plan.priority # 0
    PROVE  /\ Served' /\ exact' \in BOOLEAN
           /\ outcome = "failed" => prio' = prio
           /\ outcome = "fine" =>
                 /\ op.id \in DOMAIN prio' /\ prio'[op.id] = Clamped(prio, op.plan.priority)
                 /\ Clamped(prio, op.plan.priority) \in Nat \ {0}
           /\ outcome = "lost" => ~exact'
           /\ exact' => exact
<1>1. exact' = (exact /\ outcome # "lost") /\ exact \in BOOLEAN
  BY DEF PriorityEffect, Inv, TypeOK
<1>2. exact' \in BOOLEAN /\ (outcome = "lost" => ~exact') /\ (exact' => exact)
  BY <1>1, Zenon
<1>3. CASE outcome = "failed"
  <2>1. prio' = prio
    BY <1>3 DEF PriorityEffect
  <2> QED
    BY <1>2, <1>3, <2>1, ServedInv DEF Served
<1>4. CASE outcome # "failed"
  <2>1. prio' = Moved(prio, op.id, op.plan.priority)
    BY <1>4 DEF PriorityEffect
  <2>2. op.id \in DOMAIN prio /\ op.plan.priority \in Nat \ {0}
    BY <1>4, ServedInv, PutType DEF Served, Exists
  <2> QED
    BY <1>2, <1>4, <2>1, <2>2, ServedInv, MoveServes
<1> QED
  BY <1>3, <1>4

LEMMA CreatePriorityInv ==
    ASSUME Inv, NEW outcome \in Outcomes, CreatePriority(outcome)
    PROVE  Inv'
<1> DEFINE actual == IF outcome = "fine" THEN Clamped(prio, op.plan.priority) ELSE 0
           tainted == ~(actual = op.plan.priority)
           result == IF actual = op.plan.priority THEN "ok" ELSE "inconsistent"
<1>1. /\ op.id \in Ids /\ op.plan \in Configs /\ op.plan.priority # 0 /\ UNCHANGED <<config, body>>
      /\ PriorityEffect(outcome) /\ End(result)
      /\ state' = Stored(op.plan, op.id, actual, tainted)
      /\ applied' = IF actual = op.plan.priority THEN Undisturbed ELSE NoAutomation
  BY Current DEF CreatePriority
<1>2. {edits', failures', outside'} \subseteq Nat /\ (outcome # "failed" => Exists)
  BY CallType DEF CreatePriority
<1>3. /\ Served' /\ exact' \in BOOLEAN
      /\ outcome = "fine" =>
            /\ op.id \in DOMAIN prio' /\ prio'[op.id] = Clamped(prio, op.plan.priority)
            /\ Clamped(prio, op.plan.priority) \in Nat \ {0}
  BY <1>1, <1>2, PriorityServes
<1>4. tainted \in BOOLEAN /\ result \in Results
  BY DEF Results
<1>5. actual \in Nat /\ (actual # 0 => op.id \in DOMAIN prio' /\ actual = prio'[op.id])
  BY <1>3
<1>6. \/ applied' = NoAutomation
      \/ applied' = op.plan /\ body'[op.id].description = ValueString(op.plan.description)
  BY <1>1, UndisturbedPlan
<1> HIDE DEF actual, tainted, result
<1> QED
  BY <1>1, <1>2, <1>3, <1>4, <1>5, <1>6, StoredInv

LEMMA DoesAutomationV2ExistInv ==
    ASSUME Inv, NEW outcome \in HeadOutcomes, DoesAutomationV2Exist(outcome)
    PROVE  Inv'
<1>1. At("head") /\ op.kind = "read" /\ op \in Ops /\ op.id \in Ids /\ op.id = state.id
      /\ state # NoAutomation /\ UNCHANGED <<config, body, prio, exact>>
  BY Current DEF DoesAutomationV2Exist
<1>2. {edits', failures', outside'} \subseteq Nat /\ Served'
  BY <1>1, CountersType, ServedInv DEF DoesAutomationV2Exist, Inv, Served
<1>3. exact' \in BOOLEAN
  BY <1>1, Zenon DEF Inv, TypeOK
<1>4. CASE outcome = "fine" /\ Exists
  <2>1. Goto("read-get") /\ UNCHANGED <<state, applied>>
    BY <1>4 DEF DoesAutomationV2Exist
  <2>2. op' \in Ops /\ op'.kind = "read" /\ op'.pc = "read-get" /\ op'.id = op.id
    BY <1>1, <2>1, GoesType
  <2>3. OpInv' /\ SeenInv' /\ PutInv'
    BY <1>1, <2>1, <2>2 DEF OpInv, SeenInv, PutInv, At
  <2>4. AppliedInv'
    <3>1. ~At("verify") /\ ~At("update-priority")
      BY <1>1 DEF At
    <3> QED
      BY <1>1, <2>1, <3>1 DEF AppliedInv, Inv
  <2>5. /\ config' \in Configs \cup {NoAutomation} /\ state' \in States \cup {NoAutomation}
        /\ applied' \in Configs \cup {NoAutomation}
    BY <1>1, <2>1 DEF Inv, TypeOK
  <2>6. ~At("update-priority")' /\ ~At("create-priority")'
    BY <2>2 DEF At
  <2> QED
    BY <1>2, <1>3, <2>2, <2>3, <2>4, <2>5, <2>6, BusyInv
<1>5. CASE outcome = "panic"
  <2>1. End("error") /\ UNCHANGED state /\ applied' = NoAutomation
    BY <1>5 DEF DoesAutomationV2Exist
  <2> QED
    BY <1>1, <1>2, <1>3, <2>1, ErrorInv
<1>6. CASE outcome # "panic" /\ ~(outcome = "fine" /\ Exists)
  <2>1. End("ok") /\ state' = NoAutomation /\ applied' = NoAutomation
    BY <1>6 DEF DoesAutomationV2Exist
  <2> QED
    BY <1>1, <1>2, <1>3, <2>1, RemovedInv
<1> QED
  BY <1>4, <1>5, <1>6

LEMMA ReadAutomationInv ==
    ASSUME Inv, NEW outcome \in Outcomes, ReadAutomation(outcome)
    PROVE  Inv'
<1> DEFINE result == IF outcome = "fine" THEN "ok" ELSE "error"
<1>1. /\ At("read-get") /\ op \in Ops /\ op.id = state.id /\ op.id \in Ids
      /\ state \in States /\ state # NoAutomation
      /\ UNCHANGED <<config, body, prio, exact, applied>> /\ End(result)
  BY Current DEF ReadAutomation
<1>2. {edits', failures', outside'} \subseteq Nat /\ (outcome # "failed" => Exists) /\ Served'
  BY <1>1, CallType, ServedInv DEF ReadAutomation, Served
<1>3. exact' \in BOOLEAN
  BY <1>1, Zenon DEF Inv, TypeOK
<1>4. op' \in Ops /\ op'.kind = "none" /\ op'.pc = "" /\ op'.result = result
  <2>1. result \in Results
    BY DEF Results
  <2> QED
    BY <1>1, <2>1, EndsType
<1>5. config' \in Configs \cup {NoAutomation} /\ applied' \in Configs \cup {NoAutomation}
  BY <1>1 DEF Inv, TypeOK
<1>6. ~At("verify") /\ ~At("update-priority")
  BY <1>1 DEF At
<1>7. CASE outcome # "fine"
  <2>1. UNCHANGED state /\ op'.result = "error"
    BY <1>4, <1>7 DEF ReadAutomation
  <2>2. RecordedPriorityIsHeld' /\ AppliedInv'
    BY <1>1, <1>6, <2>1 DEF RecordedPriorityIsHeld, AppliedInv, Inv
  <2> QED
    BY <1>1, <1>2, <1>3, <1>4, <1>5, <2>1, <2>2, IdleInv
<1>8. CASE outcome = "fine"
  <2> DEFINE text == body[op.id].description
             priority == refreshPriority(state.priority)
  <2>1. state' = [state EXCEPT !.description = text, !.priority = priority]
    BY <1>8 DEF ReadAutomation
  <2>2. /\ text \in Texts \cup {Null, Empty} /\ priority \in Nat /\ op.id \in DOMAIN prio
        /\ priority # 0 => priority = prio[op.id]
    BY <1>2, <1>8, ServedInv DEF Served, Orderly, Bodies, Exists, refreshPriority
  <2> HIDE DEF priority
  <2>3. /\ state' \in States /\ state'.id = state.id /\ state'.filter = state.filter
        /\ state'.description = text /\ state'.priority = priority
    BY <1>1, <2>1, <2>2 DEF States
  <2>4. state' # NoAutomation
    BY <2>3, NoAutomationAssumption
  <2>5. RecordedPriorityIsHeld'
    BY <1>1, <2>2, <2>3 DEF RecordedPriorityIsHeld
  <2>6. AppliedInv'
    <3> SUFFICES ASSUME applied # NoAutomation
                 PROVE  /\ state'.filter = applied.filter
                        /\ applied.description # Null => state'.description = applied.description
                        /\ state'.id \in DOMAIN body =>
                              body[state'.id].description = ValueString(applied.description)
      BY <1>1, <2>4 DEF AppliedInv
    <3>1. text = ValueString(applied.description) /\ state.filter = applied.filter
      BY <1>1, <1>2, <1>6, <1>8 DEF AppliedInv, Inv, Exists
    <3> QED
      BY <1>1, <2>3, <3>1 DEF ValueString
  <2> QED
    BY <1>2, <1>3, <1>4, <1>5, <2>3, <2>5, <2>6, IdleInv
<1> QED
  BY <1>7, <1>8

LEMMA UpdateAutomationInv ==
    ASSUME Inv, NEW outcome \in Outcomes, UpdateAutomation(outcome)
    PROVE  Inv'
<1>1. /\ At("put") /\ op.kind = "update" /\ op \in Ops /\ op.id = state.id
      /\ state # NoAutomation /\ op.plan \in Configs /\ UNCHANGED <<config, state, prio, exact>>
  BY Current DEF UpdateAutomation
<1>2. {edits', failures', outside'} \subseteq Nat /\ (outcome # "failed" => Exists)
  BY CallType DEF UpdateAutomation
<1>3. exact' \in BOOLEAN
  BY <1>1, Zenon DEF Inv, TypeOK
<1>4. Served'
  <2>1. CASE outcome = "failed"
    BY <1>1, <2>1, ServedInv DEF UpdateAutomation, Served
  <2>2. CASE outcome # "failed"
    <3>1. body' = [body EXCEPT ![op.id] = Put(op.plan)]
      BY <2>2 DEF UpdateAutomation
    <3>2. DOMAIN body' = DOMAIN body /\ \A id \in DOMAIN body' : body'[id] \in Bodies
      BY <1>1, <3>1, ServedInv, PutType DEF Served
    <3> QED
      BY <1>1, <3>2, ServedInv DEF Served
  <2> QED
    BY <2>1, <2>2
<1>5. CASE outcome # "fine"
  <2>1. End("error") /\ applied' = NoAutomation
    BY <1>5 DEF UpdateAutomation
  <2> QED
    BY <1>1, <1>2, <1>3, <1>4, <2>1, ErrorInv
<1>6. CASE outcome = "fine"
  <2>1. Goto("verify") /\ UNCHANGED applied
    BY <1>6 DEF UpdateAutomation
  <2>2. op' \in Ops /\ op'.kind = "update" /\ op'.pc = "verify" /\ op'.id = op.id /\ op'.plan = op.plan
    BY <1>1, <2>1, GoesType
  <2>3. OpInv' /\ SeenInv' /\ PutInv'
    BY <1>1, <2>2 DEF OpInv, SeenInv, PutInv, At
  <2>4. AppliedInv'
    BY <1>1, <2>1, <2>2 DEF AppliedInv, Inv, At
  <2>5. /\ config' \in Configs \cup {NoAutomation} /\ state' \in States \cup {NoAutomation}
        /\ applied' \in Configs \cup {NoAutomation}
    BY <1>1, <2>1 DEF Inv, TypeOK
  <2>6. ~At("update-priority")' /\ ~At("create-priority")'
    BY <2>2 DEF At
  <2> QED
    BY <1>2, <1>3, <1>4, <2>2, <2>3, <2>4, <2>5, <2>6, BusyInv
<1> QED
  BY <1>5, <1>6

LEMMA VerifyAutomationInv ==
    ASSUME Inv, NEW outcome \in Outcomes, VerifyAutomation(outcome)
    PROVE  Inv'
<1>1. /\ At("verify") /\ op.kind = "update" /\ op \in Ops /\ op.id = state.id /\ op.id \in Ids
      /\ state # NoAutomation /\ op.plan \in Configs /\ op.plan.priority \in Nat
      /\ UNCHANGED <<config, body, prio, exact>>
  BY Current, PutType DEF VerifyAutomation
<1>2. {edits', failures', outside'} \subseteq Nat /\ (outcome # "failed" => Exists) /\ Served'
  BY <1>1, CallType, ServedInv DEF VerifyAutomation, Served
<1>3. exact' \in BOOLEAN
  BY <1>1, Zenon DEF Inv, TypeOK
<1>4. CASE outcome # "fine"
  <2>1. End("error") /\ UNCHANGED state /\ applied' = NoAutomation
    BY <1>4 DEF VerifyAutomation
  <2> QED
    BY <1>1, <1>2, <1>3, <2>1, ErrorInv
<1>5. CASE outcome = "fine" /\ Settled(op.plan.priority)
  <2>1. /\ End("ok") /\ state' = Stored(op.plan, op.id, op.plan.priority, FALSE)
        /\ applied' = Undisturbed
    BY <1>5 DEF VerifyAutomation
  <2>2. /\ op.plan.priority # 0 => op.id \in DOMAIN prio' /\ op.plan.priority = prio'[op.id]
        /\ "ok" \in Results /\ FALSE \in BOOLEAN
    BY <1>1, <1>2, <1>5, ServedInv DEF Settled, Served, Exists, Results
  <2>3. \/ applied' = NoAutomation
        \/ applied' = op.plan /\ body'[op.id].description = ValueString(op.plan.description)
    BY <1>1, <2>1, UndisturbedPlan
  <2> QED
    BY <1>1, <1>2, <1>3, <2>1, <2>2, <2>3, StoredInv
<1>6. CASE outcome = "fine" /\ ~Settled(op.plan.priority)
  <2>1. /\ op' = [op EXCEPT !.pc = "update-priority", !.seen = prio[op.id]]
        /\ UNCHANGED <<state, applied>>
    BY <1>6 DEF VerifyAutomation
  <2>2. prio[op.id] \in Nat \ {0} /\ op.plan.priority \notin {0, prio[op.id]} /\ Exists
    BY <1>2, <1>6, ServedInv DEF Settled, Served, Orderly, Exists
  <2>3. /\ op' \in Ops /\ op'.kind = "update" /\ op'.pc = "update-priority"
        /\ op'.id = op.id /\ op'.plan = op.plan /\ op'.seen = prio[op.id]
    BY <1>1, <2>1, <2>2 DEF Ops
  <2>4. OpInv' /\ SeenInv' /\ PutInv'
    BY <1>1, <2>1, <2>2, <2>3 DEF OpInv, SeenInv, PutInv, At, Exists
  <2>5. AppliedInv'
    BY <1>1, <2>1, <2>3 DEF AppliedInv, Inv, At
  <2>6. /\ config' \in Configs \cup {NoAutomation} /\ state' \in States \cup {NoAutomation}
        /\ applied' \in Configs \cup {NoAutomation}
    BY <1>1, <2>1 DEF Inv, TypeOK
  <2>7. op'.seen \notin {0, op'.plan.priority} /\ op'.plan.priority # 0 /\ op'.kind # "none"
    BY <2>2, <2>3
  <2> QED
    BY <1>2, <1>3, <2>3, <2>4, <2>5, <2>6, <2>7, BusyInv
<1> QED
  BY <1>4, <1>5, <1>6

LEMMA UpdatePriorityInv ==
    ASSUME Inv, NEW outcome \in Outcomes, UpdatePriority(outcome)
    PROVE  Inv'
<1> DEFINE actual == Resolved(outcome)
           result == CASE outcome # "fine" -> "unset"
                       [] outcome = "fine" /\ actual # op.plan.priority -> "clamped"
                       [] OTHER -> "ok"
<1>1. /\ At("update-priority") /\ op.id \in Ids /\ op.plan \in Configs /\ op.plan.priority # 0
      /\ op.seen \in Nat /\ UNCHANGED <<config, body>> /\ PriorityEffect(outcome) /\ End(result)
      /\ state' = Stored(op.plan, op.id, actual, FALSE)
      /\ applied' = IF op'.result = "ok" THEN Undisturbed ELSE NoAutomation
  BY Current DEF UpdatePriority
<1>2. {edits', failures', outside'} \subseteq Nat /\ (outcome # "failed" => Exists)
  BY CallType DEF UpdatePriority
<1>3. /\ Served' /\ exact' \in BOOLEAN /\ (exact' => exact)
      /\ outcome = "failed" => prio' = prio
      /\ outcome = "lost" => ~exact'
      /\ outcome = "fine" =>
            /\ op.id \in DOMAIN prio' /\ prio'[op.id] = Clamped(prio, op.plan.priority)
            /\ Clamped(prio, op.plan.priority) \in Nat \ {0}
  BY <1>1, <1>2, PriorityServes
<1>4. result \in Results /\ FALSE \in BOOLEAN
  BY DEF Results
<1>5. actual \in Nat /\ (outcome = "fine" => actual = prio'[op.id])
  BY <1>1, <1>3 DEF Resolved
<1>6. exact' => op.id \in DOMAIN prio' /\ actual = prio'[op.id]
  <2>1. CASE outcome = "fine"
    BY <1>3, <1>5, <2>1
  <2>2. CASE outcome = "lost"
    BY <1>3, <2>2
  <2>3. CASE outcome = "failed"
    <3>1. exact' => op.id \in DOMAIN prio /\ op.seen = prio[op.id]
      BY <1>1, <1>3, ServedInv DEF Inv, SeenInv, Served, Exists
    <3> QED
      BY <1>3, <2>3, <3>1 DEF Resolved
  <2> QED
    BY <2>1, <2>2, <2>3 DEF Outcomes
<1>7. \/ applied' = NoAutomation
      \/ applied' = op.plan /\ body'[op.id].description = ValueString(op.plan.description)
  BY <1>1, UndisturbedPlan
<1> HIDE DEF actual, result
<1> QED
  BY <1>1, <1>2, <1>3, <1>4, <1>5, <1>6, <1>7, StoredInv

LEMMA DeleteAutomationInv ==
    ASSUME Inv, NEW outcome \in Outcomes, DeleteAutomation(outcome)
    PROVE  Inv'
<1>1. UNCHANGED <<config, exact>> /\ applied' = NoAutomation
  BY DEF DeleteAutomation
<1>2. {edits', failures', outside'} \subseteq Nat /\ (outcome # "failed" => Exists)
  BY CallType DEF DeleteAutomation
<1>3. exact' \in BOOLEAN
  BY <1>1, Zenon DEF Inv, TypeOK
<1>4. Served'
  <2>1. CASE outcome = "failed"
    BY <2>1, ServedInv DEF DeleteAutomation, Served
  <2>2. CASE outcome # "failed"
    BY <1>2, <2>2, ServedInv, DeleteServes DEF DeleteAutomation, Exists
  <2> QED
    BY <2>1, <2>2
<1>5. CASE outcome = "fine"
  <2>1. End("ok") /\ state' = NoAutomation
    BY <1>5 DEF DeleteAutomation
  <2> QED
    BY <1>1, <1>2, <1>3, <1>4, <2>1, RemovedInv
<1>6. CASE outcome # "fine"
  <2>1. End("error") /\ UNCHANGED state
    BY <1>6 DEF DeleteAutomation
  <2> QED
    BY <1>1, <1>2, <1>3, <1>4, <2>1, ErrorInv
<1> QED
  BY <1>5, <1>6

-----------------------------------------------------------------------------
LEMMA InitInv == Init => Inv
<1> SUFFICES ASSUME Init PROVE Inv
  OBVIOUS
<1>1. /\ op \in Ops /\ op.kind = "none" /\ op.pc = "" /\ op.result = "none"
      /\ config = NoAutomation /\ state = NoAutomation /\ applied = NoAutomation
      /\ edits = 0 /\ failures = 0 /\ outside = 0
      /\ prio \in [1 .. Others -> 1 .. MaxLegacy]
  BY DEF Init, Ops
<1>2. DOMAIN body = {}
  <2>1. body = << >>
    BY DEF Init
  <2>2. DOMAIN << >> = {}
    OBVIOUS
  <2> QED
    BY <2>1, <2>2
<1>3. \A a \in DOMAIN prio : prio[a] \in Nat \ {0} /\ prio[a] <= MaxLegacy
  <2>1. MaxLegacy \in Nat
    BY AutomationAssumption
  <2>2. DOMAIN prio = 1 .. Others /\ \A a \in 1 .. Others : prio[a] \in 1 .. MaxLegacy
    BY <1>1
  <2> QED
    BY <2>1, <2>2
<1>4. Orderly(prio)
  BY <1>3, AutomationAssumption DEF Orderly
<1>5. exact \in BOOLEAN
  BY Zenon DEF Init
<1>6. TypeOK
  <2>1. DOMAIN prio = (1 .. Others) \cup DOMAIN body
    BY <1>1, <1>2
  <2>2. {edits, failures, outside} \subseteq Nat
    <3>1. edits = 0 /\ failures = 0 /\ outside = 0
      BY <1>1
    <3> QED
      BY <3>1
  <2>3. ~At("update-priority") /\ ~At("create-priority")
    BY <1>1 DEF At
  <2> QED
    BY <1>1, <1>2, <1>3, <1>5, <2>1, <2>2, <2>3 DEF TypeOK
<1>7. OpInv /\ SeenInv /\ PutInv /\ RecordedPriorityIsHeld /\ AppliedInv
  BY <1>1 DEF OpInv, SeenInv, PutInv, RecordedPriorityIsHeld, AppliedInv, At
<1> QED
  BY <1>4, <1>6, <1>7 DEF Inv

LEMMA NextInv ==
    ASSUME Inv, [Next]_vars
    PROVE  Inv'
<1>1. CASE Handler
  BY <1>1, CreateAutomationInv, CreatePriorityInv, DoesAutomationV2ExistInv, ReadAutomationInv,
     UpdateAutomationInv, VerifyAutomationInv, UpdatePriorityInv, DeleteAutomationInv DEF Handler
<1>2. CASE Apply \/ BeginRead
  BY <1>2, ApplyInv
<1>3. CASE Environment
  BY <1>3, EnvironmentInv
<1>4. CASE UNCHANGED vars
  BY <1>4 DEF vars, Inv, TypeOK, Orderly, OpInv, SeenInv, PutInv, RecordedPriorityIsHeld,
     AppliedInv, At, Idle, Exists
<1> QED
  BY <1>1, <1>2, <1>3, <1>4 DEF Next

(* The invariant holds in every state of every behaviour.                  *)
THEOREM Invariance == Spec => []Inv
<1>1. Inv /\ [Next]_vars => Inv'
  BY NextInv
<1> QED
  BY <1>1, InitInv, PTL DEF Spec

(* The state keeps its shape; every automation has a positive priority.    *)
THEOREM TypeCorrect == Spec => []TypeOK
<1>1. Inv => TypeOK
  BY DEF Inv
<1> QED
  BY <1>1, Invariance, PTL

(* Whatever comes of setting a priority, the one that is recorded is the   *)
(* one the service holds.                                                  *)
THEOREM PriorityIsHeld == Spec => []RecordedPriorityIsHeld
<1>1. Inv => RecordedPriorityIsHeld
  BY DEF Inv
<1> QED
  BY <1>1, Invariance, PTL

-----------------------------------------------------------------------------
(* Only the full PUT of an update resumes the actions of an automation.    *)
LEMMA OnlyThePutResumes ==
    ASSUME Inv, Next, op.kind = "update", Resumes
    PROVE  At("put")
<1>1. op.id \in DOMAIN body /\ op.id \in DOMAIN body' /\ body[op.id].paused /\ ~body'[op.id].paused
  BY DEF Resumes, Exists
<1>2. body' # body
  BY <1>1
<1>3. ~At("post") /\ ~At("delete") /\ ~Idle
  BY Current DEF Idle, Inv, OpInv, At
<1>4. ASSUME NEW id \in DOMAIN body, DeleteEffect(id) PROVE FALSE
  <2>1. body'[op.id] = body[op.id]
    BY <1>1, <1>4 DEF DeleteEffect
  <2> QED
    BY <1>1, <2>1
<1>5. ASSUME NEW id \in DOMAIN body, body' = [body EXCEPT ![id].paused = TRUE] PROVE FALSE
  <2>1. body'[op.id] = IF op.id = id THEN [body[op.id] EXCEPT !.paused = TRUE] ELSE body[op.id]
    BY <1>1, <1>5
  <2>2. body[op.id] \in Bodies
    BY <1>1 DEF Inv, TypeOK
  <2>3. body'[op.id].paused
    BY <1>1, <2>1, <2>2 DEF Bodies
  <2> QED
    BY <1>1, <2>3
<1>6. ASSUME NEW id \in DOMAIN body, NEW text, body' = [body EXCEPT ![id].description = text]
      PROVE  FALSE
  <2>1. /\ body'[op.id] = IF op.id = id THEN [body[op.id] EXCEPT !.description = text]
                          ELSE body[op.id]
        /\ body[op.id] \in Bodies
    BY <1>1, <1>6 DEF Inv, TypeOK
  <2>2. body'[op.id].paused = body[op.id].paused
    BY <2>1 DEF Bodies
  <2> QED
    BY <1>1, <2>2
<1>7. CASE Handler
  BY <1>2, <1>3, <1>7 DEF Handler, CreateAutomation, CreatePriority, DoesAutomationV2Exist,
     ReadAutomation, UpdateAutomation, VerifyAutomation, UpdatePriority, DeleteAutomation
<1>8. CASE Environment
  BY <1>2, <1>3, <1>4, <1>5, <1>6, <1>8 DEF Environment, EditConfig, Import, PauseOutside,
     DeleteOutside, EditOutside, MoveOutside
<1>9. CASE Apply \/ BeginRead
  BY <1>3, <1>9 DEF Apply, BeginCreate, BeginUpdate, BeginDelete, BeginRead
<1> QED
  BY <1>7, <1>8, <1>9 DEF Next

(* An edit of nothing but the priority never resumes what was paused, as   *)
(* long as there is a description: the update does not send the definition.*)
THEOREM PriorityEditKeepsPaused == Spec => DescribedPriorityEditKeepsPaused
<1>1. ASSUME Inv, Next, PriorityEdit, op.plan.description # Null PROVE ~Resumes
  <2>1. ~At("put")
    <3>1. /\ applied \in Configs /\ applied # NoAutomation
          /\ op.plan = [applied EXCEPT !.priority = op.plan.priority]
      BY <1>1 DEF PriorityEdit, Inv, TypeOK
    <3>2. op.plan.filter = applied.filter /\ op.plan.description = applied.description
      BY <3>1 DEF Configs
    <3>3. state.filter = applied.filter /\ state.description = applied.description
      BY <1>1, <3>1, <3>2 DEF Inv, AppliedInv
    <3> QED
      BY <1>1, <3>2, <3>3 DEF Inv, PutInv, modelsEqualIgnoringPriority
  <2> QED
    BY <1>1, <2>1, OnlyThePutResumes DEF PriorityEdit
<1>2. Inv /\ [Next]_vars => [PriorityEdit /\ op.plan.description # Null => ~Resumes]_vars
  BY <1>1
<1> QED
  BY <1>2, Invariance, PTL DEF Spec, DescribedPriorityEditKeepsPaused
===============================================================================
