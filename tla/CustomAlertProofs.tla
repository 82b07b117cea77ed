--------------------------- MODULE CustomAlertProofs ---------------------------
(***************************************************************************)
(* Proofs about the alert resources, for any number of alerts, rules,      *)
(* frameworks, texts, edits, failures and changes.                         *)
(*                                                                         *)
(* StateIsExact is about moments between handlers.  The invariant says     *)
(* what is true inside one: which calls are left, and how much of the plan *)
(* the service has by then.                                                *)
(***************************************************************************)
EXTENDS CustomAlert, SequenceTheorems, TLAPS

(* ReplaceFrameworks clears first.                                         *)
Clearing == state.value.frameworks # {} /\ op.plan.frameworks # {}

(* What is left of a Create before its POST, and after it.                 *)
CreateBefore ==
    IF op.plan.text = NoText
    THEN {<<"category", "post", "get", "getText">>, <<"post", "get", "getText">>}
    ELSE {<<"category", "post", "setText", "get", "getText">>,
          <<"post", "setText", "get", "getText">>}
TextDue == op.todo \in {<<"setText", "get", "getText">>, <<"addText", "get", "getText">>}
CreateAfter == {<<"get", "getText">>, <<"getText">>}

CreateOp ==
    /\ state = NoObject
    /\ op.plan \in Alerts
    /\ \/ op.id = 0 /\ nextId <= MaxId /\ op.todo \in CreateBefore
       \/ op.id \in 1 .. MaxId /\ op.plan.text # NoText /\ TextDue
       \/ op.id \in 1 .. MaxId /\ op.todo \in CreateAfter

ReadTodos == {<<"head", "get", "getText">>, <<"get", "getText">>, <<"getText">>}

ReadOp ==
    /\ op.todo \in ReadTodos
    /\ op.wrote \subseteq IF op.todo = <<"getText">> THEN Shown ELSE {}
    /\ op.todo = <<"getText">> => op.got \in Alerts
    /\ \/ /\ op.kind = "read"
          /\ state # NoObject /\ op.id = state.id /\ op.plan = state.value
       \/ /\ op.kind = "import"
          /\ state = NoObject /\ op.id \in 1 .. MaxId /\ op.plan = Blank

(* What is left of an Update, and what it has written.                     *)
UpdateStage(todo, wrote) ==
    \E call \in TextCalls :
        \/ Clearing /\ wrote = {}
             /\ todo \in {<<"category", "clear", call, "put", call>>,
                         <<"clear", call, "put", call>>}
        \/ Clearing /\ wrote = {"rule", "frameworks"}
             /\ \E first \in TextCalls : todo = <<first, "put", call>>
        \/ Clearing /\ wrote = Attributes /\ todo \in {<<"put", call>>, <<call>>}
        \/ ~Clearing /\ wrote = {} /\ todo \in {<<"category", "put", call>>, <<"put", call>>}
        \/ ~Clearing /\ wrote = {"rule", "frameworks"} /\ todo = <<call>>

UpdateOp ==
    /\ state # NoObject
    /\ op.id = state.id
    /\ op.plan \in Alerts
    /\ UpdateStage(op.todo, op.wrote)

DeleteOp ==
    /\ state # NoObject
    /\ op.id = state.id
    /\ op.todo = <<"delete">>
    /\ op.wrote = {}

(* Which handler may be where.                                             *)
OpInv ==
    /\ op.kind \in {"none", "crashed"} => op = [NoOp EXCEPT !.kind = op.kind]
    /\ op.kind = "create" => CreateOp
    /\ op.kind \in {"read", "import"} => ReadOp
    /\ op.kind = "update" => UpdateOp
    /\ op.kind = "delete" => DeleteOp

(* Ids are not used twice.                                                 *)
FreshInv ==
    /\ \A id \in 1 .. MaxId : id >= nextId => remote[id] = None
    /\ state.id < nextId /\ op.id < nextId

(* What the service has of an attribute that an update has written.        *)
Written(a) ==
    IF a = "frameworks" /\ Clearing /\ Len(op.todo) >= 2 THEN {} ELSE op.plan[a]

(* What the alert has, as far as it is not suspect: what was stored, of    *)
(* attributes that the handler has not written or read; and of the others  *)
(* what was written or read.                                               *)
StateInv ==
    op.kind # "create" /\ state # NoObject /\ Exists(state.id) =>
        \A a \in Attributes \ (suspect \cup op.wrote) : remote[state.id][a] = state.value[a]

CreateInv ==
    op.kind = "create" /\ op.id # 0 /\ Exists(op.id) =>
        \A a \in Attributes \ suspect :
            remote[op.id][a] = IF a = "text" /\ TextDue THEN NoText ELSE op.plan[a]

ReadInv ==
    op.kind \in {"read", "import"} /\ op.todo = <<"getText">> /\ Exists(op.id) =>
        \A a \in {"rule", "frameworks"} \ suspect : remote[op.id][a] = op.got[a]

UpdateInv ==
    op.kind = "update" /\ Exists(op.id) =>
        \A a \in op.wrote \ suspect : remote[op.id][a] = Written(a)

Inv ==
    /\ TypeOK
    /\ OpInv
    /\ FreshInv
    /\ StateInv
    /\ CreateInv
    /\ ReadInv
    /\ UpdateInv

-----------------------------------------------------------------------------
(* Lists of calls.                                                         *)
LEMMA Tuples ==
    /\ \A a : <<a>> # << >> /\ Head(<<a>>) = a /\ Tail(<<a>>) = << >> /\ Len(<<a>>) = 1
    /\ \A a, b : /\ <<a, b>> # << >> /\ Head(<<a, b>>) = a /\ Tail(<<a, b>>) = <<b>>
                 /\ Len(<<a, b>>) = 2
    /\ \A a, b, c : /\ <<a, b, c>> # << >> /\ Head(<<a, b, c>>) = a
                    /\ Tail(<<a, b, c>>) = <<b, c>> /\ Len(<<a, b, c>>) = 3
    /\ \A a, b, c, d : /\ <<a, b, c, d>> # << >> /\ Head(<<a, b, c, d>>) = a
                       /\ Tail(<<a, b, c, d>>) = <<b, c, d>> /\ Len(<<a, b, c, d>>) = 4
    /\ \A a, b, c, d, e : /\ <<a, b, c, d, e>> # << >> /\ Head(<<a, b, c, d, e>>) = a
                          /\ Tail(<<a, b, c, d, e>>) = <<b, c, d, e>>
                          /\ Len(<<a, b, c, d, e>>) = 5
OBVIOUS

(* What the next call of an Update says about its stage.                   *)
LEMMA UpdateDue ==
    ASSUME UpdateStage(op.todo, op.wrote)
    PROVE  /\ op.todo # << >> /\ Head(op.todo) \in {"category", "clear", "put"} \cup TextCalls
           /\ Head(op.todo) = "category" =>
                op.wrote = {} /\ UpdateStage(Tail(op.todo), {}) /\ Len(op.todo) > 2
           /\ Head(op.todo) = "clear" =>
                /\ Clearing /\ op.wrote = {} /\ Len(op.todo) = 4
                /\ \E call \in TextCalls : Tail(op.todo) = <<call, "put", call>>
           /\ Head(op.todo) = "put" =>
                /\ op.wrote = IF Clearing THEN Attributes ELSE {}
                /\ Len(op.todo) = 2
                /\ \E call \in TextCalls : Tail(op.todo) = <<call>>
           /\ Head(op.todo) \in TextCalls =>
                \/ /\ Clearing /\ op.wrote = {"rule", "frameworks"} /\ Len(op.todo) = 3
                   /\ \E call \in TextCalls : Tail(op.todo) = <<"put", call>>
                \/ /\ op.wrote = IF Clearing THEN Attributes ELSE {"rule", "frameworks"}
                   /\ Len(op.todo) = 1 /\ Tail(op.todo) = << >>
<1> PICK call \in TextCalls :
        \/ Clearing /\ op.wrote = {}
             /\ op.todo \in {<<"category", "clear", call, "put", call>>,
                         <<"clear", call, "put", call>>}
        \/ Clearing /\ op.wrote = {"rule", "frameworks"}
             /\ \E first \in TextCalls : op.todo = <<first, "put", call>>
        \/ Clearing /\ op.wrote = Attributes /\ op.todo \in {<<"put", call>>, <<call>>}
        \/ ~Clearing /\ op.wrote = {} /\ op.todo \in {<<"category", "put", call>>, <<"put", call>>}
        \/ ~Clearing /\ op.wrote = {"rule", "frameworks"} /\ op.todo = <<call>>
  BY DEF UpdateStage
<1>0. TextCalls \cap {"category", "clear", "put"} = {}
  BY DEF TextCalls
<1>1. CASE Clearing /\ op.wrote = {} /\ op.todo = <<"category", "clear", call, "put", call>>
  <2>1. UpdateStage(<<"clear", call, "put", call>>, {})
    BY <1>1 DEF UpdateStage
  <2> QED
    BY <1>0, <1>1, <2>1, Tuples
<1>2. CASE Clearing /\ op.wrote = {} /\ op.todo = <<"clear", call, "put", call>>
  BY <1>0, <1>2, Tuples
<1>3. CASE Clearing /\ op.wrote = {"rule", "frameworks"}
             /\ \E first \in TextCalls : op.todo = <<first, "put", call>>
  BY <1>0, <1>3, Tuples
<1>4. CASE Clearing /\ op.wrote = Attributes /\ op.todo = <<"put", call>>
  BY <1>0, <1>4, Tuples
<1>5. CASE Clearing /\ op.wrote = Attributes /\ op.todo = <<call>>
  BY <1>0, <1>5, Tuples
<1>6. CASE ~Clearing /\ op.wrote = {} /\ op.todo = <<"category", "put", call>>
  <2>1. UpdateStage(<<"put", call>>, {})
    BY <1>6 DEF UpdateStage
  <2> QED
    BY <1>0, <1>6, <2>1, Tuples
<1>7. CASE ~Clearing /\ op.wrote = {} /\ op.todo = <<"put", call>>
  BY <1>0, <1>7, Tuples
<1>8. CASE ~Clearing /\ op.wrote = {"rule", "frameworks"} /\ op.todo = <<call>>
  BY <1>0, <1>8, Tuples
<1> QED
  BY <1>1, <1>2, <1>3, <1>4, <1>5, <1>6, <1>7, <1>8

(* The same of a Create.                                                   *)
LEMMA CreateDue ==
    ASSUME CreateOp
    PROVE  /\ op.todo # << >>
           /\ Head(op.todo) \in {"category", "post", "setText", "addText", "get", "getText"}
           /\ Head(op.todo) = "category" =>
                op.id = 0 /\ nextId <= MaxId /\ Tail(op.todo) \in CreateBefore
           /\ Head(op.todo) = "post" =>
                /\ op.id = 0 /\ nextId <= MaxId
                /\ Tail(op.todo) = IF op.plan.text = NoText THEN <<"get", "getText">>
                                   ELSE <<"setText", "get", "getText">>
           /\ Head(op.todo) \in {"setText", "addText"} =>
                /\ op.id \in 1 .. MaxId /\ op.plan.text # NoText /\ TextDue
                /\ Tail(op.todo) = <<"get", "getText">> /\ Len(op.todo) = 3
           /\ Head(op.todo) = "get" =>
                op.id \in 1 .. MaxId /\ ~TextDue /\ Tail(op.todo) = <<"getText">>
           /\ Head(op.todo) = "getText" => op.id \in 1 .. MaxId /\ ~TextDue
<1>1. CASE op.id = 0 /\ nextId <= MaxId /\ op.todo \in CreateBefore
  <2> DEFINE rest == IF op.plan.text = NoText THEN <<"get", "getText">>
                     ELSE <<"setText", "get", "getText">>
  <2>1. CASE Head(op.todo) = "category" /\ op.todo # << >> /\ Tail(op.todo) \in CreateBefore
    BY <1>1, <2>1
  <2>2. CASE Head(op.todo) = "post" /\ op.todo # << >> /\ Tail(op.todo) = rest
    BY <1>1, <2>2
  <2>3. CASE op.plan.text = NoText
    <3>1. CASE op.todo = <<"category", "post", "get", "getText">>
      BY <2>1, <2>3, <3>1, Tuples DEF CreateBefore
    <3>2. CASE op.todo = <<"post", "get", "getText">>
      BY <2>2, <2>3, <3>2, Tuples
    <3> QED
      BY <1>1, <2>3, <3>1, <3>2 DEF CreateBefore
  <2>4. CASE op.plan.text # NoText
    <3>1. CASE op.todo = <<"category", "post", "setText", "get", "getText">>
      BY <2>1, <2>4, <3>1, Tuples DEF CreateBefore
    <3>2. CASE op.todo = <<"post", "setText", "get", "getText">>
      BY <2>2, <2>4, <3>2, Tuples
    <3> QED
      BY <1>1, <2>4, <3>1, <3>2 DEF CreateBefore
  <2> QED
    BY <2>3, <2>4
<1>2. CASE op.id \in 1 .. MaxId /\ op.plan.text # NoText /\ TextDue
  <2>1. /\ op.todo # << >> /\ Head(op.todo) \in {"setText", "addText"}
        /\ Tail(op.todo) = <<"get", "getText">> /\ Len(op.todo) = 3
    <3>1. CASE op.todo = <<"setText", "get", "getText">>
      BY <3>1, Tuples
    <3>2. CASE op.todo = <<"addText", "get", "getText">>
      BY <3>2, Tuples
    <3> QED
      BY <1>2, <3>1, <3>2 DEF TextDue
  <2> QED
    BY <1>2, <2>1
<1>3. CASE op.id \in 1 .. MaxId /\ op.todo = <<"get", "getText">>
  <2>1. op.todo # << >> /\ Head(op.todo) = "get" /\ Tail(op.todo) = <<"getText">> /\ ~TextDue
    BY <1>3, Tuples DEF TextDue
  <2> QED
    BY <1>3, <2>1
<1>4. CASE op.id \in 1 .. MaxId /\ op.todo = <<"getText">>
  <2>1. op.todo # << >> /\ Head(op.todo) = "getText" /\ ~TextDue
    BY <1>4, Tuples DEF TextDue
  <2> QED
    BY <1>4, <2>1
<1> QED
  BY <1>1, <1>2, <1>3, <1>4 DEF CreateOp, CreateAfter

(* The same of a Read.                                                     *)
LEMMA ReadDue ==
    ASSUME ReadOp
    PROVE  /\ op.todo # << >> /\ Head(op.todo) \in {"head", "get", "getText"}
           /\ Head(op.todo) = "head" => Tail(op.todo) = <<"get", "getText">> /\ op.wrote = {}
           /\ Head(op.todo) = "get" => Tail(op.todo) = <<"getText">> /\ op.wrote = {}
           /\ Head(op.todo) = "getText" => op.todo = <<"getText">>
<1>1. CASE op.todo = <<"head", "get", "getText">>
  <2>1. op.todo # << >> /\ Head(op.todo) = "head" /\ Tail(op.todo) = <<"get", "getText">>
    BY <1>1, Tuples
  <2>2. op.wrote = {}
    BY <1>1, Tuples DEF ReadOp
  <2> QED
    BY <2>1, <2>2
<1>2. CASE op.todo = <<"get", "getText">>
  <2>1. op.todo # << >> /\ Head(op.todo) = "get" /\ Tail(op.todo) = <<"getText">>
    BY <1>2, Tuples
  <2>2. op.wrote = {}
    BY <1>2, Tuples DEF ReadOp
  <2> QED
    BY <2>1, <2>2
<1>3. CASE op.todo = <<"getText">>
  BY <1>3, Tuples
<1> QED
  BY <1>1, <1>2, <1>3 DEF ReadOp, ReadTodos

(* Which handler makes which call.                                         *)
LEMMA DueKinds ==
    ASSUME TypeOK, OpInv
    PROVE  /\ Due("category") => op.kind \in {"create", "update"}
           /\ Due("post") => op.kind = "create"
           /\ Due("clear") \/ Due("put") => op.kind = "update"
           /\ (\E call \in TextCalls : Due(call)) => op.kind \in {"create", "update"}
           /\ Due("head") => op.kind \in {"read", "import"}
           /\ Due("get") \/ Due("getText") => op.kind \in {"create", "read", "import"}
           /\ Due("delete") => op.kind = "delete"
<1>1. CASE op.kind = "create"
  BY <1>1, CreateDue DEF OpInv, Due, TextCalls
<1>2. CASE op.kind = "update"
  BY <1>2, UpdateDue DEF OpInv, UpdateOp, Due, TextCalls
<1>3. CASE op.kind \in {"none", "crashed"}
  <2>1. op.todo = << >>
    BY <1>3 DEF OpInv, NoOp
  <2> QED
    BY <2>1 DEF Due
<1>4. CASE op.kind \in {"read", "import"}
  BY <1>4, ReadDue DEF OpInv, Due, TextCalls
<1>5. CASE op.kind = "delete"
  BY <1>5, Tuples DEF OpInv, DeleteOp, Due, TextCalls
<1> QED
  BY <1>1, <1>2, <1>3, <1>4, <1>5 DEF TypeOK, Ops

-----------------------------------------------------------------------------
(* Alerts are not None, and an alert in the state has an id.               *)
LEMMA AlertType ==
    /\ None \notin Alerts
    /\ Alerts \subseteq Values
    /\ 0 \in 0 .. MaxId /\ 1 \in 1 .. MaxId
    /\ \A i \in 1 .. MaxId : i \in 0 .. MaxId /\ i # 0
    /\ \A v \in Alerts : v.rule \in Rules /\ v.frameworks \in SUBSET Frameworks
                          /\ v.text \in Texts \cup {NoText}
    /\ \A r \in Rules, f \in SUBSET Frameworks, t \in Texts \cup {NoText} :
          [rule |-> r, frameworks |-> f, text |-> t] \in Alerts
BY CustomAlertAssumption DEF Alerts, Values

LEMMA StateType ==
    ASSUME TypeOK
    PROVE  /\ state.id \in 0 .. MaxId
           /\ state # NoObject => state.id \in 1 .. MaxId /\ state.value \in Alerts
           /\ state = NoObject => state.id = 0
BY AlertType DEF TypeOK, NoObject

LEMMA NoneIsNoOp == NoOp = [NoOp EXCEPT !.kind = "none"]
<1>1. \A todo : LET r == [kind |-> "none", todo |-> todo, id |-> 0, plan |-> None,
                          got |-> None, wrote |-> {}]
                IN r = [r EXCEPT !.kind = "none"]
  OBVIOUS
<1> QED
  BY <1>1 DEF NoOp

LEMMA NoOpType ==
    ASSUME NEW kind \in {"none", "crashed"}
    PROVE  LET r == [NoOp EXCEPT !.kind = kind] IN
             r \in Ops /\ r.kind = kind /\ r.id = 0 /\ r.wrote = {} /\ r.todo = << >>
<1>1. << >> \in Seq(Calls)
  OBVIOUS
<1>2. \A todo \in Seq(Calls) :
         LET r == [[kind |-> "none", todo |-> todo, id |-> 0, plan |-> None, got |-> None,
                    wrote |-> {}] EXCEPT !.kind = kind]
         IN r \in Ops /\ r.kind = kind /\ r.id = 0 /\ r.wrote = {} /\ r.todo = todo
  BY AlertType DEF Ops
<1> QED
  BY <1>1, <1>2 DEF NoOp

(* A handler has ended.                                                    *)
LEMMA Ended ==
    ASSUME NEW kind \in {"none", "crashed"}, op' = [NoOp EXCEPT !.kind = kind]
    PROVE  /\ op' \in Ops
           /\ op'.kind = kind /\ op'.id = 0 /\ op'.wrote = {} /\ op'.todo = << >>
           /\ OpInv' /\ CreateInv' /\ ReadInv' /\ UpdateInv'
<1>1. op' \in Ops /\ op'.kind = kind /\ op'.id = 0 /\ op'.wrote = {} /\ op'.todo = << >>
  BY NoOpType
<1>2. OpInv'
  BY <1>1 DEF OpInv
<1>3. CreateInv' /\ ReadInv' /\ UpdateInv'
  BY <1>1 DEF CreateInv, ReadInv, UpdateInv
<1> QED
  BY <1>1, <1>2, <1>3

LEMMA CountersType ==
    ASSUME TypeOK, (\E failed \in BOOLEAN : Failing(failed)) \/ UNCHANGED counters
    PROVE  edits' \in Nat /\ failures' \in Nat /\ changes' \in Nat
BY DEF TypeOK, Failing, counters

(* After an error what the handler has written is suspect, or else stored. *)
LEMMA FailsInv ==
    ASSUME Inv, NEW reached \in SUBSET Attributes, Fails(reached) \/ Panics(reached),
           UNCHANGED <<sonar, config>>,
           remote' \in [1 .. MaxId -> Alerts \cup {None}],
           nextId' \in 1 .. MaxId + 1, nextId' >= nextId,
           \A id \in 1 .. MaxId : id >= nextId' => remote'[id] = None,
           edits' \in Nat, failures' \in Nat, changes' \in Nat,
           state # NoObject /\ remote'[state.id] # None =>
              /\ Exists(state.id)
              /\ \A a \in Attributes \ reached : remote'[state.id][a] = remote[state.id][a]
              /\ Cleared => \A a \in reached \ {"frameworks"} : remote'[state.id][a] = op.plan[a]
    PROVE  Inv'
<1> USE DEF Inv
<1>1. PICK kind \in {"none", "crashed"} : op' = [NoOp EXCEPT !.kind = kind]
  <2>1. CASE Fails(reached)
    BY <2>1, NoneIsNoOp DEF Fails
  <2>2. CASE Panics(reached)
    BY <2>2 DEF Panics
  <2> QED
    BY <2>1, <2>2
<1>2. /\ op' \in Ops
      /\ op'.kind = kind /\ op'.id = 0 /\ op'.wrote = {}
      /\ OpInv' /\ CreateInv' /\ ReadInv' /\ UpdateInv'
  BY <1>1, Ended
<1>3. CASE Fails(reached) /\ Cleared
  <2>1. /\ op.kind = "update" /\ UpdateOp /\ Clearing /\ Len(op.todo) <= 2
        /\ op.plan \in Alerts /\ state # NoObject /\ op.id = state.id
    BY <1>3 DEF Cleared, Clearing, OpInv, UpdateOp
  <2>2. op.wrote = Attributes /\ (Due("put") => Len(op.todo) = 2)
    <3>1. UpdateStage(op.todo, op.wrote) /\ ~(Len(op.todo) > 2)
      BY <2>1 DEF UpdateOp
    <3>2. CASE Head(op.todo) \in TextCalls
      <4>1. ~Due("put")
        BY <3>2 DEF Due, TextCalls
      <4>2. Len(op.todo) # 3
        <5> SUFFICES ASSUME Len(op.todo) = 3 PROVE FALSE
          OBVIOUS
        <5>1. ~(3 <= 2)
          OBVIOUS
        <5> QED
          BY <2>1, <5>1
      <4> QED
        BY <2>1, <3>1, <3>2, <4>1, <4>2, UpdateDue
    <3>3. CASE Head(op.todo) = "put"
      BY <2>1, <3>1, <3>3, UpdateDue DEF Due
    <3> QED
      BY <3>1, <3>2, <3>3, UpdateDue
  <2>3. /\ state' = [id |-> op.id, value |-> [op.plan EXCEPT !.frameworks = {}]]
        /\ suspect' = suspect \cup
             IF Due("put") THEN reached \cap {"frameworks"} ELSE {"frameworks"}
    BY <1>3 DEF Fails, AfterFailure
  <2>4. [op.plan EXCEPT !.frameworks = {}] \in Alerts
    BY <2>1 DEF Alerts
  <2>5. TypeOK'
    BY <1>2, <2>1, <2>3, <2>4, StateType DEF TypeOK, Attributes
  <2>6. FreshInv'
    BY <1>2, <2>1, <2>3, StateType DEF FreshInv, TypeOK
  <2>7. StateInv'
    <3> SUFFICES ASSUME remote'[state.id] # None, NEW a \in Attributes \ suspect'
                 PROVE  remote'[state.id][a] = [op.plan EXCEPT !.frameworks = {}][a]
      BY <1>2, <2>1, <2>3 DEF StateInv, Exists
    <3>1. /\ Exists(op.id)
          /\ \A b \in Attributes \ reached : remote'[state.id][b] = remote[state.id][b]
          /\ \A b \in reached \ {"frameworks"} : remote'[state.id][b] = op.plan[b]
      BY <1>3, <2>1
    <3>2. remote[op.id][a] = Written(a)
      BY <2>1, <2>2, <2>3, <3>1 DEF UpdateInv
    <3>3. CASE a = "frameworks"
      <4>1. Due("put") /\ a \notin reached
        BY <2>3, <3>3
      <4> QED
        BY <2>1, <2>2, <3>1, <3>2, <3>3, <4>1 DEF Written, Alerts
    <3>4. CASE a # "frameworks"
      <4>1. remote'[state.id][a] = op.plan[a]
        BY <2>1, <3>1, <3>2, <3>4 DEF Written
      <4> QED
        BY <2>1, <3>4, <4>1 DEF Alerts, Attributes
    <3> QED
      BY <3>3, <3>4
  <2> QED
    BY <1>2, <2>5, <2>6, <2>7
<1>4. CASE ~(Fails(reached) /\ Cleared)
  <2>1. state' = state /\ suspect' = suspect \cup op.wrote \cup reached
    BY <1>4 DEF Fails, Panics
  <2>2. TypeOK'
    BY <1>2, <2>1 DEF TypeOK, Ops
  <2>3. FreshInv'
    BY <1>2, <2>1, StateType DEF FreshInv, TypeOK
  <2>4. op.kind = "create" => state = NoObject
    BY DEF OpInv, CreateOp
  <2>5. StateInv'
    BY <1>2, <2>1, <2>4 DEF StateInv, Exists
  <2> QED
    BY <1>2, <2>2, <2>3, <2>5
<1> QED
  BY <1>3, <1>4

(* What the handler that runs is does not depend on the rest.              *)
LEMMA SameOp ==
    ASSUME OpInv, UNCHANGED <<sonar, state, op, nextId>>
    PROVE  OpInv'
<1>1. Clearing' = Clearing /\ Shown' = Shown /\ CreateBefore' = CreateBefore /\ TextDue' = TextDue
  BY DEF Clearing, Shown, CreateBefore, TextDue
<1>2. CreateOp' = CreateOp
  BY <1>1 DEF CreateOp, CreateAfter
<1>3. ReadOp' = ReadOp
  BY <1>1 DEF ReadOp, ReadTodos
<1>4. UpdateOp' = UpdateOp
  BY <1>1 DEF UpdateOp, UpdateStage
<1>5. DeleteOp' = DeleteOp
  BY DEF DeleteOp
<1> QED
  BY <1>2, <1>3, <1>4, <1>5 DEF OpInv

(* Someone else writes, or deletes, and what was written is suspect.       *)
LEMMA OutsideInv ==
    ASSUME Inv, UNCHANGED <<sonar, state, op, nextId>>,
           config' \in Alerts \cup {None}, edits' \in Nat, failures' \in Nat, changes' \in Nat,
           remote' \in [1 .. MaxId -> Alerts \cup {None}],
           suspect \subseteq suspect', suspect' \subseteq Attributes,
           \A id \in 1 .. MaxId : remote'[id] # None =>
              /\ remote[id] # None
              /\ \A a \in Attributes \ suspect' : remote'[id][a] = remote[id][a]
    PROVE  Inv'
<1> USE DEF Inv
<1>1. TypeOK'
  BY DEF TypeOK
<1>2. OpInv'
  BY SameOp
<1>3. FreshInv'
  BY DEF FreshInv
<1>4. StateInv'
  <2> SUFFICES ASSUME op.kind # "create", state # NoObject, remote'[state.id] # None,
                      NEW a \in Attributes \ (suspect' \cup op.wrote)
               PROVE  remote'[state.id][a] = state.value[a]
    BY DEF StateInv, Exists
  <2> QED
    BY StateType DEF StateInv, Exists
<1>5. CreateInv'
  <2> SUFFICES ASSUME op.kind = "create", op.id # 0, remote'[op.id] # None,
                      NEW a \in Attributes \ suspect'
               PROVE  remote'[op.id][a] = IF a = "text" /\ TextDue THEN NoText ELSE op.plan[a]
    BY DEF CreateInv, Exists, TextDue
  <2>1. op.id \in 1 .. MaxId
    BY DEF OpInv, CreateOp
  <2> QED
    BY <2>1 DEF CreateInv, Exists
<1>6. ReadInv'
  <2> SUFFICES ASSUME op.kind \in {"read", "import"}, op.todo = <<"getText">>,
                      remote'[op.id] # None, NEW a \in {"rule", "frameworks"} \ suspect'
               PROVE  remote'[op.id][a] = op.got[a]
    BY DEF ReadInv, Exists
  <2>1. op.id \in 1 .. MaxId
    BY StateType DEF OpInv, ReadOp
  <2> QED
    BY <2>1 DEF ReadInv, Exists, Attributes
<1>7. UpdateInv'
  <2> SUFFICES ASSUME op.kind = "update", remote'[op.id] # None, NEW a \in op.wrote \ suspect'
               PROVE  remote'[op.id][a] = Written(a)
    BY DEF UpdateInv, Exists, Written, Clearing
  <2>1. op.id \in 1 .. MaxId /\ a \in Attributes
    BY StateType DEF OpInv, UpdateOp, TypeOK, Ops
  <2> QED
    BY <2>1 DEF UpdateInv, Exists
<1> QED
  BY <1>1, <1>2, <1>3, <1>4, <1>5, <1>6, <1>7

(* A handler begins.                                                       *)
LEMMA BeginInv ==
    ASSUME Inv, Idle, UNCHANGED <<sonar, state, remote, nextId, suspect>>,
           config' \in Alerts \cup {None}, edits' \in Nat, failures' \in Nat, changes' \in Nat,
           op' \in Ops, op'.wrote = {}, op'.id < nextId, OpInv',
           op'.kind = "create" => op'.id = 0, op'.todo # <<"getText">>
    PROVE  Inv'
<1> USE DEF Inv
<1>1. op.wrote = {} /\ op.kind # "create"
  BY DEF Idle, OpInv, NoOp
<1>2. TypeOK'
  BY DEF TypeOK
<1>3. FreshInv'
  BY DEF FreshInv
<1>4. StateInv'
  BY <1>1 DEF StateInv, Exists
<1>5. CreateInv' /\ ReadInv' /\ UpdateInv'
  BY DEF CreateInv, ReadInv, UpdateInv
<1> QED
  BY <1>2, <1>3, <1>4, <1>5

(* The alert is forgotten.                                                 *)
LEMMA RemovesInv ==
    ASSUME Inv, Removes, UNCHANGED <<sonar, config, nextId>>,
           remote' \in [1 .. MaxId -> Alerts \cup {None}],
           \A id \in 1 .. MaxId : remote[id] = None => remote'[id] = None,
           edits' \in Nat, failures' \in Nat, changes' \in Nat
    PROVE  Inv'
<1> USE DEF Inv
<1>1. op' = [NoOp EXCEPT !.kind = "none"] /\ state' = NoObject /\ suspect' = {}
  BY NoneIsNoOp DEF Removes
<1>2. /\ op' \in Ops /\ op'.id = 0
      /\ OpInv' /\ CreateInv' /\ ReadInv' /\ UpdateInv'
  BY <1>1, Ended
<1>3. TypeOK'
  BY <1>1, <1>2 DEF TypeOK
<1>4. FreshInv'
  BY <1>1, <1>2 DEF FreshInv, TypeOK, NoObject
<1>5. StateInv'
  BY <1>1 DEF StateInv
<1> QED
  BY <1>2, <1>3, <1>4, <1>5

-----------------------------------------------------------------------------
LEMMA InitInv == Init => Inv
<1> SUFFICES ASSUME Init PROVE Inv
  OBVIOUS
<1>1. op = [NoOp EXCEPT !.kind = "none"]
  BY NoneIsNoOp DEF Init
<1>2. op \in Ops /\ op.id = 0 /\ op.kind = "none"
  BY <1>1, NoOpType
<1>3. remote \in [1 .. MaxId -> Alerts \cup {None}] /\ \A id \in 2 .. MaxId : remote[id] = None
  <2>1. PICK first \in {None} \cup Legacy :
           remote = [id \in 1 .. MaxId |-> IF id = 1 THEN first ELSE None]
    BY DEF Init
  <2>2. first \in Alerts \cup {None}
    <3> SUFFICES ASSUME first \in Legacy PROVE first \in Alerts
      BY <2>1
    <3>1. (CHOOSE rule \in Rules : TRUE) \in Rules
      BY CustomAlertAssumption
    <3>2. {CHOOSE framework \in Frameworks : TRUE} \in SUBSET Frameworks
      BY CustomAlertAssumption
    <3> QED
      BY <3>1, <3>2 DEF Legacy, Alerts
  <2> QED
    BY <2>1, <2>2
<1>4. TypeOK
  BY <1>2, <1>3, AlertType, CustomAlertAssumption DEF Init, TypeOK
<1>5. FreshInv
  BY <1>2, <1>3, CustomAlertAssumption DEF Init, FreshInv, NoObject
<1>6. OpInv /\ CreateInv /\ ReadInv /\ UpdateInv /\ StateInv
  BY <1>1, <1>2 DEF Init, OpInv, CreateInv, ReadInv, UpdateInv, StateInv
<1> QED
  BY <1>4, <1>5, <1>6 DEF Inv

-----------------------------------------------------------------------------
(* The user and the console.                                               *)
LEMMA EnvironmentInv ==
    ASSUME Inv, Environment
    PROVE  Inv'
<1> USE DEF Inv
<1>1. CASE \E new \in Alerts \cup {None} : EditConfig(new)
  <2>1. /\ UNCHANGED <<sonar, state, op, nextId, remote, suspect, failures, changes>>
        /\ config' \in Alerts \cup {None} /\ edits' = edits + 1
    BY <1>1 DEF EditConfig
  <2> QED
    BY <2>1, OutsideInv DEF TypeOK
<1>2. ASSUME NEW id \in 1 .. MaxId, Import(id)
      PROVE  Inv'
  <2>1. /\ Idle /\ state = NoObject /\ remote[id] # None
        /\ op' = [NoOp EXCEPT !.kind = "import", !.todo = <<"head", "get", "getText">>,
                              !.id = id, !.plan = Blank]
        /\ UNCHANGED <<sonar, config, state, remote, nextId, suspect, failures, changes>>
        /\ edits' = edits + 1
    BY <1>2 DEF Import, Begin, Exists
  <2>2. Blank \in Values
    BY DEF Blank, Values
  <2>3. <<"head", "get", "getText">> \in Seq(Calls) /\ <<"head", "get", "getText">> # <<"getText">>
    BY DEF Calls
  <2>4. \A todo \in Seq(Calls) :
           LET r == [NoOp EXCEPT !.kind = "import", !.todo = todo, !.id = id, !.plan = Blank]
           IN /\ r \in Ops /\ r.kind = "import" /\ r.todo = todo /\ r.id = id
              /\ r.plan = Blank /\ r.wrote = {}
    <3>1. NoOp \in Ops /\ NoOp.wrote = {}
      BY NoOpType, NoneIsNoOp
    <3> QED
      BY <2>2, <3>1, AlertType DEF Ops
  <2>5. /\ op' \in Ops /\ op'.kind = "import" /\ op'.todo = <<"head", "get", "getText">>
        /\ op'.id = id /\ op'.plan = Blank /\ op'.wrote = {}
    BY <2>1, <2>3, <2>4
  <2>6. ReadOp'
    BY <2>1, <2>3, <2>5 DEF ReadOp, ReadTodos
  <2>7. OpInv'
    BY <2>5, <2>6 DEF OpInv
  <2>8. id < nextId
    BY <2>1 DEF FreshInv, TypeOK
  <2> QED
    BY <2>1, <2>3, <2>5, <2>7, <2>8, BeginInv DEF TypeOK
<1>3. ASSUME NEW id \in 1 .. MaxId, DeleteOutside(id)
      PROVE  Inv'
  <2>1. /\ UNCHANGED <<sonar, config, state, nextId, op, suspect, edits, failures>>
        /\ changes' = changes + 1
        /\ remote' = [remote EXCEPT ![id] = None]
    BY <1>3 DEF DeleteOutside
  <2> QED
    BY <2>1, OutsideInv DEF TypeOK
<1>4. ASSUME NEW attribute \in Attributes, NEW value,
             ChangeOutside(attribute, value),
             \A alert \in Alerts : [alert EXCEPT ![attribute] = value] \in Alerts
      PROVE  Inv'
  <2>1. PICK id \in {state.id, op.id} \ {0} :
           remote[id] # None /\ remote' = [remote EXCEPT ![id][attribute] = value]
    BY <1>4 DEF ChangeOutside, Exists
  <2>2. id \in 1 .. MaxId
    BY <2>1, StateType DEF TypeOK, Ops
  <2>3. /\ UNCHANGED <<sonar, config, state, nextId, op, edits, failures>>
        /\ changes' = changes + 1 /\ suspect' = suspect \cup {attribute}
    BY <1>4 DEF ChangeOutside
  <2>4. remote[id] \in Alerts
    BY <2>1, <2>2 DEF TypeOK
  <2>5. remote' = [remote EXCEPT ![id] = [remote[id] EXCEPT ![attribute] = value]]
    BY <2>1
  <2>6. remote' \in [1 .. MaxId -> Alerts \cup {None}]
    BY <1>4, <2>2, <2>4, <2>5 DEF TypeOK
  <2>7. \A i \in 1 .. MaxId : remote'[i] # None =>
           /\ remote[i] # None
           /\ \A a \in Attributes \ suspect' : remote'[i][a] = remote[i][a]
    <3> SUFFICES ASSUME NEW i \in 1 .. MaxId, remote'[i] # None
                 PROVE  /\ remote[i] # None
                        /\ \A a \in Attributes \ suspect' : remote'[i][a] = remote[i][a]
      OBVIOUS
    <3>1. CASE i # id
      BY <2>2, <2>5, <3>1 DEF TypeOK
    <3>2. CASE i = id
      <4>1. remote'[i] = [remote[i] EXCEPT ![attribute] = value]
        BY <2>2, <2>5, <3>2 DEF TypeOK
      <4>2. \A a \in Attributes \ {attribute} :
               [remote[i] EXCEPT ![attribute] = value][a] = remote[i][a]
        BY <2>4, <3>2 DEF Alerts, Attributes
      <4> QED
        BY <2>1, <2>3, <3>2, <4>1, <4>2
    <3> QED
      BY <3>1, <3>2
  <2> QED
    BY <2>3, <2>6, <2>7, OutsideInv DEF TypeOK
<1>5. \A rule \in Rules, alert \in Alerts : [alert EXCEPT !["rule"] = rule] \in Alerts
  BY DEF Alerts
<1>6. \A frameworks \in SUBSET Frameworks, alert \in Alerts :
         [alert EXCEPT !["frameworks"] = frameworks] \in Alerts
  BY DEF Alerts
<1>7. \A text \in Texts \cup {NoText}, alert \in Alerts :
         [alert EXCEPT !["text"] = text] \in Alerts
  BY DEF Alerts
<1>8. "rule" \in Attributes /\ "frameworks" \in Attributes /\ "text" \in Attributes
  BY DEF Attributes
<1> QED
  BY <1>1, <1>2, <1>3, <1>4, <1>5, <1>6, <1>7, <1>8 DEF Environment

(* What Begin makes of a handler.                                          *)
LEMMA BeginOp ==
    ASSUME NEW kind \in {"create", "read", "update", "delete", "import"},
           NEW todo \in Seq(Calls), NEW id \in 0 .. MaxId, NEW plan \in Values \cup {None},
           Begin(kind, todo, id, plan)
    PROVE  /\ op' \in Ops /\ op'.kind = kind /\ op'.todo = todo /\ op'.id = id
           /\ op'.plan = plan /\ op'.wrote = {}
<1>1. NoOp \in Ops /\ NoOp.wrote = {}
  BY NoOpType, NoneIsNoOp
<1> QED
  BY <1>1 DEF Begin, Ops

(* Calls put together.                                                     *)
LEMMA Concatenations ==
    /\ \A a, b, c, d : (<<a, b>> \o << >>) \o <<c, d>> = <<a, b, c, d>>
    /\ \A a, b, c, d, e : (<<a, b>> \o <<c>>) \o <<d, e>> = <<a, b, c, d, e>>
    /\ \A a : <<a>> \o << >> = <<a>>
    /\ \A a, b, c : <<a>> \o <<b, c>> = <<a, b, c>>
    /\ \A a, b, c, d, e : <<a>> \o <<b, c, d, e>> = <<a, b, c, d, e>>
<1>1. \A a, b : <<a, b>> \o << >> = <<a, b>>
  <2> TAKE a, b
  <2>1. <<a, b>> \in Seq({a, b})
    OBVIOUS
  <2> QED
    BY <2>1, ConcatEmptySeq
<1>2. \A a : <<a>> \o << >> = <<a>>
  <2> TAKE a
  <2>1. <<a>> \in Seq({a})
    OBVIOUS
  <2> QED
    BY <2>1, ConcatEmptySeq
<1>3. ASSUME NEW a, NEW b, NEW c, NEW d PROVE <<a, b>> \o <<c, d>> = <<a, b, c, d>>
  <2> DEFINE s == <<a, b>>
             r == <<c, d>>
             t == <<a, b, c, d>>
  <2>1. s \in Seq({a, b, c, d}) /\ r \in Seq({a, b, c, d}) /\ t \in Seq({a, b, c, d})
    OBVIOUS
  <2>2. Len(s) = 2 /\ Len(r) = 2 /\ Len(t) = 4
    OBVIOUS
  <2>3. \A i \in 1 .. 4 : t[i] = IF i <= 2 THEN s[i] ELSE r[i - 2]
    OBVIOUS
  <2> HIDE DEF s, r, t
  <2>4. /\ s \o r \in Seq({a, b, c, d}) /\ Len(s \o r) = 4
        /\ \A i \in 1 .. 4 : (s \o r)[i] = t[i]
    <3>1. /\ s \o r \in Seq({a, b, c, d}) /\ Len(s \o r) = Len(s) + Len(r)
          /\ \A i \in 1 .. Len(s) + Len(r) :
                (s \o r)[i] = IF i <= Len(s) THEN s[i] ELSE r[i - Len(s)]
      BY <2>1, ConcatProperties
    <3> QED
      BY <2>2, <2>3, <3>1
  <2>5. s \o r = t
    BY <2>1, <2>2, <2>4, SeqEqual
  <2> QED
    BY <2>5 DEF s, r, t
<1>4. ASSUME NEW a, NEW b, NEW c PROVE <<a, b>> \o <<c>> = <<a, b, c>>
  <2> DEFINE s == <<a, b>>
             r == <<c>>
             t == <<a, b, c>>
  <2>1. s \in Seq({a, b, c}) /\ r \in Seq({a, b, c}) /\ t \in Seq({a, b, c})
    OBVIOUS
  <2>2. Len(s) = 2 /\ Len(r) = 1 /\ Len(t) = 3
    OBVIOUS
  <2>3. \A i \in 1 .. 3 : t[i] = IF i <= 2 THEN s[i] ELSE r[i - 2]
    OBVIOUS
  <2> HIDE DEF s, r, t
  <2>4. /\ s \o r \in Seq({a, b, c}) /\ Len(s \o r) = 3
        /\ \A i \in 1 .. 3 : (s \o r)[i] = t[i]
    <3>1. /\ s \o r \in Seq({a, b, c}) /\ Len(s \o r) = Len(s) + Len(r)
          /\ \A i \in 1 .. Len(s) + Len(r) :
                (s \o r)[i] = IF i <= Len(s) THEN s[i] ELSE r[i - Len(s)]
      BY <2>1, ConcatProperties
    <3> QED
      BY <2>2, <2>3, <3>1
  <2>5. s \o r = t
    BY <2>1, <2>2, <2>4, SeqEqual
  <2> QED
    BY <2>5 DEF s, r, t
<1>5. ASSUME NEW a, NEW b, NEW c, NEW d, NEW e PROVE <<a, b, c>> \o <<d, e>> = <<a, b, c, d, e>>
  <2> DEFINE s == <<a, b, c>>
             r == <<d, e>>
             t == <<a, b, c, d, e>>
  <2>1. s \in Seq({a, b, c, d, e}) /\ r \in Seq({a, b, c, d, e}) /\ t \in Seq({a, b, c, d, e})
    OBVIOUS
  <2>2. Len(s) = 3 /\ Len(r) = 2 /\ Len(t) = 5
    OBVIOUS
  <2>3. \A i \in 1 .. 5 : t[i] = IF i <= 3 THEN s[i] ELSE r[i - 3]
    OBVIOUS
  <2> HIDE DEF s, r, t
  <2>4. /\ s \o r \in Seq({a, b, c, d, e}) /\ Len(s \o r) = 5
        /\ \A i \in 1 .. 5 : (s \o r)[i] = t[i]
    <3>1. /\ s \o r \in Seq({a, b, c, d, e}) /\ Len(s \o r) = Len(s) + Len(r)
          /\ \A i \in 1 .. Len(s) + Len(r) :
                (s \o r)[i] = IF i <= Len(s) THEN s[i] ELSE r[i - Len(s)]
      BY <2>1, ConcatProperties
    <3> QED
      BY <2>2, <2>3, <3>1
  <2>5. s \o r = t
    BY <2>1, <2>2, <2>4, SeqEqual
  <2> QED
    BY <2>5 DEF s, r, t
<1>6. ASSUME NEW a, NEW b, NEW c PROVE <<a>> \o <<b, c>> = <<a, b, c>>
  <2> DEFINE s == <<a>>
             r == <<b, c>>
             t == <<a, b, c>>
  <2>1. s \in Seq({a, b, c}) /\ r \in Seq({a, b, c}) /\ t \in Seq({a, b, c})
    OBVIOUS
  <2>2. Len(s) = 1 /\ Len(r) = 2 /\ Len(t) = 3
    OBVIOUS
  <2>3. \A i \in 1 .. 3 : t[i] = IF i <= 1 THEN s[i] ELSE r[i - 1]
    OBVIOUS
  <2> HIDE DEF s, r, t
  <2>4. /\ s \o r \in Seq({a, b, c}) /\ Len(s \o r) = 3
        /\ \A i \in 1 .. 3 : (s \o r)[i] = t[i]
    <3>1. /\ s \o r \in Seq({a, b, c}) /\ Len(s \o r) = Len(s) + Len(r)
          /\ \A i \in 1 .. Len(s) + Len(r) :
                (s \o r)[i] = IF i <= Len(s) THEN s[i] ELSE r[i - Len(s)]
      BY <2>1, ConcatProperties
    <3> QED
      BY <2>2, <2>3, <3>1
  <2>5. s \o r = t
    BY <2>1, <2>2, <2>4, SeqEqual
  <2> QED
    BY <2>5 DEF s, r, t
<1>7. ASSUME NEW a, NEW b, NEW c, NEW d, NEW e PROVE <<a>> \o <<b, c, d, e>> = <<a, b, c, d, e>>
  <2> DEFINE s == <<a>>
             r == <<b, c, d, e>>
             t == <<a, b, c, d, e>>
  <2>1. s \in Seq({a, b, c, d, e}) /\ r \in Seq({a, b, c, d, e}) /\ t \in Seq({a, b, c, d, e})
    OBVIOUS
  <2>2. Len(s) = 1 /\ Len(r) = 4 /\ Len(t) = 5
    OBVIOUS
  <2>3. \A i \in 1 .. 5 : t[i] = IF i <= 1 THEN s[i] ELSE r[i - 1]
    OBVIOUS
  <2> HIDE DEF s, r, t
  <2>4. /\ s \o r \in Seq({a, b, c, d, e}) /\ Len(s \o r) = 5
        /\ \A i \in 1 .. 5 : (s \o r)[i] = t[i]
    <3>1. /\ s \o r \in Seq({a, b, c, d, e}) /\ Len(s \o r) = Len(s) + Len(r)
          /\ \A i \in 1 .. Len(s) + Len(r) :
                (s \o r)[i] = IF i <= Len(s) THEN s[i] ELSE r[i - Len(s)]
      BY <2>1, ConcatProperties
    <3> QED
      BY <2>2, <2>3, <3>1
  <2>5. s \o r = t
    BY <2>1, <2>2, <2>4, SeqEqual
  <2> QED
    BY <2>5 DEF s, r, t
<1>8. \A a, b, c, d : (<<a, b>> \o << >>) \o <<c, d>> = <<a, b, c, d>>
  <2> TAKE a, b, c, d
  <2>1. <<a, b>> \o << >> = <<a, b>>
    BY <1>1
  <2>2. <<a, b>> \o <<c, d>> = <<a, b, c, d>>
    BY <1>3, Zenon
  <2> QED
    BY <2>1, <2>2, Zenon
<1>9. \A a, b, c, d, e : (<<a, b>> \o <<c>>) \o <<d, e>> = <<a, b, c, d, e>>
  <2> TAKE a, b, c, d, e
  <2>1. <<a, b>> \o <<c>> = <<a, b, c>>
    BY <1>4, Zenon
  <2>2. <<a, b, c>> \o <<d, e>> = <<a, b, c, d, e>>
    BY <1>5, Zenon
  <2> QED
    BY <2>1, <2>2, Zenon
<1> QED
  BY <1>2, <1>6, <1>7, <1>8, <1>9

(* The calls of a Create.                                                  *)
LEMMA CreateCalls ==
    ASSUME NEW text
    PROVE  LET todo == <<"category", "post">>
                         \o (IF text = NoText THEN << >> ELSE <<"setText">>)
                         \o <<"get", "getText">>
           IN /\ todo \in Seq(Calls) /\ todo # <<"getText">>
              /\ todo = IF text = NoText THEN <<"category", "post", "get", "getText">>
                        ELSE <<"category", "post", "setText", "get", "getText">>
<1> DEFINE todo == <<"category", "post">> \o (IF text = NoText THEN << >> ELSE <<"setText">>)
                     \o <<"get", "getText">>
<1>1. CASE text = NoText
  <2>1. todo = <<"category", "post", "get", "getText">>
    BY <1>1, Concatenations
  <2>2. <<"category", "post", "get", "getText">> \in Seq(Calls)
    BY DEF Calls
  <2>3. <<"category", "post", "get", "getText">> # <<"getText">>
    OBVIOUS
  <2> QED
    BY <1>1, <2>1, <2>2, <2>3
<1>2. CASE text # NoText
  <2>1. todo = <<"category", "post", "setText", "get", "getText">>
    BY <1>2, Concatenations
  <2>2. <<"category", "post", "setText", "get", "getText">> \in Seq(Calls)
    BY DEF Calls
  <2>3. <<"category", "post", "setText", "get", "getText">> # <<"getText">>
    OBVIOUS
  <2> QED
    BY <1>2, <2>1, <2>2, <2>3
<1> QED
  BY <1>1, <1>2

LEMMA BeginCreateInv ==
    ASSUME Inv, BeginCreate
    PROVE  Inv'
<1> USE DEF Inv
<1> DEFINE todo == <<"category", "post">> \o (IF config.text = NoText THEN << >> ELSE <<"setText">>)
                     \o <<"get", "getText">>
<1>1. /\ Idle /\ config # None /\ state = NoObject /\ nextId <= MaxId
      /\ Begin("create", todo, 0, config)
      /\ UNCHANGED <<sonar, config, state, remote, nextId, suspect, edits, failures, changes>>
  BY DEF BeginCreate, counters
<1>2. /\ todo \in Seq(Calls) /\ todo # <<"getText">>
      /\ todo = IF config.text = NoText THEN <<"category", "post", "get", "getText">>
                ELSE <<"category", "post", "setText", "get", "getText">>
  BY CreateCalls, Zenon
<1>3. config \in Alerts
  BY <1>1 DEF TypeOK
<1> HIDE DEF todo
<1>4. /\ op' \in Ops /\ op'.kind = "create" /\ op'.todo = todo /\ op'.id = 0
      /\ op'.plan = config /\ op'.wrote = {}
  BY <1>1, <1>2, <1>3, AlertType, BeginOp
<1>5. todo \in CreateBefore'
  BY <1>2, <1>4 DEF CreateBefore
<1>6. OpInv'
  BY <1>1, <1>3, <1>4, <1>5 DEF OpInv, CreateOp
<1>7. 0 < nextId
  BY DEF TypeOK
<1> QED
  BY <1>1, <1>2, <1>4, <1>6, <1>7, BeginInv DEF TypeOK

LEMMA BeginReadInv ==
    ASSUME Inv, BeginRead
    PROVE  Inv'
<1> USE DEF Inv
<1> DEFINE todo == <<"head", "get", "getText">>
<1>1. /\ Idle /\ state # NoObject
      /\ Begin("read", todo, state.id, state.value)
      /\ UNCHANGED <<sonar, config, state, remote, nextId, suspect, edits, failures, changes>>
  BY DEF BeginRead, counters
<1>2. todo \in Seq(Calls) /\ todo # <<"getText">> /\ todo \in ReadTodos
  BY DEF Calls, ReadTodos
<1> HIDE DEF todo
<1>3. state.id \in 0 .. MaxId /\ state.value \in Alerts
  BY <1>1, StateType
<1>4. /\ op' \in Ops /\ op'.kind = "read" /\ op'.todo = todo /\ op'.id = state.id
      /\ op'.plan = state.value /\ op'.wrote = {}
  BY <1>1, <1>2, <1>3, AlertType, BeginOp
<1>5. OpInv'
  BY <1>1, <1>2, <1>4 DEF OpInv, ReadOp
<1>6. state.id < nextId
  BY DEF FreshInv
<1> QED
  BY <1>1, <1>2, <1>4, <1>5, <1>6, BeginInv DEF TypeOK

(* The calls of an Update.                                                 *)
LEMMA UpdateCalls ==
    ASSUME NEW hadOld \in BOOLEAN, NEW hasNew \in BOOLEAN, NEW text
    PROVE  \E call \in TextCalls :
              <<"category">> \o ReplaceFrameworks(hadOld, hasNew, text) =
                IF hadOld /\ hasNew THEN <<"category", "clear", call, "put", call>>
                ELSE <<"category", "put", call>>
<1> DEFINE call == TextCall(text)
<1>1. call \in TextCalls
  BY DEF TextCall, TextCalls
<1>2. <<"category">> \o <<"clear", call, "put", call>> = <<"category", "clear", call, "put", call>>
  <2>1. \A a, b, c, d, e : <<a>> \o <<b, c, d, e>> = <<a, b, c, d, e>>
    BY Concatenations
  <2> QED
    BY <2>1, Zenon
<1>3. <<"category">> \o <<"put", call>> = <<"category", "put", call>>
  BY Concatenations, Zenon
<1> QED
  BY <1>1, <1>2, <1>3, Zenon DEF ReplaceFrameworks

LEMMA BeginUpdateInv ==
    ASSUME Inv, BeginUpdate
    PROVE  Inv'
<1> USE DEF Inv
<1> DEFINE both == state.value.frameworks # {} /\ config.frameworks # {}
           todo == <<"category">> \o ReplaceFrameworks(state.value.frameworks # {},
                                                       config.frameworks # {}, config.text)
<1>1. /\ Idle /\ config # None /\ state # NoObject
      /\ Begin("update", todo, state.id, config)
      /\ UNCHANGED <<sonar, config, state, remote, nextId, suspect, edits, failures, changes>>
  BY DEF BeginUpdate, counters
<1>2. PICK call \in TextCalls :
         todo = IF both THEN <<"category", "clear", call, "put", call>>
                ELSE <<"category", "put", call>>
  BY UpdateCalls, Zenon
<1>3. config \in Alerts /\ state.id \in 0 .. MaxId /\ state.id < nextId
  BY <1>1, StateType DEF TypeOK, FreshInv
<1> HIDE DEF todo
<1>4. todo \in Seq(Calls) /\ todo # <<"getText">>
  <2>1. call \in Calls
    BY DEF TextCalls, Calls
  <2>2. CASE both
    BY <1>2, <2>1, <2>2 DEF Calls
  <2>3. CASE ~both
    <3>1. <<"category", "put", call>> \in Seq(Calls)
      BY <2>1 DEF Calls
    <3>2. <<"category", "put", call>> # <<"getText">>
      OBVIOUS
    <3> QED
      BY <1>2, <2>3, <3>1, <3>2
  <2> QED
    BY <2>2, <2>3
<1>5. /\ op' \in Ops /\ op'.kind = "update" /\ op'.todo = todo /\ op'.id = state.id
      /\ op'.plan = config /\ op'.wrote = {}
  BY <1>1, <1>3, <1>4, AlertType, BeginOp
<1>6. UpdateStage(todo, {})'
  <2>1. Clearing' = both /\ todo' = todo
    BY <1>1, <1>5 DEF Clearing, todo
  <2>2. CASE both
    BY <1>2, <2>1, <2>2 DEF UpdateStage
  <2>3. CASE ~both
    BY <1>2, <2>1, <2>3 DEF UpdateStage
  <2> QED
    BY <2>2, <2>3
<1>7. OpInv'
  BY <1>1, <1>3, <1>5, <1>6 DEF OpInv, UpdateOp, UpdateStage, todo
<1> QED
  BY <1>1, <1>3, <1>4, <1>5, <1>7, BeginInv DEF TypeOK

LEMMA BeginDeleteInv ==
    ASSUME Inv, BeginDelete
    PROVE  Inv'
<1> USE DEF Inv
<1> DEFINE todo == <<"delete">>
<1>1. /\ Idle /\ state # NoObject
      /\ Begin("delete", todo, state.id, None)
      /\ UNCHANGED <<sonar, config, state, remote, nextId, suspect, edits, failures, changes>>
  BY DEF BeginDelete, counters
<1>2. todo \in Seq(Calls) /\ todo # <<"getText">>
  BY DEF Calls
<1> HIDE DEF todo
<1>3. state.id \in 0 .. MaxId /\ state.id < nextId
  BY <1>1, StateType DEF FreshInv
<1>4. /\ op' \in Ops /\ op'.kind = "delete" /\ op'.todo = todo /\ op'.id = state.id
      /\ op'.plan = None /\ op'.wrote = {}
  BY <1>1, <1>2, <1>3, AlertType, BeginOp
<1>5. OpInv'
  BY <1>1, <1>4 DEF OpInv, DeleteOp, todo
<1> QED
  BY <1>1, <1>2, <1>3, <1>4, <1>5, BeginInv DEF TypeOK

-----------------------------------------------------------------------------
(* What Proceed makes of a handler.                                        *)
LEMMA ProceedOp ==
    ASSUME TypeOK, NEW todo \in Seq(Calls), NEW id \in 0 .. MaxId,
           NEW wrote \in SUBSET Attributes, Proceed(todo, id, wrote)
    PROVE  /\ op' \in Ops /\ op'.todo = todo /\ op'.id = id /\ op'.wrote = wrote
           /\ op'.kind = op.kind /\ op'.plan = op.plan /\ op'.got = op.got
           /\ state' = state
BY DEF TypeOK, Proceed, Ops

(* The rest of the calls.                                                  *)
LEMMA TailType ==
    ASSUME TypeOK, op.todo # << >>
    PROVE  Tail(op.todo) \in Seq(Calls)
BY HeadTailProperties DEF TypeOK, Ops

LEMMA IdType ==
    ASSUME TypeOK
    PROVE  op.id \in 0 .. MaxId /\ op.wrote \in SUBSET Attributes
BY DEF TypeOK, Ops

LEMMA ListCategoriesInv ==
    ASSUME Inv, NEW failed \in BOOLEAN, ListCategories(failed)
    PROVE  Inv'
<1> USE DEF Inv
<1>1. /\ Due("category") /\ UNCHANGED <<sonar, config, remote, nextId>>
      /\ edits' \in Nat /\ failures' \in Nat /\ changes' \in Nat
  BY CountersType DEF ListCategories
<1>2. CASE Fails({})
  BY <1>1, <1>2, FailsInv DEF TypeOK, FreshInv, Exists
<1>3. CASE Proceed(Tail(op.todo), op.id, {}) /\ UNCHANGED suspect
  <2>1. /\ op' \in Ops /\ op'.todo = Tail(op.todo) /\ op'.id = op.id /\ op'.wrote = {}
        /\ op'.kind = op.kind /\ op'.plan = op.plan /\ state' = state
    <3>1. Tail(op.todo) \in Seq(Calls) /\ op.id \in 0 .. MaxId /\ {} \in SUBSET Attributes
      BY <1>1, TailType, IdType DEF Due
    <3> QED
      BY <1>3, <3>1, ProceedOp
  <2>2. TypeOK'
    BY <1>1, <1>3, <2>1 DEF TypeOK
  <2>3. FreshInv'
    BY <1>1, <2>1 DEF FreshInv
  <2>4. CASE op.kind = "create"
    <3>1. op.id = 0 /\ nextId <= MaxId /\ Tail(op.todo) \in CreateBefore
      BY <1>1, <2>4, CreateDue DEF Due, OpInv
    <3>2. CreateOp'
      BY <1>1, <2>1, <2>4, <3>1 DEF OpInv, CreateOp, CreateBefore
    <3> QED
      BY <2>1, <2>2, <2>3, <2>4, <3>1, <3>2
      DEF OpInv, StateInv, CreateInv, ReadInv, UpdateInv
  <2>5. CASE op.kind = "update"
    <3>1. op.wrote = {} /\ UpdateStage(Tail(op.todo), {})
      BY <1>1, <2>5, UpdateDue DEF Due, OpInv, UpdateOp
    <3>2. UpdateStage(op.todo, op.wrote)'
      BY <2>1, <3>1 DEF UpdateStage, Clearing
    <3>3. UpdateOp'
      BY <2>1, <2>5, <3>2 DEF OpInv, UpdateOp
    <3>4. StateInv'
      BY <1>1, <1>3, <2>1, <2>5, <3>1 DEF StateInv, Exists
    <3> QED
      BY <2>1, <2>2, <2>3, <2>5, <3>3, <3>4 DEF OpInv, CreateInv, ReadInv, UpdateInv
  <2> QED
    BY <1>1, <2>4, <2>5, DueKinds
<1> QED
  BY <1>2, <1>3 DEF ListCategories

LEMMA PostInv ==
    ASSUME Inv, Post \/ \E effect \in BOOLEAN : PostFails(effect)
    PROVE  Inv'
<1> USE DEF Inv
<1>1. Due("post") /\ UNCHANGED <<sonar, config>>
  BY DEF Post, PostFails
<1>2. /\ op.kind = "create" /\ CreateOp /\ state = NoObject /\ op.plan \in Alerts
      /\ op.id = 0 /\ nextId \in 1 .. MaxId
      /\ Tail(op.todo) = IF op.plan.text = NoText THEN <<"get", "getText">>
                         ELSE <<"setText", "get", "getText">>
  <2>1. op.kind = "create" /\ CreateOp
    BY <1>1, DueKinds DEF OpInv
  <2> QED
    BY <1>1, <2>1, CreateDue DEF CreateOp, Due, TypeOK
<1>3. edits' \in Nat /\ failures' \in Nat /\ changes' \in Nat
  <2>1. CASE Post
    BY <2>1, CountersType DEF Post
  <2>2. CASE \E effect \in BOOLEAN : PostFails(effect)
    BY <2>2, CountersType DEF PostFails
  <2> QED
    BY <2>1, <2>2
<1>4. ASSUME PostEffect
      PROVE  /\ remote' \in [1 .. MaxId -> Alerts \cup {None}]
             /\ nextId' = nextId + 1
             /\ remote'[nextId] = [op.plan EXCEPT !.text = NoText]
             /\ \A id \in 1 .. MaxId : id >= nextId' => remote'[id] = None
  <2>1. [op.plan EXCEPT !.text = NoText] \in Alerts
    BY <1>2 DEF Alerts
  <2>2. \A id \in 1 .. MaxId : id >= nextId + 1 => id >= nextId /\ id # nextId
    BY <1>2
  <2> QED
    BY <1>2, <1>4, <2>1, <2>2 DEF PostEffect, TypeOK, FreshInv
<1>5. CASE Post
  <2>1. /\ Proceed(Tail(op.todo), nextId, {}) /\ suspect' = {} /\ PostEffect
    BY <1>5 DEF Post
  <2>2. /\ op' \in Ops /\ op'.todo = Tail(op.todo) /\ op'.id = nextId /\ op'.wrote = {}
        /\ op'.kind = op.kind /\ op'.plan = op.plan /\ state' = state
    <3>1. Tail(op.todo) \in Seq(Calls) /\ nextId \in 0 .. MaxId /\ {} \in SUBSET Attributes
      BY <1>1, <1>2, TailType, AlertType DEF Due
    <3> QED
      BY <2>1, <3>1, ProceedOp
  <2>3. TypeOK'
    <3>1. /\ remote' \in [1 .. MaxId -> Alerts \cup {None}]
          /\ nextId' = nextId + 1
      BY <1>4, <2>1
    <3>2. nextId' \in 1 .. MaxId + 1
      BY <1>2, <3>1, CustomAlertAssumption
    <3>3. sonar' \in BOOLEAN /\ config' \in Alerts \cup {None}
      BY <1>1 DEF TypeOK
    <3> QED
      BY <1>2, <1>3, <2>1, <2>2, <3>1, <3>2, <3>3 DEF TypeOK
  <2>4. FreshInv'
    BY <1>2, <1>4, <2>1, <2>2 DEF FreshInv, NoObject
  <2>5. op.plan.text = NoText => op'.todo \in CreateAfter'
    BY <1>2, <2>2 DEF CreateAfter
  <2>6. op.plan.text # NoText => TextDue'
    BY <1>2, <2>2 DEF TextDue
  <2>7. CreateOp'
    BY <1>2, <2>2, <2>5, <2>6 DEF CreateOp
  <2>8. CreateInv'
    BY <1>2, <1>4, <2>1, <2>2, <2>6 DEF CreateInv, Alerts, Attributes
  <2> QED
    BY <1>2, <2>2, <2>3, <2>4, <2>7, <2>8 DEF OpInv, StateInv, ReadInv, UpdateInv
<1>6. CASE \E effect \in BOOLEAN : PostFails(effect)
  <2>1. Fails({}) /\ (PostEffect \/ UNCHANGED <<remote, nextId>>)
    BY <1>6 DEF PostFails
  <2>2. /\ remote' \in [1 .. MaxId -> Alerts \cup {None}]
        /\ nextId' \in 1 .. MaxId + 1 /\ nextId' >= nextId
        /\ \A id \in 1 .. MaxId : id >= nextId' => remote'[id] = None
    <3>1. CASE PostEffect
      <4>1. /\ remote' \in [1 .. MaxId -> Alerts \cup {None}]
            /\ nextId' = nextId + 1
            /\ \A id \in 1 .. MaxId : id >= nextId' => remote'[id] = None
        BY <1>4, <3>1
      <4> QED
        BY <1>2, <4>1, CustomAlertAssumption
    <3>2. CASE UNCHANGED <<remote, nextId>>
      BY <1>2, <3>2 DEF TypeOK, FreshInv
    <3> QED
      BY <2>1, <3>1, <3>2
  <2> QED
    BY <1>1, <1>2, <1>3, <2>1, <2>2, FailsInv
<1> QED
  BY <1>5, <1>6

(* The PUT of the rule, and what an Update knows when it is made.          *)
LEMMA PutKnown ==
    ASSUME Inv, Due("clear") \/ Due("put")
    PROVE  /\ op.kind = "update" /\ UpdateOp /\ state # NoObject
           /\ op.id = state.id /\ op.id \in 1 .. MaxId /\ op.plan \in Alerts
           /\ Due("clear") => ~Cleared
           /\ Exists(op.id) =>
                /\ remote[op.id] \in Alerts /\ Put \in Alerts
                /\ Put.rule = op.plan.rule /\ Put.text = remote[op.id].text
                /\ "frameworks" \notin suspect \ Overwritten => Put.frameworks = Sent
<1> USE DEF Inv
<1>1. op.kind = "update" /\ UpdateOp
  BY DueKinds DEF OpInv
<1>2. /\ state # NoObject /\ op.id = state.id /\ op.id \in 1 .. MaxId /\ op.plan \in Alerts
      /\ UpdateStage(op.todo, op.wrote)
  BY <1>1, StateType DEF UpdateOp
<1>3. Due("clear") => ~Cleared
  <2> SUFFICES ASSUME Due("clear"), Len(op.todo) <= 2 PROVE FALSE
    BY DEF Cleared
  <2>1. Len(op.todo) = 4
    BY <1>2, UpdateDue DEF Due
  <2> QED
    BY <2>1
<1>4. ASSUME Exists(op.id)
      PROVE  /\ remote[op.id] \in Alerts /\ Put \in Alerts
             /\ Put.rule = op.plan.rule /\ Put.text = remote[op.id].text
             /\ Put.frameworks = IF Sent = {} THEN {} ELSE remote[op.id].frameworks \cup Sent
  <2>1. remote[op.id] \in Alerts /\ Sent \in SUBSET Frameworks
    BY <1>2, <1>4 DEF TypeOK, Exists, Sent, Alerts
  <2> QED
    BY <1>2, <2>1 DEF Put, Alerts
<1>5. ASSUME Exists(op.id), "frameworks" \notin suspect \ Overwritten
      PROVE  Put.frameworks = Sent
  <2>1. CASE Sent = {}
    BY <1>4, <1>5, <2>1
  <2>2. CASE Sent # {}
    <3>1. Due("put") /\ Sent = op.plan.frameworks /\ "frameworks" \notin suspect
      BY <1>5, <2>2 DEF Sent, Overwritten
    <3>2. op.wrote = (IF Clearing THEN Attributes ELSE {}) /\ Len(op.todo) = 2
      BY <1>2, <3>1, UpdateDue DEF Due
    <3>3. remote[op.id].frameworks = {}
      <4>1. CASE Clearing
        <5>1. "frameworks" \in op.wrote \ suspect
          BY <3>1, <3>2, <4>1 DEF Attributes
        <5>2. Written("frameworks") = {}
          <6>1. Len(op.todo) >= 2
            BY <3>2
          <6> QED
            BY <4>1, <6>1 DEF Written
        <5> QED
          BY <1>1, <1>5, <5>1, <5>2 DEF UpdateInv
      <4>2. CASE ~Clearing
        <5>1. state.value.frameworks = {}
          BY <2>2, <3>1, <4>2 DEF Clearing
        <5>2. "frameworks" \in Attributes \ (suspect \cup op.wrote)
          BY <3>1, <3>2, <4>2 DEF Attributes
        <5> QED
          BY <1>1, <1>2, <1>5, <5>1, <5>2 DEF StateInv
      <4> QED
        BY <4>1, <4>2
    <3> QED
      BY <1>4, <1>5, <2>2, <3>3
  <2> QED
    BY <2>1, <2>2
<1> QED
  BY <1>1, <1>2, <1>3, <1>4, <1>5

LEMMA PutRuleInv ==
    ASSUME Inv, PutRule
    PROVE  Inv'
<1> USE DEF Inv
<1>1. /\ Due("clear") \/ Due("put")
      /\ Exists(op.id)
      /\ remote' = [remote EXCEPT ![op.id] = Put]
      /\ Proceed(Tail(op.todo), op.id, op.wrote \cup {"rule", "frameworks"})
      /\ suspect' = suspect \ Overwritten
      /\ UNCHANGED <<sonar, config, nextId, edits, failures, changes>>
  BY DEF PutRule, counters
<1>2. /\ op.kind = "update" /\ UpdateOp /\ state # NoObject
      /\ op.id = state.id /\ op.id \in 1 .. MaxId /\ op.plan \in Alerts
      /\ remote[op.id] \in Alerts /\ Put \in Alerts
      /\ Put.rule = op.plan.rule /\ Put.text = remote[op.id].text
      /\ "frameworks" \notin suspect \ Overwritten => Put.frameworks = Sent
  BY <1>1, PutKnown
<1>3. /\ op' \in Ops /\ op'.todo = Tail(op.todo) /\ op'.id = op.id
      /\ op'.wrote = op.wrote \cup {"rule", "frameworks"}
      /\ op'.kind = op.kind /\ op'.plan = op.plan /\ state' = state
  <2> DEFINE wrote == op.wrote \cup {"rule", "frameworks"}
  <2>1. Tail(op.todo) \in Seq(Calls) /\ op.id \in 0 .. MaxId /\ wrote \in SUBSET Attributes
    BY <1>1, TailType, IdType DEF Due, Attributes
  <2>2. TypeOK /\ Proceed(Tail(op.todo), op.id, wrote)
    BY <1>1
  <2> HIDE DEF wrote
  <2>3. /\ op' \in Ops /\ op'.todo = Tail(op.todo) /\ op'.id = op.id /\ op'.wrote = wrote
        /\ op'.kind = op.kind /\ op'.plan = op.plan /\ state' = state
    BY <2>1, <2>2, ProceedOp
  <2> QED
    BY <2>3 DEF wrote
<1>4. remote'[op.id] = Put /\ remote' \in [1 .. MaxId -> Alerts \cup {None}]
  BY <1>1, <1>2 DEF TypeOK
<1>5. TypeOK'
  BY <1>1, <1>3, <1>4 DEF TypeOK
<1>6. FreshInv'
  BY <1>1, <1>2, <1>3 DEF FreshInv, TypeOK, Exists
<1>7. UpdateStage(op.todo, op.wrote) /\ Clearing' = Clearing
  BY <1>2, <1>3 DEF UpdateOp, Clearing
<1>8. /\ UpdateStage(op.todo, op.wrote)'
      /\ Written("frameworks")' = Sent
      /\ op.wrote = {} \/ (Clearing /\ op.wrote = Attributes)
  <2>1. CASE Due("clear")
    <3>1. Clearing /\ op.wrote = {} /\ \E call \in TextCalls : Tail(op.todo) = <<call, "put", call>>
      BY <1>7, <2>1, UpdateDue DEF Due
    <3>2. PICK call \in TextCalls : op'.todo = <<call, "put", call>>
      BY <1>3, <3>1
    <3>3. Len(op'.todo) >= 2
      <4>1. Len(op'.todo) = 3
        BY <3>2, Tuples
      <4> QED
        BY <4>1
    <3>4. Written("frameworks")' = {} /\ Sent = {}
      BY <1>7, <2>1, <3>1, <3>3 DEF Written, Sent
    <3> QED
      BY <1>3, <1>7, <3>1, <3>2, <3>4 DEF UpdateStage
  <2>2. CASE Due("put")
    <3>1. op.wrote = (IF Clearing THEN Attributes ELSE {})
          /\ \E call \in TextCalls : Tail(op.todo) = <<call>>
      BY <1>7, <2>2, UpdateDue DEF Due
    <3>2. PICK call \in TextCalls : op'.todo = <<call>>
      BY <1>3, <3>1
    <3>3. ~(Len(op'.todo) >= 2)
      <4>1. Len(op'.todo) = 1
        BY <3>2, Tuples
      <4> QED
        BY <4>1
    <3>4. ~Due("clear")
      BY <2>2 DEF Due
    <3>5. Written("frameworks")' = op.plan.frameworks /\ Sent = op.plan.frameworks
      BY <1>3, <3>3, <3>4 DEF Written, Sent
    <3>6. op'.wrote = IF Clearing THEN Attributes ELSE {"rule", "frameworks"}
      BY <1>3, <3>1 DEF Attributes
    <3> QED
      BY <1>3, <1>7, <3>1, <3>2, <3>5, <3>6 DEF UpdateStage
  <2> QED
    BY <1>1, <2>1, <2>2
<1>9. OpInv'
  BY <1>2, <1>3, <1>8 DEF OpInv, UpdateOp
<1>10. StateInv'
  <2> SUFFICES ASSUME NEW a \in Attributes \ (suspect' \cup op'.wrote)
               PROVE  remote'[state.id][a] = state.value[a]
    BY <1>3 DEF StateInv
  <2>1. a = "text" /\ a \notin suspect /\ a \notin op.wrote
    BY <1>1, <1>3 DEF Attributes, Overwritten
  <2> QED
    BY <1>1, <1>2, <1>4, <2>1 DEF StateInv
<1>11. UpdateInv'
  <2> SUFFICES ASSUME NEW a \in op'.wrote \ suspect'
               PROVE  remote'[op.id][a] = Written(a)'
    BY <1>3 DEF UpdateInv
  <2>1. CASE a = "frameworks"
    BY <1>1, <1>2, <1>4, <1>8, <2>1
  <2>2. CASE a = "rule"
    BY <1>2, <1>3, <1>4, <2>2 DEF Written
  <2>3. CASE a = "text"
    <3>1. a \in op.wrote \ suspect
      BY <1>1, <1>3, <2>3 DEF Overwritten
    <3>2. remote[op.id][a] = op.plan[a]
      BY <1>1, <1>2, <2>3, <3>1 DEF UpdateInv, Written
    <3> QED
      BY <1>2, <1>3, <1>4, <2>3, <3>2 DEF Written
  <2>4. a \in Attributes
    BY <1>3, <1>5 DEF TypeOK, Ops
  <2> QED
    BY <2>1, <2>2, <2>3, <2>4 DEF Attributes
<1> QED
  BY <1>2, <1>3, <1>5, <1>6, <1>9, <1>10, <1>11 DEF CreateInv, ReadInv

LEMMA PutRuleFailsInv ==
    ASSUME Inv, NEW effect \in BOOLEAN, PutRuleFails(effect)
    PROVE  Inv'
<1> USE DEF Inv
<1> DEFINE reached == IF effect THEN {"rule", "frameworks"} ELSE {}
<1>1. /\ Due("clear") \/ Due("put")
      /\ effect => Exists(op.id)
      /\ remote' = IF effect THEN [remote EXCEPT ![op.id] = Put] ELSE remote
      /\ Fails(reached)
      /\ UNCHANGED <<sonar, config, nextId>>
  BY DEF PutRuleFails
<1>2. edits' \in Nat /\ failures' \in Nat /\ changes' \in Nat
  <2>1. Failing(effect \/ Exists(op.id))
    BY DEF PutRuleFails
  <2> QED
    BY <2>1 DEF Failing, TypeOK
<1>3. /\ state # NoObject /\ op.id = state.id /\ op.id \in 1 .. MaxId /\ op.plan \in Alerts
      /\ Exists(op.id) =>
           /\ remote[op.id] \in Alerts /\ Put \in Alerts
           /\ Put.rule = op.plan.rule /\ Put.text = remote[op.id].text
  BY <1>1, PutKnown
<1>4. reached \in SUBSET Attributes
  BY DEF Attributes
<1>5. /\ remote' \in [1 .. MaxId -> Alerts \cup {None}]
      /\ \A id \in 1 .. MaxId : id >= nextId' => remote'[id] = None
  BY <1>1, <1>3 DEF TypeOK, FreshInv, Exists
<1>6. remote'[state.id] # None =>
        /\ Exists(state.id)
        /\ \A a \in Attributes \ reached : remote'[state.id][a] = remote[state.id][a]
        /\ \A a \in reached \ {"frameworks"} : remote'[state.id][a] = op.plan[a]
  <2>1. CASE effect
    BY <1>1, <1>3, <2>1 DEF TypeOK, Attributes
  <2>2. CASE ~effect
    BY <1>1, <2>2 DEF Exists
  <2> QED
    BY <2>1, <2>2
<1> QED
  <2> HIDE DEF reached
  <2>1. nextId' \in 1 .. MaxId + 1 /\ nextId' >= nextId
    BY <1>1 DEF TypeOK
  <2> QED
    BY <1>1, <1>2, <1>4, <1>5, <1>6, <2>1, FailsInv

-----------------------------------------------------------------------------
(* The remediation text: where it is written, and to what.                 *)
LEMMA TextKnown ==
    ASSUME Inv, \E call \in TextCalls : Due(call)
    PROVE  /\ \/ op.kind = "create" /\ CreateOp /\ state = NoObject /\ TextDue
                   /\ Tail(op.todo) = <<"get", "getText">> /\ Len(op.todo) = 3
              \/ op.kind = "update" /\ UpdateOp /\ state # NoObject /\ op.id = state.id
                   /\ UpdateStage(op.todo, op.wrote)
           /\ op.id \in 1 .. MaxId /\ op.plan \in Alerts
           /\ WithText \in [1 .. MaxId -> Alerts \cup {None}]
           /\ \A id \in 1 .. MaxId : WithText[id] = None <=> remote[id] = None
           /\ Exists(op.id) =>
                /\ remote[op.id] \in Alerts
                /\ WithText[op.id].text = op.plan.text
                /\ WithText[op.id].rule = remote[op.id].rule
                /\ WithText[op.id].frameworks = remote[op.id].frameworks
<1> USE DEF Inv
<1>1. op.todo # << >> /\ Head(op.todo) \in TextCalls
  BY DEF Due
<1>2. \/ op.kind = "create" /\ CreateOp /\ state = NoObject /\ TextDue
           /\ Tail(op.todo) = <<"get", "getText">> /\ Len(op.todo) = 3
           /\ op.id \in 1 .. MaxId
      \/ op.kind = "update" /\ UpdateOp /\ state # NoObject /\ op.id = state.id
           /\ UpdateStage(op.todo, op.wrote) /\ op.id \in 1 .. MaxId
  <2>1. op.kind \in {"create", "update"}
    BY DueKinds
  <2>2. CASE op.kind = "create"
    <3>1. CreateOp
      BY <2>2 DEF OpInv
    <3>2. Head(op.todo) \in {"setText", "addText"}
      BY <1>1, <3>1, CreateDue DEF TextCalls
    <3> QED
      BY <2>2, <3>1, <3>2, CreateDue DEF CreateOp
  <2>3. CASE op.kind = "update"
    BY <2>3, StateType DEF OpInv, UpdateOp
  <2> QED
    BY <2>1, <2>2, <2>3
<1>3. op.id \in 1 .. MaxId /\ op.plan \in Alerts
  BY <1>2 DEF CreateOp, UpdateOp
<1>4. CASE ~Exists(op.id)
  BY <1>2, <1>3, <1>4 DEF WithText, TypeOK
<1>5. CASE Exists(op.id)
  <2>1. remote[op.id] \in Alerts
    BY <1>3, <1>5 DEF TypeOK, Exists
  <2>2. WithText = [remote EXCEPT ![op.id] = [remote[op.id] EXCEPT !.text = op.plan.text]]
    BY <1>5 DEF WithText
  <2>3. [remote[op.id] EXCEPT !.text = op.plan.text] \in Alerts
    BY <1>3, <2>1 DEF Alerts
  <2> QED
    BY <1>2, <1>3, <1>5, <2>1, <2>2, <2>3, AlertType DEF TypeOK, Exists, Alerts
<1> QED
  BY <1>2, <1>3, <1>4, <1>5

LEMMA WriteTextFailsInv ==
    ASSUME Inv, NEW answer \in Failures, NEW effect \in BOOLEAN, WriteTextFails(answer, effect)
    PROVE  Inv'
<1> USE DEF Inv
<1> DEFINE reached == IF effect THEN {"text"} ELSE {}
<1>1. /\ \E call \in TextCalls : Due(call)
      /\ remote' = IF effect THEN WithText ELSE remote
      /\ Fails(reached) \/ Panics(reached)
      /\ UNCHANGED <<sonar, config, nextId>>
      /\ edits' \in Nat /\ failures' \in Nat /\ changes' \in Nat
  BY CountersType DEF WriteTextFails
<1>2. /\ state # NoObject => op.id = state.id
      /\ op.id \in 1 .. MaxId /\ op.plan \in Alerts
      /\ WithText \in [1 .. MaxId -> Alerts \cup {None}]
      /\ \A id \in 1 .. MaxId : WithText[id] = None <=> remote[id] = None
      /\ Exists(op.id) =>
           /\ remote[op.id] \in Alerts
           /\ WithText[op.id].text = op.plan.text
           /\ WithText[op.id].rule = remote[op.id].rule
           /\ WithText[op.id].frameworks = remote[op.id].frameworks
  BY <1>1, TextKnown
<1>3. reached \in SUBSET Attributes
  BY DEF Attributes
<1>4. /\ remote' \in [1 .. MaxId -> Alerts \cup {None}]
      /\ \A id \in 1 .. MaxId : id >= nextId' => remote'[id] = None
  BY <1>1, <1>2 DEF TypeOK, FreshInv
<1>5. state # NoObject /\ remote'[state.id] # None =>
        /\ Exists(state.id)
        /\ \A a \in Attributes \ reached : remote'[state.id][a] = remote[state.id][a]
        /\ \A a \in reached \ {"frameworks"} : remote'[state.id][a] = op.plan[a]
  <2>1. CASE effect
    BY <1>1, <1>2, <2>1 DEF Attributes, Exists
  <2>2. CASE ~effect
    BY <1>1, <2>2 DEF Exists
  <2> QED
    BY <2>1, <2>2
<1> QED
  <2> HIDE DEF reached
  <2>1. nextId' \in 1 .. MaxId + 1 /\ nextId' >= nextId
    BY <1>1 DEF TypeOK
  <2> QED
    BY <1>1, <1>3, <1>4, <1>5, <2>1, FailsInv

LEMMA TextIsMissingInv ==
    ASSUME Inv, TextIsMissing
    PROVE  Inv'
<1> USE DEF Inv
<1> DEFINE todo == <<"addText">> \o Tail(op.todo)
<1>1. /\ Due("setText") /\ Proceed(todo, op.id, op.wrote)
      /\ UNCHANGED <<sonar, config, remote, nextId, suspect, edits, failures, changes>>
  BY DEF TextIsMissing, counters
<1>2. \E call \in TextCalls : Due(call)
  BY <1>1 DEF TextCalls
<1>3. \/ op.kind = "create" /\ CreateOp /\ todo = <<"addText", "get", "getText">> /\ TextDue
           /\ op.id \in 1 .. MaxId
      \/ /\ op.kind = "update" /\ UpdateOp /\ UpdateStage(todo, op.wrote)
         /\ Len(todo) >= 2 <=> Len(op.todo) >= 2
  <2>1. CASE op.kind = "create" /\ CreateOp /\ TextDue /\ Tail(op.todo) = <<"get", "getText">>
    BY <1>2, <2>1, TextKnown, Concatenations
  <2>2. CASE op.kind = "update" /\ UpdateOp /\ UpdateStage(op.todo, op.wrote)
    <3>1. CASE /\ Clearing /\ op.wrote = {"rule", "frameworks"} /\ Len(op.todo) = 3
               /\ \E call \in TextCalls : Tail(op.todo) = <<"put", call>>
      <4>1. PICK call \in TextCalls : Tail(op.todo) = <<"put", call>>
        BY <3>1
      <4>2. todo = <<"addText", "put", call>> /\ "addText" \in TextCalls
        BY <4>1, Concatenations DEF TextCalls
      <4>3. Len(todo) = 3
        BY <4>2, Tuples
      <4>4. UpdateStage(todo, op.wrote)
        BY <3>1, <4>2 DEF UpdateStage
      <4> QED
        BY <2>2, <3>1, <4>3, <4>4
    <3>2. CASE /\ op.wrote = IF Clearing THEN Attributes ELSE {"rule", "frameworks"}
               /\ Len(op.todo) = 1 /\ Tail(op.todo) = << >>
      <4>1. todo = <<"addText">> /\ "addText" \in TextCalls
        BY <3>2, Concatenations DEF TextCalls
      <4>2. Len(todo) = 1
        BY <4>1, Tuples
      <4>3. UpdateStage(todo, op.wrote)
        BY <3>2, <4>1 DEF UpdateStage
      <4> QED
        BY <2>2, <3>2, <4>2, <4>3
    <3>3. Head(op.todo) \in TextCalls
      BY <1>1 DEF Due, TextCalls
    <3> QED
      BY <2>2, <3>1, <3>2, <3>3, UpdateDue
  <2> QED
    BY <1>2, <2>1, <2>2, TextKnown
<1>4. todo \in Seq(Calls)
  <2>1. Tail(op.todo) \in Seq(Calls) /\ <<"addText">> \in Seq(Calls)
    BY <1>1, TailType DEF Due, Calls
  <2> QED
    BY <2>1, ConcatProperties
<1> HIDE DEF todo
<1>5. /\ op' \in Ops /\ op'.todo = todo /\ op'.id = op.id /\ op'.wrote = op.wrote
      /\ op'.kind = op.kind /\ op'.plan = op.plan /\ state' = state
  BY <1>1, <1>4, IdType, ProceedOp
<1>6. TypeOK'
  BY <1>1, <1>5 DEF TypeOK
<1>7. FreshInv'
  BY <1>1, <1>5 DEF FreshInv
<1>8. CASE op.kind = "create" /\ CreateOp /\ todo = <<"addText", "get", "getText">> /\ TextDue
             /\ op.id \in 1 .. MaxId
  <2>1. TextDue'
    BY <1>5, <1>8 DEF TextDue
  <2>2. op.plan.text # NoText
    <3>1. Head(op.todo) = "setText"
      BY <1>1 DEF Due
    <3> QED
      BY <1>8, <3>1, CreateDue
  <2>3. CreateOp'
    BY <1>1, <1>5, <1>8, <2>1, <2>2 DEF CreateOp
  <2>4. CreateInv'
    BY <1>1, <1>5, <1>8, <2>1 DEF CreateInv, Exists
  <2> QED
    BY <1>5, <1>6, <1>7, <1>8, <2>3, <2>4 DEF OpInv, StateInv, ReadInv, UpdateInv
<1>9. CASE /\ op.kind = "update" /\ UpdateOp /\ UpdateStage(todo, op.wrote)
           /\ Len(todo) >= 2 <=> Len(op.todo) >= 2
  <2>1. Clearing' = Clearing
    BY <1>5 DEF Clearing
  <2>2. UpdateStage(op.todo, op.wrote)'
    BY <1>5, <1>9, <2>1 DEF UpdateStage
  <2>3. UpdateOp'
    BY <1>5, <1>9, <2>2 DEF UpdateOp
  <2>4. \A a \in Attributes : Written(a)' = Written(a)
    BY <1>5, <1>9, <2>1 DEF Written
  <2>5. UpdateInv'
    BY <1>1, <1>5, <1>9, <2>4, IdType DEF UpdateInv, Exists
  <2>6. StateInv'
    BY <1>1, <1>5 DEF StateInv, Exists
  <2> QED
    BY <1>5, <1>6, <1>7, <1>9, <2>3, <2>5, <2>6 DEF OpInv, CreateInv, ReadInv
<1> QED
  BY <1>3, <1>8, <1>9

LEMMA WriteTextInv ==
    ASSUME Inv, WriteText
    PROVE  Inv'
<1> USE DEF Inv
<1>1. /\ \E call \in TextCalls : Due(call)
      /\ remote' = WithText
      /\ suspect' = suspect \ {"text"}
      /\ UNCHANGED <<sonar, config, nextId, edits, failures, changes>>
  BY DEF WriteText, counters
<1>2. /\ \/ op.kind = "create" /\ CreateOp /\ state = NoObject /\ TextDue
              /\ Tail(op.todo) = <<"get", "getText">> /\ Len(op.todo) = 3
         \/ op.kind = "update" /\ UpdateOp /\ state # NoObject /\ op.id = state.id
              /\ UpdateStage(op.todo, op.wrote)
      /\ op.id \in 1 .. MaxId /\ op.plan \in Alerts
      /\ WithText \in [1 .. MaxId -> Alerts \cup {None}]
      /\ \A id \in 1 .. MaxId : WithText[id] = None <=> remote[id] = None
      /\ Exists(op.id) =>
           /\ remote[op.id] \in Alerts
           /\ WithText[op.id].text = op.plan.text
           /\ WithText[op.id].rule = remote[op.id].rule
           /\ WithText[op.id].frameworks = remote[op.id].frameworks
  BY <1>1, TextKnown
<1>3. ASSUME Len(op.todo) # 1
      PROVE  /\ op' \in Ops /\ op'.todo = Tail(op.todo) /\ op'.id = op.id
             /\ op'.wrote = op.wrote \cup {"text"}
             /\ op'.kind = op.kind /\ op'.plan = op.plan /\ state' = state
  <2> DEFINE wrote == op.wrote \cup {"text"}
  <2>1. Tail(op.todo) \in Seq(Calls) /\ op.id \in 0 .. MaxId /\ wrote \in SUBSET Attributes
    BY <1>1, TailType, IdType DEF Due, Attributes
  <2>2. TypeOK /\ Proceed(Tail(op.todo), op.id, wrote)
    BY <1>3 DEF WriteText
  <2> HIDE DEF wrote
  <2>3. /\ op' \in Ops /\ op'.todo = Tail(op.todo) /\ op'.id = op.id /\ op'.wrote = wrote
        /\ op'.kind = op.kind /\ op'.plan = op.plan /\ state' = state
    BY <2>1, <2>2, ProceedOp
  <2> QED
    BY <2>3 DEF wrote
<1>4. CASE op.kind = "create" /\ CreateOp /\ state = NoObject /\ TextDue
             /\ Tail(op.todo) = <<"get", "getText">> /\ Len(op.todo) = 3
  <2>1. /\ op' \in Ops /\ op'.todo = <<"get", "getText">> /\ op'.id = op.id
        /\ op'.kind = "create" /\ op'.plan = op.plan /\ state' = state
    <3>1. Len(op.todo) # 1
      BY <1>4
    <3> QED
      BY <1>3, <1>4, <3>1
  <2>2. ~TextDue' /\ op'.todo \in CreateAfter'
    BY <2>1, Tuples DEF TextDue, CreateAfter
  <2>3. CreateOp'
    BY <1>2, <1>4, <2>1, <2>2 DEF CreateOp
  <2>4. CreateInv'
    <3> SUFFICES ASSUME remote'[op.id] # None, NEW a \in Attributes \ suspect'
                 PROVE  remote'[op.id][a] = op.plan[a]
      BY <2>1, <2>2 DEF CreateInv, Exists
    <3>1. Exists(op.id)
      BY <1>1, <1>2 DEF Exists
    <3>2. a # "text" => remote[op.id][a] = op.plan[a]
      BY <1>1, <1>2, <1>4, <3>1 DEF CreateInv
    <3> QED
      BY <1>1, <1>2, <3>1, <3>2 DEF Attributes
  <2>5. TypeOK'
    BY <1>1, <1>2, <2>1 DEF TypeOK
  <2>6. FreshInv'
    BY <1>1, <1>2, <2>1 DEF FreshInv
  <2> QED
    BY <2>1, <2>3, <2>4, <2>5, <2>6 DEF OpInv, StateInv, ReadInv, UpdateInv
<1>5. CASE /\ op.kind = "update" /\ UpdateOp /\ state # NoObject /\ op.id = state.id
           /\ Clearing /\ op.wrote = {"rule", "frameworks"} /\ Len(op.todo) = 3
           /\ \E call \in TextCalls : Tail(op.todo) = <<"put", call>>
  <2>1. PICK call \in TextCalls : Tail(op.todo) = <<"put", call>>
    BY <1>5
  <2>2. /\ op' \in Ops /\ op'.todo = <<"put", call>> /\ op'.id = op.id /\ op'.wrote = Attributes
        /\ op'.kind = "update" /\ op'.plan = op.plan /\ state' = state
    <3>1. Len(op.todo) # 1
      BY <1>5
    <3>2. op.wrote \cup {"text"} = Attributes
      BY <1>5 DEF Attributes
    <3> QED
      BY <1>3, <1>5, <2>1, <3>1, <3>2
  <2>3. Clearing' /\ Len(op.todo) >= 2 /\ Len(op'.todo) >= 2
    <3>1. Len(op'.todo) = 2
      BY <2>2, Tuples
    <3> QED
      BY <1>5, <2>2, <3>1 DEF Clearing
  <2>4. UpdateStage(op.todo, op.wrote)'
    BY <2>2, <2>3 DEF UpdateStage
  <2>5. UpdateOp'
    BY <1>2, <1>5, <2>2, <2>4 DEF UpdateOp
  <2>6. UpdateInv'
    <3> SUFFICES ASSUME remote'[op.id] # None, NEW a \in Attributes \ suspect'
                 PROVE  remote'[op.id][a] = Written(a)'
      BY <2>2 DEF UpdateInv, Exists
    <3>1. Exists(op.id)
      BY <1>1, <1>2 DEF Exists
    <3>2. CASE a = "text"
      BY <1>1, <1>2, <2>2, <3>1, <3>2 DEF Written
    <3>3. CASE a # "text"
      <4>1. remote[op.id][a] = Written(a)
        BY <1>1, <1>5, <3>1, <3>3 DEF UpdateInv, Attributes
      <4>2. Written(a)' = Written(a)
        BY <1>5, <2>2, <2>3 DEF Written
      <4> QED
        BY <1>1, <1>2, <3>1, <3>3, <4>1, <4>2 DEF Attributes
    <3> QED
      BY <3>2, <3>3
  <2>7. TypeOK'
    BY <1>1, <1>2, <2>2 DEF TypeOK
  <2>8. FreshInv'
    BY <1>1, <1>2, <2>2 DEF FreshInv
  <2> QED
    BY <2>2, <2>5, <2>6, <2>7, <2>8 DEF OpInv, StateInv, CreateInv, ReadInv
<1>6. CASE /\ op.kind = "update" /\ UpdateOp /\ state # NoObject /\ op.id = state.id
           /\ op.wrote = IF Clearing THEN Attributes ELSE {"rule", "frameworks"}
           /\ Len(op.todo) = 1
  <2>1. op' = [NoOp EXCEPT !.kind = "none"] /\ state' = [id |-> op.id, value |-> op.plan]
    BY <1>6, NoneIsNoOp DEF WriteText, EndsWith
  <2>2. /\ op' \in Ops /\ op'.kind = "none" /\ op'.id = 0 /\ op'.wrote = {}
        /\ OpInv' /\ CreateInv' /\ ReadInv' /\ UpdateInv'
    BY <2>1, Ended
  <2>3. TypeOK'
    BY <1>1, <1>2, <2>1, <2>2 DEF TypeOK
  <2>4. FreshInv'
    BY <1>1, <1>2, <2>1, <2>2 DEF FreshInv, TypeOK
  <2>5. StateInv'
    <3> SUFFICES ASSUME remote'[op.id] # None, NEW a \in Attributes \ suspect'
                 PROVE  remote'[op.id][a] = op.plan[a]
      BY <2>1, <2>2 DEF StateInv, Exists
    <3>1. Exists(op.id)
      BY <1>1, <1>2 DEF Exists
    <3>2. CASE a = "text"
      BY <1>1, <1>2, <3>1, <3>2
    <3>3. CASE a # "text"
      <4>1. a \in op.wrote \ suspect
        BY <1>1, <1>6, <3>3 DEF Attributes
      <4>2. ~(Len(op.todo) >= 2)
        BY <1>6
      <4>3. remote[op.id][a] = op.plan[a]
        BY <1>6, <3>1, <4>1, <4>2 DEF UpdateInv, Written
      <4> QED
        BY <1>1, <1>2, <3>1, <3>3, <4>3 DEF Attributes
    <3> QED
      BY <3>2, <3>3
  <2> QED
    BY <2>2, <2>3, <2>4, <2>5
<1>7. Head(op.todo) \in TextCalls
  BY <1>1 DEF Due
<1> QED
  BY <1>2, <1>4, <1>5, <1>6, <1>7, UpdateDue

-----------------------------------------------------------------------------
(* The reads.                                                              *)
LEMMA DoesAlertExistInv ==
    ASSUME Inv, NEW answer \in Answers, DoesAlertExist(answer)
    PROVE  Inv'
<1> USE DEF Inv
<1>1. /\ Due("head") /\ UNCHANGED <<sonar, config, remote, nextId>>
      /\ edits' \in Nat /\ failures' \in Nat /\ changes' \in Nat
  <2>1. Due("head") /\ UNCHANGED <<sonar, config, remote, nextId>>
    BY DEF DoesAlertExist
  <2>2. Failing(answer \in IF Exists(op.id) THEN Failures ELSE Failures \ {"broken"})
    BY DEF DoesAlertExist
  <2> QED
    BY <2>1, <2>2 DEF Failing, TypeOK
<1>2. \/ answer = "found" /\ Proceed(Tail(op.todo), op.id, {}) /\ UNCHANGED suspect
      \/ Removes
      \/ Fails({}) \/ Panics({})
  BY DEF DoesAlertExist
<1>3. CASE Removes
  BY <1>1, <1>3, RemovesInv DEF TypeOK
<1>4. CASE Fails({}) \/ Panics({})
  BY <1>1, <1>4, FailsInv DEF TypeOK, FreshInv, Exists
<1>5. CASE Proceed(Tail(op.todo), op.id, {}) /\ UNCHANGED suspect
  <2>1. op.kind \in {"read", "import"} /\ ReadOp
    BY <1>1, DueKinds DEF OpInv
  <2>2. Tail(op.todo) = <<"get", "getText">> /\ op.wrote = {}
    BY <1>1, <2>1, ReadDue DEF Due
  <2>3. /\ op' \in Ops /\ op'.todo = Tail(op.todo) /\ op'.id = op.id /\ op'.wrote = {}
        /\ op'.kind = op.kind /\ op'.plan = op.plan /\ state' = state
    <3>1. Tail(op.todo) \in Seq(Calls) /\ op.id \in 0 .. MaxId /\ {} \in SUBSET Attributes
      BY <1>1, TailType, IdType DEF Due
    <3> QED
      BY <1>5, <3>1, ProceedOp
  <2>4. op'.todo # <<"getText">> /\ op'.todo \in ReadTodos
    BY <2>2, <2>3, Tuples DEF ReadTodos
  <2>5. ReadOp'
    BY <2>1, <2>3, <2>4 DEF ReadOp, ReadTodos
  <2>6. TypeOK'
    BY <1>1, <1>5, <2>3 DEF TypeOK
  <2>7. FreshInv'
    BY <1>1, <2>3 DEF FreshInv
  <2>8. StateInv'
    BY <1>1, <1>5, <2>1, <2>2, <2>3 DEF StateInv, Exists
  <2> QED
    BY <2>1, <2>3, <2>4, <2>5, <2>6, <2>7, <2>8 DEF OpInv, CreateInv, ReadInv, UpdateInv
<1> QED
  BY <1>2, <1>3, <1>4, <1>5

LEMMA GetAlertInv ==
    ASSUME Inv, NEW answer \in Answers, GetAlert(answer)
    PROVE  Inv'
<1> USE DEF Inv
<1> DEFINE fresh == IF op.kind = "create" THEN {} ELSE suspect \cap Shown
<1>1. /\ Due("get") /\ UNCHANGED <<sonar, config, remote, nextId>>
      /\ edits' \in Nat /\ failures' \in Nat /\ changes' \in Nat
  <2>1. Due("get") /\ UNCHANGED <<sonar, config, remote, nextId>>
    BY DEF GetAlert
  <2>2. Failing(answer \in IF Exists(op.id) THEN Failures ELSE {"denied", "silent"})
    BY DEF GetAlert
  <2> QED
    BY <2>1, <2>2 DEF Failing, TypeOK
<1>2. \/ /\ Exists(op.id)
         /\ op' = [op EXCEPT !.todo = Tail(@), !.got = remote[op.id], !.wrote = fresh]
         /\ suspect' = suspect \ fresh
         /\ UNCHANGED state
      \/ Fails({}) \/ Panics({})
  BY DEF GetAlert, Failures
<1>3. CASE Fails({}) \/ Panics({})
  BY <1>1, <1>3, FailsInv DEF TypeOK, FreshInv, Exists
<1>4. CASE /\ Exists(op.id)
           /\ op' = [op EXCEPT !.todo = Tail(@), !.got = remote[op.id], !.wrote = fresh]
           /\ suspect' = suspect \ fresh
           /\ UNCHANGED state
  <2>1. \/ op.kind = "create" /\ CreateOp /\ Tail(op.todo) = <<"getText">> /\ ~TextDue
        \/ op.kind \in {"read", "import"} /\ ReadOp /\ Tail(op.todo) = <<"getText">>
             /\ op.wrote = {}
    <3>1. op.kind \in {"create", "read", "import"}
      BY <1>1, DueKinds
    <3>2. CASE op.kind = "create"
      BY <1>1, <3>2, CreateDue DEF Due, OpInv
    <3>3. CASE op.kind \in {"read", "import"}
      BY <1>1, <3>3, ReadDue DEF Due, OpInv
    <3> QED
      BY <3>1, <3>2, <3>3
  <2>2. op.id \in 1 .. MaxId
    <3>1. CASE op.kind = "create"
      BY <1>1, <2>1, <3>1, CreateDue DEF Due
    <3>2. CASE op.kind \in {"read", "import"}
      BY <2>1, <3>2, StateType DEF ReadOp
    <3> QED
      BY <2>1, <3>1, <3>2
  <2>3. remote[op.id] \in Alerts
    BY <1>4, <2>2 DEF TypeOK, Exists
  <2>4. /\ op' \in Ops /\ op'.todo = <<"getText">> /\ op'.id = op.id /\ op'.wrote = fresh
        /\ op'.kind = op.kind /\ op'.plan = op.plan /\ op'.got = remote[op.id]
    <3>1. Tail(op.todo) \in Seq(Calls) /\ fresh \in SUBSET Attributes
      BY <1>1, TailType DEF Due, TypeOK
    <3>2. Tail(op.todo) = <<"getText">>
      BY <2>1
    <3> HIDE DEF fresh
    <3> QED
      BY <1>4, <2>3, <3>1, <3>2 DEF TypeOK, Ops
  <2>5. TypeOK'
    BY <1>1, <1>4, <2>4 DEF TypeOK
  <2>6. FreshInv'
    BY <1>1, <1>4, <2>4 DEF FreshInv
  <2>7. CASE op.kind = "create"
    <3>1. ~TextDue'
      BY <2>4, Tuples DEF TextDue
    <3>2. CreateOp'
      BY <1>4, <2>1, <2>2, <2>4, <2>7 DEF CreateOp, CreateAfter
    <3>3. CreateInv'
      BY <1>1, <1>4, <2>1, <2>2, <2>4, <2>7, <3>1 DEF CreateInv, Exists
    <3> QED
      BY <2>4, <2>5, <2>6, <2>7, <3>2, <3>3 DEF OpInv, StateInv, ReadInv, UpdateInv
  <2>8. CASE op.kind \in {"read", "import"} /\ ReadOp /\ op.wrote = {}
    <3>1. Shown' = Shown
      BY <1>1, <2>4 DEF Shown
    <3>2. ReadOp'
      BY <1>4, <2>3, <2>4, <2>8, <3>1 DEF ReadOp, ReadTodos
    <3>3. ReadInv'
      BY <1>1, <2>4 DEF ReadInv
    <3>4. StateInv'
      BY <1>1, <1>4, <2>4, <2>8 DEF StateInv, Exists
    <3> QED
      BY <2>4, <2>5, <2>6, <2>8, <3>2, <3>3, <3>4 DEF OpInv, CreateInv, UpdateInv
  <2> QED
    BY <2>1, <2>7, <2>8
<1> QED
  BY <1>2, <1>3, <1>4

LEMMA GetTextInv ==
    ASSUME Inv, GetText
    PROVE  Inv'
<1> USE DEF Inv
<1> DEFINE value == IF op.kind = "create" THEN op.plan
                    ELSE Refreshed(op.plan, [op.got EXCEPT !.text = Text])
<1>1. /\ Due("getText")
      /\ EndsWith(value)
      /\ suspect' = IF op.kind # "create" /\ (Text # NoText \/ op.plan.text = NoText)
                    THEN suspect \ {"text"} ELSE suspect
      /\ UNCHANGED <<sonar, config, remote, nextId, edits, failures, changes>>
  BY DEF GetText, counters
<1>2. \/ op.kind = "create" /\ CreateOp /\ ~TextDue
      \/ op.kind \in {"read", "import"} /\ ReadOp /\ op.todo = <<"getText">>
  <2>1. op.kind \in {"create", "read", "import"}
    BY <1>1, DueKinds
  <2>2. CASE op.kind = "create"
    BY <1>1, <2>2, CreateDue DEF Due, OpInv
  <2>3. CASE op.kind \in {"read", "import"}
    BY <1>1, <2>3, ReadDue DEF Due, OpInv
  <2> QED
    BY <2>1, <2>2, <2>3
<1>3. op.id \in 1 .. MaxId
  <2>1. CASE op.kind = "create"
    BY <1>1, <1>2, <2>1, CreateDue DEF Due
  <2>2. CASE op.kind # "create"
    BY <1>2, <2>2, StateType DEF ReadOp
  <2> QED
    BY <2>1, <2>2
<1>4. Text \in Texts \cup {NoText} /\ (Exists(op.id) => Text = remote[op.id].text)
  <2>1. CASE Exists(op.id)
    BY <1>3, <2>1, AlertType DEF Text, TypeOK, Exists
  <2>2. CASE ~Exists(op.id)
    BY <2>2 DEF Text
  <2> QED
    BY <2>1, <2>2
<1>5. ASSUME op.kind # "create"
      PROVE  /\ op.got \in Alerts /\ op.plan.text \in Texts \cup {NoText}
             /\ \/ op.kind = "read" /\ state # NoObject /\ op.id = state.id
                     /\ op.plan = state.value /\ op.plan \in Alerts
                \/ op.kind = "import" /\ op.plan.rule = Unset /\ op.plan.text = NoText
             /\ value.rule = IF sonar \/ op.plan.rule = Unset THEN op.got.rule ELSE op.plan.rule
             /\ value.frameworks = op.got.frameworks
             /\ value.text = IF Text = NoText THEN op.plan.text ELSE Text
             /\ value \in Alerts
  <2>1. op.got \in Alerts
    BY <1>2, <1>5 DEF ReadOp
  <2>2. \/ op.kind = "read" /\ state # NoObject /\ op.id = state.id
             /\ op.plan = state.value /\ op.plan \in Alerts
        \/ op.kind = "import" /\ op.plan.rule = Unset /\ op.plan.text = NoText
    BY <1>2, <1>5, StateType DEF ReadOp, Blank
  <2>3. op.plan.text \in Texts \cup {NoText}
    BY <2>2, AlertType
  <2>4. [op.got EXCEPT !.text = Text].rule = op.got.rule
        /\ [op.got EXCEPT !.text = Text].frameworks = op.got.frameworks
        /\ [op.got EXCEPT !.text = Text].text = Text
    BY <2>1 DEF Alerts
  <2>5. value = [rule |-> IF sonar \/ op.plan.rule = Unset THEN op.got.rule ELSE op.plan.rule,
                 frameworks |-> op.got.frameworks,
                 text |-> IF Text = NoText THEN op.plan.text ELSE Text]
    BY <1>5, <2>4 DEF Refreshed
  <2>6. (IF sonar \/ op.plan.rule = Unset THEN op.got.rule ELSE op.plan.rule) \in Rules
    BY <2>1, <2>2, AlertType
  <2>7. value \in Alerts
    BY <1>4, <2>1, <2>3, <2>5, <2>6, AlertType
  <2> QED
    BY <2>1, <2>2, <2>3, <2>5, <2>7
<1>6. value \in Alerts
  <2>1. CASE op.kind = "create"
    BY <1>2, <2>1 DEF CreateOp
  <2> QED
    BY <1>5, <2>1
<1>7. \A a \in Attributes \ suspect' : Exists(op.id) => remote[op.id][a] = value[a]
  <2> SUFFICES ASSUME NEW a \in Attributes \ suspect', Exists(op.id)
               PROVE  remote[op.id][a] = value[a]
    OBVIOUS
  <2>1. CASE op.kind = "create"
    BY <1>1, <1>2, <1>3, <2>1 DEF CreateInv
  <2>2. CASE op.kind # "create"
    <3>1. op.kind \in {"read", "import"} /\ ReadOp /\ op.todo = <<"getText">>
          /\ op.wrote \subseteq Shown
      BY <1>2, <2>2 DEF ReadOp
    <3>2. a \in {"rule", "frameworks"} => a \notin suspect /\ remote[op.id][a] = op.got[a]
      BY <1>1, <3>1 DEF ReadInv
    <3>3. CASE a = "frameworks"
      BY <1>5, <2>2, <3>2, <3>3
    <3>4. CASE a = "rule"
      <4>1. CASE sonar \/ op.plan.rule = Unset
        BY <1>5, <2>2, <3>2, <3>4, <4>1
      <4>2. CASE ~(sonar \/ op.plan.rule = Unset)
        <5>1. a \in Attributes \ (suspect \cup op.wrote)
          BY <3>1, <3>2, <3>4, <4>2 DEF Shown, Attributes
        <5>2. op.kind = "read" /\ state # NoObject /\ op.id = state.id /\ op.plan = state.value
          BY <1>5, <2>2, <4>2
        <5>3. remote[op.id][a] = op.plan[a]
          BY <5>1, <5>2 DEF StateInv
        <5> QED
          BY <1>5, <2>2, <3>4, <4>2, <5>3
      <4> QED
        BY <4>1, <4>2
    <3>5. CASE a = "text"
      <4>1. CASE Text # NoText \/ op.plan.text = NoText
        BY <1>4, <1>5, <2>2, <3>5, <4>1
      <4>2. CASE ~(Text # NoText \/ op.plan.text = NoText)
        <5>1. a \in Attributes \ (suspect \cup op.wrote)
          BY <1>1, <3>1, <3>5, <4>2 DEF Shown
        <5>2. op.kind = "read" /\ state # NoObject /\ op.id = state.id /\ op.plan = state.value
          BY <1>5, <2>2, <4>2
        <5>3. remote[op.id][a] = op.plan[a]
          BY <5>1, <5>2 DEF StateInv
        <5> QED
          BY <1>5, <2>2, <3>5, <4>2, <5>3
      <4> QED
        BY <4>1, <4>2
    <3> QED
      BY <3>3, <3>4, <3>5 DEF Attributes
  <2> QED
    BY <2>1, <2>2
<1> HIDE DEF value
<1>8. op' = [NoOp EXCEPT !.kind = "none"] /\ state' = [id |-> op.id, value |-> value]
  BY <1>1, NoneIsNoOp DEF EndsWith
<1>9. /\ op' \in Ops /\ op'.kind = "none" /\ op'.id = 0 /\ op'.wrote = {}
      /\ OpInv' /\ CreateInv' /\ ReadInv' /\ UpdateInv'
  BY <1>8, Ended
<1>10. TypeOK'
  BY <1>1, <1>3, <1>6, <1>8, <1>9 DEF TypeOK
<1>11. FreshInv'
  BY <1>1, <1>8, <1>9 DEF FreshInv, TypeOK
<1>12. StateInv'
  BY <1>1, <1>7, <1>8, <1>9 DEF StateInv, Exists
<1> QED
  BY <1>9, <1>10, <1>11, <1>12

LEMMA GetTextFailsInv ==
    ASSUME Inv, NEW answer \in Failures, GetTextFails(answer)
    PROVE  Inv'
<1> USE DEF Inv
<1>1. /\ UNCHANGED <<sonar, config, remote, nextId>> /\ (Fails({}) \/ Panics({}))
      /\ edits' \in Nat /\ failures' \in Nat /\ changes' \in Nat
  BY CountersType DEF GetTextFails
<1> QED
  BY <1>1, FailsInv DEF TypeOK, FreshInv, Exists

-----------------------------------------------------------------------------
LEMMA DeleteAlertInv ==
    ASSUME Inv, NEW answer \in Answers, NEW effect \in BOOLEAN, DeleteAlert(answer, effect)
    PROVE  Inv'
<1> USE DEF Inv
<1>1. /\ UNCHANGED <<sonar, config, nextId>>
      /\ edits' \in Nat /\ failures' \in Nat /\ changes' \in Nat
      /\ remote' = [remote EXCEPT ![op.id] = None] \/ remote' = remote
      /\ Removes \/ Fails({})
  <2>1. Failing(answer \in Failures)
    BY DEF DeleteAlert
  <2> QED
    BY <2>1 DEF DeleteAlert, Failing, TypeOK
<1>2. /\ remote' \in [1 .. MaxId -> Alerts \cup {None}]
      /\ \A id \in 1 .. MaxId : remote'[id] # None => remote'[id] = remote[id]
  BY <1>1 DEF TypeOK
<1>3. CASE Removes
  BY <1>1, <1>2, <1>3, RemovesInv
<1>4. CASE Fails({})
  <2>1. /\ nextId' \in 1 .. MaxId + 1 /\ nextId' >= nextId
        /\ \A id \in 1 .. MaxId : id >= nextId' => remote'[id] = None
    BY <1>1, <1>2 DEF TypeOK, FreshInv
  <2>2. state # NoObject /\ remote'[state.id] # None =>
          /\ Exists(state.id)
          /\ \A a \in Attributes \ {} : remote'[state.id][a] = remote[state.id][a]
    BY <1>2, StateType DEF Exists
  <2> QED
    BY <1>1, <1>2, <1>4, <2>1, <2>2, FailsInv
<1> QED
  BY <1>1, <1>3, <1>4

LEMMA RestartInv ==
    ASSUME Inv, Restart
    PROVE  Inv'
<1> USE DEF Inv
<1>1. /\ op.kind = "crashed" /\ op' = [NoOp EXCEPT !.kind = "none"]
      /\ UNCHANGED <<sonar, config, state, remote, nextId, suspect, edits, failures, changes>>
  BY NoneIsNoOp DEF Restart, counters
<1>2. /\ op' \in Ops /\ op'.kind = "none" /\ op'.id = 0 /\ op'.wrote = {}
      /\ OpInv' /\ CreateInv' /\ ReadInv' /\ UpdateInv'
  BY <1>1, Ended
<1>3. op.wrote = {}
  BY <1>1 DEF OpInv, NoOp
<1> QED
  BY <1>1, <1>2, <1>3 DEF TypeOK, FreshInv, StateInv, Exists

-----------------------------------------------------------------------------
LEMMA NextInv ==
    ASSUME Inv, [Next]_vars
    PROVE  Inv'
<1>1. CASE UNCHANGED vars
  <2>1. /\ UNCHANGED <<sonar, state, op, nextId>> /\ remote' = remote /\ suspect' = suspect
        /\ config' = config /\ edits' = edits /\ failures' = failures /\ changes' = changes
    BY <1>1 DEF vars
  <2> QED
    BY <2>1, OutsideInv DEF Inv, TypeOK
<1>2. CASE Apply \/ BeginRead
  BY <1>2, BeginCreateInv, BeginUpdateInv, BeginDeleteInv, BeginReadInv DEF Apply
<1>3. CASE Environment
  BY <1>3, EnvironmentInv
<1>4. CASE Handler
  BY <1>4, ListCategoriesInv, PostInv, PutRuleInv, PutRuleFailsInv, TextIsMissingInv,
     WriteTextInv, WriteTextFailsInv, DoesAlertExistInv, GetAlertInv, GetTextInv,
     GetTextFailsInv, DeleteAlertInv, RestartInv DEF Handler
<1> QED
  BY <1>1, <1>2, <1>3, <1>4 DEF Next

(* Every state a run reaches satisfies the invariant.                      *)
THEOREM Invariance == Spec => []Inv
<1>1. Init => Inv
  BY InitInv
<1>2. Inv /\ [Next]_vars => Inv'
  BY NextInv
<1> QED
  BY <1>1, <1>2, PTL DEF Spec

(* The variables keep their types, for any bounds.                         *)
THEOREM TypeCorrect == Spec => []TypeOK
<1>1. Inv => TypeOK
  BY DEF Inv
<1> QED
  BY <1>1, Invariance, PTL

(* Whichever calls of an update fail, with or without effect, and whatever *)
(* the console does: the state says what the service has of every          *)
(* attribute that nobody else, and no call that failed, has touched since. *)
THEOREM Exactness == Spec => []StateIsExact
<1>1. Inv => StateIsExact
  <2> SUFFICES ASSUME Inv, Idle, state # NoObject, Exists(state.id)
               PROVE  \A a \in Attributes \ suspect : state.value[a] = remote[state.id][a]
    BY DEF StateIsExact
  <2>1. op.wrote = {} /\ op.kind # "create"
    BY DEF Inv, OpInv, Idle, NoOp
  <2> QED
    BY <2>1 DEF Inv, StateInv
<1> QED
  BY <1>1, Invariance, PTL

(* ReplaceFrameworks is what it takes: at no moment of an update do        *)
(* frameworks of the old plan mix with those of the new one.               *)
THEOREM FrameworksNeverMix == Spec => []NeverMixed
<1>1. Inv => NeverMixed
  <2> SUFFICES ASSUME Inv, op.kind = "update", Exists(op.id), "frameworks" \notin suspect
               PROVE  remote[op.id].frameworks \in
                        {state.value.frameworks, {}, op.plan.frameworks}
    BY DEF NeverMixed
  <2>1. CASE "frameworks" \in op.wrote
    BY <2>1 DEF Inv, UpdateInv, Written
  <2>2. CASE "frameworks" \notin op.wrote
    BY <2>2 DEF Inv, StateInv, OpInv, UpdateOp, Attributes
  <2> QED
    BY <2>1, <2>2
<1> QED
  BY <1>1, Invariance, PTL

-----------------------------------------------------------------------------
(* NeverLost, in two halves: what happens to an alert that is tracked, and *)
(* to one that is made.                                                    *)
Kept ==
    \A id \in 1 .. MaxId : Tracked(id) /\ Exists(id) /\ Exists(id)' =>
        \/ Tracked(id)'
        \/ failures' > failures /\ (op.kind = "create" \/ Due("head"))
NoneMade ==
    \A id \in 1 .. MaxId : ~Exists(id) /\ Exists(id)' => Tracked(id)' \/ failures' > failures

(* The handler goes on, or has not begun.                                  *)
LEMMA GoesOnKeeps ==
    ASSUME UNCHANGED state, op.kind = "create" => op'.kind = "create" /\ op'.id = op.id
    PROVE  Kept
BY DEF Kept, Tracked

(* The handler ends in success.                                            *)
LEMMA EndsKeeps ==
    ASSUME Inv, op.kind \in {"create", "read", "update", "import"}, NEW value, EndsWith(value)
    PROVE  Kept
<1>1. state'.id = op.id
  BY DEF EndsWith
<1>2. \A id \in 1 .. MaxId : Tracked(id) => id = op.id
  <2>1. state.id = op.id \/ state = NoObject
    BY DEF Inv, OpInv, CreateOp, ReadOp, UpdateOp
  <2> QED
    BY <2>1, StateType DEF Inv, Tracked
<1> QED
  BY <1>1, <1>2 DEF Kept, Tracked

(* The handler ends in an error.                                           *)
LEMMA FailsKeeps ==
    ASSUME Inv, NEW reached, Fails(reached) \/ Panics(reached),
           op.kind = "create" /\ Exists(op.id) => failures' > failures
    PROVE  Kept
<1>1. state'.id = state.id
  BY DEF Fails, Panics, Cleared, AfterFailure, Inv, OpInv, UpdateOp
<1> QED
  BY <1>1 DEF Kept, Tracked

(* Alerts that are there are written, or deleted.                          *)
LEMMA ChangeMakesNone ==
    ASSUME TypeOK, NEW id \in 0 .. MaxId, NEW value,
           (remote' = [remote EXCEPT ![id] = value] /\ Exists(id)) \/ remote' = remote
    PROVE  NoneMade
BY DEF NoneMade, TypeOK, Exists

LEMMA Counted ==
    ASSUME TypeOK, NEW failed, failed, Failing(failed)
    PROVE  failures' > failures
BY DEF Failing, TypeOK

LEMMA PostKeeps ==
    ASSUME Inv, Post \/ \E effect \in BOOLEAN : PostFails(effect)
    PROVE  Kept /\ NoneMade
<1>1. Due("post") /\ TypeOK
  BY DEF Post, PostFails, Inv
<1>2. op.kind = "create" /\ op.id = 0 /\ state = NoObject /\ nextId \in 1 .. MaxId
  <2>1. op.kind = "create" /\ CreateOp
    BY <1>1, DueKinds DEF Inv, OpInv
  <2> QED
    BY <1>1, <2>1, CreateDue DEF CreateOp, Due, TypeOK
<1>3. Kept
  BY <1>2, StateType DEF Kept, Tracked, Inv
<1>4. CASE Post
  <2>1. op'.id = nextId /\ op'.kind = "create"
    BY <1>1, <1>2, <1>4 DEF Post, Proceed, TypeOK, Ops
  <2>2. \A id \in 1 .. MaxId : id # nextId => remote'[id] = remote[id]
    BY <1>1, <1>4 DEF Post, PostEffect, TypeOK
  <2> QED
    BY <1>3, <2>1, <2>2 DEF NoneMade, Exists, Tracked
<1>5. CASE \E effect \in BOOLEAN : PostFails(effect)
  <2>1. Failing(TRUE)
    BY <1>5 DEF PostFails
  <2> QED
    BY <1>1, <1>3, <2>1, Counted DEF NoneMade
<1> QED
  BY <1>4, <1>5

LEMMA PutKeeps ==
    ASSUME Inv, PutRule \/ \E effect \in BOOLEAN : PutRuleFails(effect)
    PROVE  Kept /\ NoneMade
<1>1. TypeOK /\ (Due("clear") \/ Due("put"))
  BY DEF Inv, PutRule, PutRuleFails
<1>2. op.kind = "update" /\ op.id \in 0 .. MaxId
  BY <1>1, DueKinds, IdType DEF Inv
<1>3. CASE PutRule
  <2>1. UNCHANGED state /\ remote' = [remote EXCEPT ![op.id] = Put] /\ Exists(op.id)
    BY <1>3 DEF PutRule, Proceed
  <2> QED
    BY <1>1, <1>2, <2>1, GoesOnKeeps, ChangeMakesNone
<1>4. CASE \E effect \in BOOLEAN : PutRuleFails(effect)
  <2>1. PICK effect \in BOOLEAN : PutRuleFails(effect)
    BY <1>4
  <2>2. /\ Fails(IF effect THEN {"rule", "frameworks"} ELSE {})
        /\ (remote' = [remote EXCEPT ![op.id] = Put] /\ Exists(op.id)) \/ remote' = remote
    BY <2>1 DEF PutRuleFails
  <2>3. Kept
    BY <1>2, <2>2, FailsKeeps
  <2> QED
    BY <1>1, <1>2, <2>2, <2>3, ChangeMakesNone
<1> QED
  BY <1>3, <1>4

LEMMA TextKeeps ==
    ASSUME Inv,
           \/ TextIsMissing \/ WriteText
           \/ \E answer \in Failures, effect \in BOOLEAN : WriteTextFails(answer, effect)
    PROVE  Kept /\ NoneMade
<1>1. TypeOK /\ \E call \in TextCalls : Due(call)
  BY DEF Inv, TextIsMissing, WriteText, WriteTextFails, TextCalls
<1>2. op.kind \in {"create", "update"}
  BY <1>1, DueKinds DEF Inv
<1>3. remote' = WithText \/ remote' = remote
  BY DEF TextIsMissing, WriteText, WriteTextFails
<1>4. NoneMade
  BY <1>1, <1>3, TextKnown DEF NoneMade, Exists
<1>5. CASE TextIsMissing
  <2>1. UNCHANGED state /\ op'.kind = op.kind /\ op'.id = op.id
    BY <1>1, <1>5 DEF TextIsMissing, Proceed, TypeOK, Ops
  <2> QED
    BY <1>4, <2>1, GoesOnKeeps
<1>6. CASE WriteText
  <2>1. CASE EndsWith(op.plan)
    BY <1>2, <1>4, <2>1, EndsKeeps
  <2>2. CASE Proceed(Tail(op.todo), op.id, op.wrote \cup {"text"})
    <3>1. UNCHANGED state /\ op'.kind = op.kind /\ op'.id = op.id
      BY <1>1, <2>2 DEF Proceed, TypeOK, Ops
    <3> QED
      BY <1>4, <3>1, GoesOnKeeps
  <2> QED
    BY <1>6, <2>1, <2>2 DEF WriteText
<1>7. CASE \E answer \in Failures, effect \in BOOLEAN : WriteTextFails(answer, effect)
  <2>1. PICK answer \in Failures, effect \in BOOLEAN : WriteTextFails(answer, effect)
    BY <1>7
  <2>2. \E reached : Fails(reached) \/ Panics(reached)
    BY <2>1 DEF WriteTextFails
  <2>3. failures' > failures
    BY <1>1, <2>1, Counted DEF WriteTextFails
  <2> QED
    BY <1>4, <2>2, <2>3, FailsKeeps
<1> QED
  BY <1>5, <1>6, <1>7

LEMMA ReadsKeep ==
    ASSUME Inv,
           \/ \E failed \in BOOLEAN : ListCategories(failed)
           \/ \E answer \in Answers : DoesAlertExist(answer) \/ GetAlert(answer)
           \/ GetText
           \/ \E answer \in Failures : GetTextFails(answer)
    PROVE  Kept /\ NoneMade
<1>1. TypeOK /\ remote' = remote
  BY DEF Inv, ListCategories, DoesAlertExist, GetAlert, GetText, GetTextFails
<1>2. NoneMade
  BY <1>1 DEF NoneMade, Exists
<1>3. ASSUME NEW failed \in BOOLEAN, ListCategories(failed) PROVE Kept
  <2>1. CASE failed
    <3>1. Fails({}) /\ failures' > failures
      BY <1>1, <1>3, <2>1, Counted DEF ListCategories
    <3> QED
      BY <3>1, FailsKeeps
  <2>2. CASE ~failed
    <3>1. UNCHANGED state /\ op'.kind = op.kind /\ op'.id = op.id
      BY <1>1, <1>3, <2>2 DEF ListCategories, Proceed, TypeOK, Ops
    <3> QED
      BY <3>1, GoesOnKeeps
  <2> QED
    BY <2>1, <2>2
<1>4. ASSUME NEW answer \in Answers, DoesAlertExist(answer) PROVE Kept
  <2>1. Due("head") /\ op.kind \in {"read", "import"} /\ ReadOp
    BY <1>4, DueKinds DEF DoesAlertExist, Inv, OpInv
  <2>2. CASE answer = "found"
    <3>1. UNCHANGED state /\ op'.kind = op.kind /\ op'.id = op.id
      BY <1>1, <1>4, <2>2 DEF DoesAlertExist, Proceed, TypeOK, Ops
    <3> QED
      BY <3>1, GoesOnKeeps
  <2>3. CASE Fails({}) \/ Panics({})
    BY <2>1, <2>3, FailsKeeps
  <2>4. CASE answer \in {"missing", "broken"}
    <3>1. CASE Exists(op.id)
      <4>1. answer \in Failures
        BY <1>4, <2>4, <3>1 DEF DoesAlertExist, Failures
      <4>2. failures' > failures
        BY <1>1, <1>4, <3>1, <4>1, Counted DEF DoesAlertExist
      <4> QED
        BY <2>1, <4>2 DEF Kept
    <3>2. CASE ~Exists(op.id)
      BY <1>1, <2>1, <3>2, StateType DEF ReadOp, Kept, Tracked
    <3> QED
      BY <3>1, <3>2
  <2> QED
    BY <1>4, <2>2, <2>3, <2>4 DEF DoesAlertExist
<1>5. ASSUME NEW answer \in Answers, GetAlert(answer) PROVE Kept
  <2>1. CASE answer = "found"
    <3>1. UNCHANGED state /\ op'.kind = op.kind /\ op'.id = op.id
      BY <1>1, <1>5, <2>1 DEF GetAlert, TypeOK, Ops
    <3> QED
      BY <3>1, GoesOnKeeps
  <2>2. CASE answer # "found"
    <3>1. Fails({}) \/ Panics({})
      BY <1>5, <2>2 DEF GetAlert
    <3>2. Exists(op.id) => failures' > failures
      <4> SUFFICES ASSUME Exists(op.id) PROVE failures' > failures
        OBVIOUS
      <4>1. answer \in Failures
        BY <1>5, <2>2 DEF GetAlert
      <4> QED
        BY <1>1, <1>5, <4>1, Counted DEF GetAlert
    <3> QED
      BY <3>1, <3>2, FailsKeeps
  <2> QED
    BY <2>1, <2>2
<1>6. ASSUME GetText PROVE Kept
  <2>1. \E value : EndsWith(value)
    BY <1>6 DEF GetText
  <2>2. op.kind \in {"create", "read", "import"}
    BY <1>6, DueKinds DEF GetText, Inv
  <2> QED
    BY <2>1, <2>2, EndsKeeps
<1>7. ASSUME NEW answer \in Failures, GetTextFails(answer) PROVE Kept
  <2>1. (Fails({}) \/ Panics({})) /\ failures' > failures
    BY <1>1, <1>7, Counted DEF GetTextFails
  <2> QED
    BY <2>1, FailsKeeps
<1> QED
  BY <1>2, <1>3, <1>4, <1>5, <1>6, <1>7

LEMMA DeleteKeeps ==
    ASSUME Inv, NEW answer \in Answers, NEW effect \in BOOLEAN, DeleteAlert(answer, effect)
    PROVE  Kept /\ NoneMade
<1>1. /\ TypeOK /\ Due("delete")
      /\ answer = "found" => effect
      /\ effect => Exists(op.id)
      /\ remote' = IF effect THEN [remote EXCEPT ![op.id] = None] ELSE remote
      /\ IF answer = "found" THEN Removes ELSE Fails({})
  BY DEF Inv, DeleteAlert
<1>2. op.kind = "delete" /\ op.id = state.id /\ op.id \in 1 .. MaxId
  BY <1>1, DueKinds, StateType DEF Inv, OpInv, DeleteOp
<1>3. NoneMade
  BY <1>1, <1>2 DEF NoneMade, TypeOK, Exists
<1>4. CASE answer = "found"
  <2>1. remote'[op.id] = None
    BY <1>1, <1>2, <1>4 DEF TypeOK
  <2>2. \A id \in 1 .. MaxId : Tracked(id) => id = op.id
    BY <1>2 DEF Tracked
  <2> QED
    BY <1>3, <2>1, <2>2 DEF Kept, Exists
<1>5. CASE answer # "found"
  BY <1>1, <1>2, <1>3, <1>5, FailsKeeps
<1> QED
  BY <1>4, <1>5

(* An alert is lost only by a call of Create that fails after the POST, or *)
(* by the HEAD of a Read, which takes a 500 for an alert that is gone.     *)
THEOREM AlertsAreKept == Spec => NeverLost
<1>1. Inv /\ [Next]_vars => Kept /\ NoneMade
  <2> SUFFICES ASSUME Inv, [Next]_vars PROVE Kept /\ NoneMade
    OBVIOUS
  <2>1. CASE UNCHANGED vars
    BY <2>1 DEF vars, Kept, NoneMade, Tracked, Exists
  <2>2. CASE Apply \/ BeginRead \/ Environment \/ Restart
    <3>1. UNCHANGED state
      BY <2>2 DEF Apply, BeginCreate, BeginUpdate, BeginDelete, BeginRead, Environment, EditConfig,
         Import, DeleteOutside, ChangeOutside, Restart
    <3>2. op.kind # "create" \/ op' = op
      BY <2>2 DEF Apply, BeginCreate, BeginUpdate, BeginDelete, BeginRead, Environment, EditConfig,
         Import, DeleteOutside, ChangeOutside, Restart, Idle
    <3>3. \A id \in 1 .. MaxId : remote'[id] # None => remote[id] # None
      <4>1. \/ remote' = remote
            \/ \E id \in 1 .. MaxId : remote' = [remote EXCEPT ![id] = None]
            \/ \E id \in {state.id, op.id} \ {0} : \E attribute, value :
                  Exists(id) /\ remote' = [remote EXCEPT ![id][attribute] = value]
        BY <2>2 DEF Apply, BeginCreate, BeginUpdate, BeginDelete, BeginRead, Environment, EditConfig,
           Import, DeleteOutside, ChangeOutside, Restart
      <4> QED
        BY <4>1 DEF Inv, TypeOK, Exists
    <3> QED
      BY <3>1, <3>2, <3>3, GoesOnKeeps DEF NoneMade, Exists
  <2>3. CASE Handler
    BY <2>2, <2>3, PostKeeps, PutKeeps, TextKeeps, ReadsKeep, DeleteKeeps DEF Handler
  <2> QED
    BY <2>1, <2>2, <2>3 DEF Next
<1>2. Kept /\ NoneMade =>
        \A id \in 1 .. MaxId :
          /\ Tracked(id) /\ Exists(id) /\ Exists(id)' =>
               \/ Tracked(id)'
               \/ failures' > failures /\ (op.kind = "create" \/ Due("head"))
          /\ ~Exists(id) /\ Exists(id)' => Tracked(id)' \/ failures' > failures
  BY DEF Kept, NoneMade
<1> QED
  BY <1>1, <1>2, Invariance, PTL DEF Spec, NeverLost
===============================================================================
