------------------------- MODULE ShiftLeftPolicyProofs -------------------------
(***************************************************************************)
(* Proofs about ShiftLeftPolicy, for any controls, catalogs and            *)
(* configurations: what is stored is what the service has (StateIsExact),  *)
(* and a policy is not lost (NeverLost).                                   *)
(***************************************************************************)
EXTENDS ShiftLeftPolicy, FiniteSetTheorems, TLAPS

(* Which calls a handler may have left, and what goes with them: what it   *)
(* is about, and what Terraform tracks meanwhile.                          *)
Writing == {"expand", "enrich", "write"}

OpInv ==
    \/ op = NoOp
    \/ /\ op.kind = "create" /\ op.pc \in Writing
       /\ op.plan \in Plans /\ state = None /\ nextId <= MaxId
    \/ /\ op.kind = "update" /\ op.pc \in Writing \cup {"verify"}
       /\ op.plan \in Plans /\ state # None /\ op.id = state.id
       /\ op.plan.type = state.plan.type
    \/ /\ op.kind = "read" /\ op.pc \in {"head", "get"}
       /\ state # None /\ op.id = state.id /\ op.plan = state.plan
    \/ /\ op.kind = "import" /\ op.pc \in {"head", "get"}
       /\ state = None /\ op.id # 0 /\ op.plan = None
    \/ /\ op.kind = "delete" /\ op.pc = "delete"
       /\ state # None /\ op.id = state.id

(* A control that may be sent: as those that the service may have.         *)
Sound(control, type) ==
    /\ control.title = Null => control.id = Null
    /\ type = "scm_posture" => control.id # Null /\ control.title = control.id

(* What the handler sends, as far as it has got.                           *)
SendInv ==
    /\ op.pc \in Writing => op.plan \in Plans
    /\ op.pc = "expand" => op.plan.all
    /\ op.pc = "enrich" =>
          IF op.plan.all THEN op.stale \/ op.controls = scopeEntries
          ELSE op.controls = op.plan.controls
    /\ op.pc = "write" =>
          /\ \A i \in DOMAIN op.controls : Sound(op.controls[i], op.plan.type)
          /\ op.stale \/ HasAll([controls |-> op.controls], op.plan)

(* The type of a policy does not change.                                   *)
TypeKept == state # None /\ Exists(state.id) => remote[state.id].type = state.plan.type

(* What is stored is what the service has, but while an update is between  *)
(* its two calls: then what it has is what will be stored.                 *)
StoredInv ==
    ~drifted =>
        /\ op.pc = "verify" /\ Exists(op.id) => Exact(remote[op.id], op.plan)
        /\ op.pc # "verify" /\ state # None /\ Exists(state.id) =>
              Exact(remote[state.id], state.plan)
        /\ op.kind = "import" /\ Exists(op.id) => Completed(remote[op.id])

IInv == TypeOK /\ OpInv /\ SendInv /\ TypeKept /\ StoredInv

-----------------------------------------------------------------------------
(* Sequences and sets.                                                     *)

(* A sequence of the elements of a finite set, each once, has them all.    *)
LEMMA ToSetOfSetToSeqs ==
  ASSUME NEW S, IsFiniteSet(S), NEW s \in SetToSeqs(S)
  PROVE  s \in Seq(S) /\ ToSet(s) = S
<1> DEFINE n == Cardinality(S)
<1>1. n \in Nat
  BY FS_CardinalityType
<1>2. s \in [1 .. n -> S] /\ \A i, j \in 1 .. n : i # j => s[i] # s[j]
  BY DEF SetToSeqs
<1>3. s \in Injection(1 .. n, S)
  BY <1>2 DEF Injection, IsInjective
<1>4. Cardinality(1 .. n) = Cardinality(S)
  <2> HIDE DEF n
  <2>1. 1 \in Int /\ n \in Int
    BY <1>1
  <2>2. Cardinality(1 .. n) = n
    BY <1>1, <2>1, FS_Interval
  <2> QED
    BY <2>2 DEF n
<1>5. s \in Surjection(1 .. n, S)
  BY <1>3, <1>4, FS_Injection
<1> HIDE DEF n
<1>6. s \in Seq(S) /\ DOMAIN s = 1 .. n
  BY <1>1, <1>2
<1> QED
  BY <1>5, <1>6 DEF ToSet, Surjection

(* The elements of a sequence are finitely many.                           *)
LEMMA ToSetFinite ==
  ASSUME NEW S, NEW s \in Seq(S)
  PROVE  ToSet(s) \subseteq S /\ IsFiniteSet(ToSet(s))
<1>1. ToSet(s) \subseteq S
  BY DEF ToSet
<1>2. s \in [1 .. Len(s) -> ToSet(s)] /\ DOMAIN s = 1 .. Len(s)
  BY DEF ToSet
<1>3. s \in Surjection(1 .. Len(s), ToSet(s))
  BY <1>2 DEF Surjection, ToSet
<1>4. IsFiniteSet(1 .. Len(s))
  <2>1. 1 \in Int /\ Len(s) \in Int
    OBVIOUS
  <2> QED
    BY <2>1, FS_Interval
<1> QED
  BY <1>1, <1>3, <1>4, FS_Surjection

(* RemoveAt takes one element out.                                         *)
LEMMA RemovedIsPart ==
  ASSUME NEW S, NEW s \in Seq(S), NEW i \in DOMAIN s
  PROVE  /\ RemoveAt(s, i) \in Seq(S)
         /\ \A j \in DOMAIN RemoveAt(s, i) : \E k \in DOMAIN s : RemoveAt(s, i)[j] = s[k]
<1> DEFINE left == SubSeq(s, 1, i - 1)
           right == SubSeq(s, i + 1, Len(s))
<1>1. i \in 1 .. Len(s) /\ Len(s) \in Nat
  OBVIOUS
<1>2. left \in Seq(S) /\ Len(left) = i - 1 /\ \A j \in 1 .. i - 1 : left[j] = s[j]
  BY <1>1
<1>3. /\ right \in Seq(S) /\ Len(right) = Len(s) - i
      /\ \A j \in 1 .. Len(s) - i : right[j] = s[i + j]
  BY <1>1
<1> HIDE DEF left, right
<1>4. RemoveAt(s, i) = left \o right
  BY DEF RemoveAt, left, right
<1>5. left \o right \in Seq(S)
  BY <1>2, <1>3
<1>6. ASSUME NEW j \in DOMAIN (left \o right)
      PROVE  \E k \in DOMAIN s : (left \o right)[j] = s[k]
  <2>1. j \in 1 .. Len(s) - 1
    BY <1>1, <1>2, <1>3
  <2>2. CASE j <= i - 1
    BY <1>1, <1>2, <1>3, <2>1, <2>2
  <2>3. CASE j > i - 1
    <3>1. j - (i - 1) \in 1 .. Len(s) - i
      BY <1>1, <2>1, <2>3
    <3>2. (left \o right)[j] = right[j - (i - 1)]
      BY <1>1, <1>2, <1>3, <2>1, <2>3
    <3>3. i + (j - (i - 1)) = j + 1 /\ j + 1 \in DOMAIN s
      BY <1>1, <2>1
    <3> QED
      BY <1>3, <3>1, <3>2, <3>3
  <2> QED
    BY <1>1, <2>1, <2>2, <2>3
<1> QED
  BY <1>4, <1>5, <1>6

-----------------------------------------------------------------------------
(* What is sent.                                                           *)

LEMMA Markers ==
  /\ Null \notin Names /\ Null \notin Values /\ Empty \notin Values /\ Null # Empty
  /\ Base \in Values /\ Base # Null
  /\ None \notin Plans /\ None \notin Policies /\ None \notin States
  BY ShiftLeftPolicyAssumption

LEMMA KnownNames ==
  ASSUME catalog \in Catalogs
  PROVE  catalog \in Seq(Names) /\ Known \subseteq Names /\ Null \notin Known
<1>1. catalog \in Seq(Names)
  BY ShiftLeftPolicyAssumption
<1> QED
  BY <1>1, Markers, ToSetFinite DEF Known

(* What the catalog gives is a list of controls, each of which it knows.   *)
LEMMA ScopeEntriesType ==
  ASSUME catalog \in Catalogs
  PROVE  /\ scopeEntries \in Seq(Controls) /\ DOMAIN scopeEntries = DOMAIN catalog
         /\ \A i \in DOMAIN catalog :
               /\ scopeEntries[i].id = catalog[i] /\ catalog[i] \in Known
               /\ scopeEntries[i].title = Null
<1>1. catalog \in Seq(Names)
  BY KnownNames
<1>2. \A i \in DOMAIN catalog : catalog[i] \in Names /\ catalog[i] \in Known
  BY <1>1 DEF Known, ToSet
<1>3. \A i \in DOMAIN catalog :
         [id |-> catalog[i], title |-> Null, level |-> Base, cond |-> Null] \in Controls
  BY <1>2, Markers DEF Controls
<1>4. scopeEntries \in [1 .. Len(catalog) -> Controls]
  BY <1>1, <1>3 DEF scopeEntries
<1>5. scopeEntries \in Seq(Controls)
  BY <1>1, <1>4
<1> QED
  BY <1>2, <1>5 DEF scopeEntries

(* A control that is completed from the catalog has all that is            *)
(* configured, and the service may have it.                                *)
LEMMA EnrichedHas ==
  ASSUME catalog \in Catalogs, NEW control \in Controls, control.id \in Known \cup {Null}
  PROVE  Enriched(control) \in Controls /\ Has(Enriched(control), control)
<1> DEFINE name == Named(control)
<1>1. name \in Names \cup {Null} /\ Null \notin Known /\ Known \subseteq Names
  BY KnownNames DEF Named, Controls
<1>2. CASE name \in Known
  <2> DEFINE e == [id |-> name,
                   title |-> IF control.title = Null THEN name ELSE control.title,
                   level |-> control.level,
                   cond |-> IF control.cond = Null THEN Base ELSE control.cond]
  <2>1. Enriched(control) = e
    BY <1>2 DEF Enriched
  <2>2. e \in Controls
    BY <1>1, <1>2, Markers DEF Controls
  <2>3. control.id # Null => control.id = name
    BY DEF Named
  <2>4. control.title = Null => control.id = name
    BY <1>1, <1>2 DEF Named
  <2> HIDE DEF name
  <2>5. Has(e, control)
    BY <1>1, <1>2, <2>3, <2>4, Markers DEF Has, Controls
  <2> QED
    BY <2>1, <2>2, <2>5
<1>3. CASE name \notin Known
  <2>1. control.id = Null
    BY <1>3 DEF Named
  <2> DEFINE e == [control EXCEPT !.id = name]
  <2>2. Enriched(control) = e
    BY <1>3 DEF Enriched
  <2> HIDE DEF name
  <2>3. /\ e \in Controls
        /\ e.id = name /\ e.title = control.title /\ e.level = control.level
        /\ e.cond = control.cond
    BY <1>1 DEF Controls
  <2> HIDE DEF e
  <2>4. Has(e, control)
    BY <1>3, <2>1, <2>3 DEF Has, Controls
  <2> QED
    BY <2>2, <2>3, <2>4
<1> QED
  BY <1>2, <1>3

LEMMA EnrichedSound ==
  ASSUME catalog \in Catalogs, NEW control \in Controls, control.id \in Known \cup {Null},
         NEW type, type = "scm_posture" => control.id # Null /\ control.title = Null
  PROVE  Sound(Enriched(control), type)
<1> DEFINE name == Named(control)
<1>1. Null \notin Known /\ Known \subseteq Names
  BY KnownNames
<1>2. CASE name \in Known
  <2> DEFINE e == [id |-> name,
                   title |-> IF control.title = Null THEN name ELSE control.title,
                   level |-> control.level,
                   cond |-> IF control.cond = Null THEN Base ELSE control.cond]
  <2>1. Enriched(control) = e
    BY <1>2 DEF Enriched
  <2>2. name # Null
    BY <1>1, <1>2
  <2> HIDE DEF name
  <2>3. Sound(e, type)
    BY <2>2 DEF Sound
  <2> QED
    BY <2>1, <2>3
<1>3. CASE name \notin Known
  <2>1. control.id = Null /\ name = control.title
    BY <1>3 DEF Named
  <2> DEFINE e == [control EXCEPT !.id = name]
  <2>2. Enriched(control) = e
    BY <1>3 DEF Enriched
  <2>3. e.id = control.title /\ e.title = control.title
    BY <2>1 DEF Controls
  <2> HIDE DEF e
  <2>4. Sound(e, type)
    BY <2>1, <2>3 DEF Sound
  <2> QED
    BY <2>2, <2>4
<1> QED
  BY <1>2, <1>3

(* When all is done, the controls that are sent are those of the plan, or  *)
(* all of the catalog.                                                     *)
EnrichedList(controls) == [i \in DOMAIN controls |-> Enriched(controls[i])]

LEMMA EnrichedListType ==
  ASSUME catalog \in Catalogs, NEW controls \in Seq(Controls), ~UnknownId(controls)
  PROVE  /\ EnrichedList(controls) \in Seq(Controls)
         /\ DOMAIN EnrichedList(controls) = DOMAIN controls
         /\ \A i \in DOMAIN controls :
               /\ EnrichedList(controls)[i] = Enriched(controls[i])
               /\ controls[i] \in Controls /\ controls[i].id \in Known \cup {Null}
<1>1. \A i \in DOMAIN controls : controls[i] \in Controls /\ controls[i].id \in Known \cup {Null}
  BY DEF UnknownId
<1>2. \A i \in DOMAIN controls : Enriched(controls[i]) \in Controls
  BY <1>1, EnrichedHas
<1>3. EnrichedList(controls) \in [1 .. Len(controls) -> Controls]
  BY <1>2 DEF EnrichedList
<1> QED
  BY <1>1, <1>3 DEF EnrichedList

LEMMA EnrichedConfigured ==
  ASSUME catalog \in Catalogs, NEW plan \in Plans, ~plan.all, ~UnknownId(plan.controls)
  PROVE  HasAll([controls |-> EnrichedList(plan.controls)], plan)
<1>1. plan.controls \in Seq(Controls)
  BY DEF Plans
<1> DEFINE sent == EnrichedList(plan.controls)
<1>2. /\ sent \in Seq(Controls) /\ DOMAIN sent = DOMAIN plan.controls
      /\ \A i \in DOMAIN plan.controls : Has(sent[i], plan.controls[i])
  BY <1>1, EnrichedListType, EnrichedHas
<1> HIDE DEF sent
<1>3. Len(sent) = Len(plan.controls)
  BY <1>1, <1>2
<1>4. HasAll([controls |-> sent], plan)
  BY <1>2, <1>3 DEF HasAll
<1> QED
  BY <1>4 DEF sent

LEMMA EnrichedCatalog ==
  ASSUME catalog \in Catalogs, NEW plan \in Plans, plan.all
  PROVE  HasAll([controls |-> EnrichedList(scopeEntries)], plan)
<1>1. /\ scopeEntries \in Seq(Controls) /\ DOMAIN scopeEntries = DOMAIN catalog
      /\ catalog \in Seq(Names)
      /\ \A i \in DOMAIN catalog : scopeEntries[i].id = catalog[i] /\ catalog[i] \in Known
  BY ScopeEntriesType, KnownNames
<1>2. ~UnknownId(scopeEntries)
  BY <1>1 DEF UnknownId
<1> DEFINE sent == EnrichedList(scopeEntries)
<1>3. /\ sent \in Seq(Controls) /\ DOMAIN sent = DOMAIN catalog
      /\ \A i \in DOMAIN catalog : Has(sent[i], scopeEntries[i])
  BY <1>1, <1>2, EnrichedListType, EnrichedHas
<1>4. \A i \in DOMAIN catalog : sent[i].id = catalog[i]
  <2> SUFFICES ASSUME NEW i \in DOMAIN catalog
               PROVE  sent[i].id = catalog[i]
    OBVIOUS
  <2>1. Has(sent[i], scopeEntries[i])
    BY <1>3
  <2>2. scopeEntries[i].id = catalog[i] /\ catalog[i] # Null
    BY <1>1, KnownNames
  <2> HIDE DEF sent
  <2> QED
    BY <2>1, <2>2 DEF Has
<1> HIDE DEF sent
<1>5. Len(sent) = Len(catalog)
  BY <1>1, <1>3
<1>6. {sent[i].id : i \in DOMAIN sent} = Known
  BY <1>3, <1>4 DEF Known, ToSet
<1>7. HasAll([controls |-> sent], plan)
  BY <1>5, <1>6 DEF HasAll
<1> QED
  BY <1>7 DEF sent

(* What the service has after a write is a policy that is exact as soon as *)
(* the controls sent were the right ones.                                  *)
LEMMA WrittenIs ==
  ASSUME NEW plan \in Plans, NEW controls \in Seq(Controls),
         \A i \in DOMAIN controls : Sound(controls[i], plan.type),
         NEW projects \in Values \cup {Null}, NEW new \in Written(plan, controls, projects)
  PROVE  /\ new \in Policies /\ new.type = plan.type /\ ~new.builtin
         /\ HasAll([controls |-> controls], plan) => Exact(new, plan)
<1>1. /\ plan.type \in Types /\ plan.description \in Values \cup {Null, Empty}
      /\ plan.projects \in Values \cup {Null} /\ plan.scope \in Seq(Values)
  BY DEF Plans
<1>2. PICK p \in IF plan.projects = Null THEN {Null, projects} ELSE {plan.projects} :
         new = [type |-> plan.type, builtin |-> FALSE, description |-> plan.description,
                projects |-> p, controls |-> controls, scope |-> ToSet(plan.scope)]
  BY DEF Written
<1>3. /\ new.type = plan.type /\ ~new.builtin /\ new.description = plan.description
      /\ new.projects = p /\ new.controls = controls /\ new.scope = ToSet(plan.scope)
  BY <1>2
<1>4. ToSet(plan.scope) \subseteq Values /\ IsFiniteSet(ToSet(plan.scope))
  BY <1>1, ToSetFinite
<1>5. p \in Values \cup {Null}
  BY <1>1, <1>2
<1>6. new \in [type : Types, builtin : BOOLEAN, description : Values \cup {Null, Empty},
              projects : Values \cup {Null}, controls : Seq(Controls), scope : SUBSET Values]
  BY <1>1, <1>2, <1>4, <1>5
<1>7. new \in Policies
  BY <1>3, <1>4, <1>6 DEF Policies, Sound
<1>8. ASSUME HasAll([controls |-> controls], plan)
      PROVE  Exact(new, plan)
  <2>1. HasAll(new, plan)
    BY <1>3, <1>8 DEF HasAll
  <2> QED
    BY <1>2, <1>3, <2>1 DEF Exact
<1> QED
  BY <1>3, <1>7, <1>8

-----------------------------------------------------------------------------
(* What is stored.                                                         *)

LEMMA PolicyHas ==
  ASSUME NEW policy \in Policies
  PROVE  /\ policy.type \in Types /\ policy.builtin \in BOOLEAN
         /\ policy.description \in Values \cup {Null, Empty}
         /\ policy.projects \in Values \cup {Null}
         /\ policy.controls \in Seq(Controls)
         /\ policy.scope \subseteq Values /\ IsFiniteSet(policy.scope)
         /\ \A i \in DOMAIN policy.controls :
               policy.controls[i] \in Controls /\ Sound(policy.controls[i], policy.type)
  BY DEF Policies, Sound

LEMMA PlanHas ==
  ASSUME NEW plan \in Plans
  PROVE  /\ plan.type \in Types /\ plan.all \in BOOLEAN
         /\ plan.description \in Values \cup {Null, Empty}
         /\ plan.projects \in Values \cup {Null}
         /\ plan.controls \in Seq(Controls)
         /\ plan.scope \in Seq(Values)
         /\ \A i \in DOMAIN plan.controls : plan.controls[i] \in Controls
         /\ plan.type = "scm_posture" =>
               /\ ~plan.all
               /\ \A i \in DOMAIN plan.controls :
                     plan.controls[i].id # Null /\ plan.controls[i].title = Null
  BY DEF Plans

(* A control of the service in the place of one that it has: it still has  *)
(* what is stored.                                                         *)
LEMMA MergedHas ==
  ASSUME NEW dst \in Controls, NEW src \in Controls
  PROVE  /\ mergeBaseControlFromPlan(dst, src) \in Controls
         /\ Has(dst, src) => Has(dst, mergeBaseControlFromPlan(dst, src))
<1> DEFINE m == mergeBaseControlFromPlan(dst, src)
<1>1. m \in Controls
  BY DEF Controls, mergeBaseControlFromPlan
<1>2. /\ m.id = src.id /\ m.level = src.level
      /\ m.title = IF src.title = Null THEN Null ELSE dst.title
      /\ m.cond = IF src.cond = Null THEN Null ELSE dst.cond
  BY DEF mergeBaseControlFromPlan
<1> HIDE DEF m
<1>3. Has(dst, src) => Has(dst, m)
  BY <1>2 DEF Has
<1> QED
  BY <1>1, <1>3 DEF m

LEMMA ScmHas ==
  ASSUME NEW dst \in Controls, Sound(dst, "scm_posture")
  PROVE  /\ mapToScmControl(dst) \in Controls
         /\ mapToScmControl(dst).id # Null /\ mapToScmControl(dst).title = Null
         /\ (dst.id \in Known => dst.cond # Null) => Has(dst, mapToScmControl(dst))
<1> DEFINE m == mapToScmControl(dst)
<1>1. /\ m \in Controls
      /\ m.id = dst.id /\ m.level = dst.level /\ m.cond = dst.cond /\ m.title = Null
  BY DEF Controls, mapToScmControl
<1> HIDE DEF m
<1>2. dst.id # Null /\ dst.title = dst.id
  BY DEF Sound
<1>3. (dst.id \in Known => dst.cond # Null) => Has(dst, m)
  BY <1>1, <1>2 DEF Has
<1> QED
  BY <1>1, <1>2, <1>3 DEF m

(* The controls that Read stores, of any type of policy.                   *)
StoredControls(policy, prior) ==
    CASE policy.type = "scm_posture" ->
           [i \in DOMAIN policy.controls |-> mapToScmControl(policy.controls[i])]
      [] policy.type = "section" /\ prior # None /\ prior.all -> << >>
      [] OTHER -> IF prior = None THEN policy.controls
                  ELSE mergeControls(policy.controls, prior.controls)

LEMMA StoredControlsType ==
  ASSUME NEW policy \in Policies, NEW prior \in Plans \cup {None}
  PROVE  /\ StoredControls(policy, prior) \in Seq(Controls)
         /\ policy.type = "scm_posture" =>
               \A i \in DOMAIN StoredControls(policy, prior) :
                  /\ StoredControls(policy, prior)[i].id # Null
                  /\ StoredControls(policy, prior)[i].title = Null
<1>1. policy.controls \in Seq(Controls) /\ policy.type \in {"section", "scm_posture"}
  BY PolicyHas DEF Types
<1>2. CASE policy.type = "scm_posture"
  <2> DEFINE l == [i \in DOMAIN policy.controls |-> mapToScmControl(policy.controls[i])]
  <2>1. \A i \in DOMAIN policy.controls :
           /\ mapToScmControl(policy.controls[i]) \in Controls
           /\ mapToScmControl(policy.controls[i]).id # Null
           /\ mapToScmControl(policy.controls[i]).title = Null
    BY <1>2, PolicyHas, ScmHas
  <2>2. l \in [1 .. Len(policy.controls) -> Controls]
    BY <1>1, <2>1
  <2>3. l \in Seq(Controls)
    BY <1>1, <2>2
  <2>4. StoredControls(policy, prior) = l
    BY <1>2 DEF StoredControls
  <2> QED
    BY <2>1, <2>3, <2>4
<1>3. CASE policy.type = "section" /\ prior # None /\ prior.all
  BY <1>3 DEF StoredControls
<1>4. CASE policy.type = "section" /\ prior = None
  BY <1>1, <1>4 DEF StoredControls
<1>5. CASE policy.type = "section" /\ prior # None /\ ~prior.all
  <2> DEFINE l == mergeControls(policy.controls, prior.controls)
  <2>1. prior.controls \in Seq(Controls)
    BY <1>5, PlanHas
  <2>2. \A i \in DOMAIN policy.controls :
           (IF i \in DOMAIN prior.controls
            THEN mergeBaseControlFromPlan(policy.controls[i], prior.controls[i])
            ELSE policy.controls[i]) \in Controls
    BY <1>1, <2>1, MergedHas
  <2>3. l \in [1 .. Len(policy.controls) -> Controls]
    BY <1>1, <2>2 DEF mergeControls
  <2>4. l \in Seq(Controls)
    BY <1>1, <2>3
  <2>5. StoredControls(policy, prior) = l
    BY <1>5 DEF StoredControls
  <2> QED
    BY <1>5, <2>4, <2>5
<1> QED
  BY <1>1, <1>2, <1>3, <1>4, <1>5

(* They are controls that the policy has: all of them after an import of a *)
(* policy that is complete, and after a refresh of one that had them.      *)
LEMMA ImportedHas ==
  ASSUME catalog \in Catalogs, NEW policy \in Policies, Completed(policy)
  PROVE  /\ Len(policy.controls) = Len(StoredControls(policy, None))
         /\ \A i \in DOMAIN StoredControls(policy, None) :
               Has(policy.controls[i], StoredControls(policy, None)[i])
<1>1. /\ policy.controls \in Seq(Controls) /\ policy.type \in {"section", "scm_posture"}
      /\ \A i \in DOMAIN policy.controls :
            /\ policy.controls[i] \in Controls /\ Sound(policy.controls[i], policy.type)
            /\ policy.controls[i].id \in Known => policy.controls[i].cond # Null
  BY PolicyHas DEF Types, Completed
<1>2. CASE policy.type = "scm_posture"
  <2> DEFINE l == [i \in DOMAIN policy.controls |-> mapToScmControl(policy.controls[i])]
  <2>1. StoredControls(policy, None) = l
    BY <1>2 DEF StoredControls
  <2>2. \A i \in DOMAIN policy.controls : Has(policy.controls[i], l[i])
    BY <1>1, <1>2, ScmHas
  <2>3. Len(l) = Len(policy.controls)
    BY <1>1
  <2> QED
    BY <2>1, <2>2, <2>3
<1>3. CASE policy.type = "section"
  <2>1. StoredControls(policy, None) = policy.controls
    BY <1>3 DEF StoredControls
  <2>2. ASSUME NEW i \in DOMAIN policy.controls
        PROVE  Has(policy.controls[i], policy.controls[i])
    <3> DEFINE c == policy.controls[i]
    <3>1. (c.title = Null => c.id = Null) /\ (c.id \in Known => c.cond # Null)
      BY <1>1 DEF Sound
    <3> HIDE DEF c
    <3>2. Has(c, c)
      BY <3>1 DEF Has
    <3> QED
      BY <3>2 DEF c
  <2> QED
    BY <2>1, <2>2
<1> QED
  BY <1>1, <1>2, <1>3

LEMMA RefreshedHas ==
  ASSUME catalog \in Catalogs, NEW policy \in Policies, NEW prior \in Plans,
         policy.type = prior.type, ~prior.all, HasAll(policy, prior)
  PROVE  /\ Len(policy.controls) = Len(StoredControls(policy, prior))
         /\ \A i \in DOMAIN StoredControls(policy, prior) :
               Has(policy.controls[i], StoredControls(policy, prior)[i])
<1>1. /\ policy.controls \in Seq(Controls) /\ policy.type \in {"section", "scm_posture"}
      /\ \A i \in DOMAIN policy.controls :
            policy.controls[i] \in Controls /\ Sound(policy.controls[i], policy.type)
  BY PolicyHas DEF Types
<1>2. /\ prior # None /\ prior.controls \in Seq(Controls)
      /\ \A i \in DOMAIN prior.controls : prior.controls[i] \in Controls
  BY PlanHas, Markers
<1>3. /\ Len(policy.controls) = Len(prior.controls)
      /\ \A i \in DOMAIN prior.controls : Has(policy.controls[i], prior.controls[i])
  BY DEF HasAll
<1>4. DOMAIN policy.controls = DOMAIN prior.controls
  BY <1>1, <1>2, <1>3
<1>5. CASE policy.type = "scm_posture"
  <2> DEFINE l == [i \in DOMAIN policy.controls |-> mapToScmControl(policy.controls[i])]
  <2>1. StoredControls(policy, prior) = l
    BY <1>5 DEF StoredControls
  <2>2. ASSUME NEW i \in DOMAIN policy.controls
        PROVE  Has(policy.controls[i], l[i])
    <3> DEFINE c == policy.controls[i]
               given == prior.controls[i]
    <3>1. Has(c, given) /\ c \in Controls /\ Sound(c, "scm_posture")
      BY <1>1, <1>3, <1>4, <1>5
    <3>2. l[i] = mapToScmControl(c)
      OBVIOUS
    <3> HIDE DEF c, given
    <3>3. c.id \in Known => c.cond # Null
      BY <3>1, Markers DEF Has
    <3>4. Has(c, mapToScmControl(c))
      BY <3>1, <3>3, ScmHas
    <3> QED
      BY <3>2, <3>4 DEF c
  <2>3. Len(l) = Len(policy.controls)
    BY <1>1
  <2> QED
    BY <2>1, <2>2, <2>3
<1>6. CASE policy.type = "section"
  <2> DEFINE l == mergeControls(policy.controls, prior.controls)
  <2>1. StoredControls(policy, prior) = l
    BY <1>2, <1>6 DEF StoredControls
  <2>2. \A i \in DOMAIN policy.controls :
           l[i] = mergeBaseControlFromPlan(policy.controls[i], prior.controls[i])
    BY <1>4 DEF mergeControls
  <2>3. \A i \in DOMAIN policy.controls : Has(policy.controls[i], l[i])
    BY <1>1, <1>2, <1>3, <1>4, <2>2, MergedHas
  <2>4. DOMAIN l = DOMAIN policy.controls /\ Len(l) = Len(policy.controls)
    BY <1>1 DEF mergeControls
  <2> QED
    BY <2>1, <2>3, <2>4
<1> QED
  BY <1>1, <1>5, <1>6

(* What Read stores is a plan again, and it is exact after an import of a  *)
(* policy that is complete, and after a refresh of one that was.           *)
LEMMA ApiToStateFields ==
  ASSUME NEW policy, NEW prior, NEW scope, NEW p, p = ApiToState(policy, prior, scope)
  PROVE  /\ p = [type |-> policy.type, description |-> p.description,
                 projects |-> p.projects, all |-> p.all, controls |-> p.controls,
                 scope |-> scope]
         /\ p.type = policy.type /\ p.scope = scope
         /\ p.description = IF policy.description = Null THEN Empty ELSE policy.description
         /\ p.projects = mergeProjectsIdsFromPlan(policy.projects,
                             IF prior = None THEN Null ELSE prior.projects)
         /\ p.all <=> prior # None /\ prior.all
         /\ prior = None \/ prior.all \in BOOLEAN => p.all \in BOOLEAN
         /\ p.controls = StoredControls(policy, prior)
  BY Zenon DEF ApiToState, StoredControls

LEMMA ApiToStateType ==
  ASSUME NEW policy \in Policies, NEW prior \in Plans \cup {None},
         prior # None => prior.type = policy.type,
         NEW scope \in SetToSeqs(policy.scope)
  PROVE  ApiToState(policy, prior, scope) \in Plans
<1> DEFINE p == ApiToState(policy, prior, scope)
<1>1. /\ p = [type |-> policy.type, description |-> p.description, projects |-> p.projects,
              all |-> p.all, controls |-> p.controls, scope |-> scope]
      /\ p.type = policy.type /\ p.scope = scope
      /\ p.description = IF policy.description = Null THEN Empty ELSE policy.description
      /\ p.projects = mergeProjectsIdsFromPlan(policy.projects,
                          IF prior = None THEN Null ELSE prior.projects)
      /\ p.all <=> prior # None /\ prior.all
      /\ prior = None \/ prior.all \in BOOLEAN => p.all \in BOOLEAN
      /\ p.controls = StoredControls(policy, prior)
  BY ApiToStateFields
<1> HIDE DEF p
<1>2. policy.type \in Types /\ p.description \in Values \cup {Null, Empty}
  BY <1>1, PolicyHas
<1>3. p.projects \in Values \cup {Null}
  <2>1. policy.projects \in Values \cup {Null}
    BY PolicyHas
  <2>2. (IF prior = None THEN Null ELSE prior.projects) \in Values \cup {Null}
    BY PlanHas
  <2> QED
    BY <1>1, <2>1, <2>2 DEF mergeProjectsIdsFromPlan
<1>4. p.all \in BOOLEAN
  BY <1>1, PlanHas
<1>5. p.controls \in Seq(Controls)
  BY <1>1, StoredControlsType
<1>6. scope \in Seq(Values)
  <2>1. scope \in Seq(policy.scope) /\ policy.scope \subseteq Values
    BY PolicyHas, ToSetOfSetToSeqs
  <2> QED
    BY <2>1
<1>7. p.type = "scm_posture" =>
        /\ ~p.all
        /\ \A i \in DOMAIN p.controls : p.controls[i].id # Null /\ p.controls[i].title = Null
  BY <1>1, StoredControlsType, PlanHas
<1>8. p \in [type : Types, description : Values \cup {Null, Empty},
             projects : Values \cup {Null}, all : BOOLEAN,
             controls : Seq(Controls), scope : Seq(Values)]
  BY <1>1, <1>2, <1>3, <1>4, <1>5, <1>6
<1> QED
  BY <1>7, <1>8 DEF Plans, p

LEMMA ImportIsExact ==
  ASSUME catalog \in Catalogs, NEW policy \in Policies, Completed(policy),
         NEW scope \in SetToSeqs(policy.scope)
  PROVE  Exact(policy, ApiToState(policy, None, scope))
<1> DEFINE p == ApiToState(policy, None, scope)
<1>1. /\ p.scope = scope
      /\ p.description = IF policy.description = Null THEN Empty ELSE policy.description
      /\ p.projects = mergeProjectsIdsFromPlan(policy.projects, Null)
      /\ ~p.all
      /\ p.controls = StoredControls(policy, None)
  BY ApiToStateFields
<1> HIDE DEF p
<1>2. HasAll(policy, p)
  BY <1>1, ImportedHas DEF HasAll
<1>3. policy.scope = ToSet(p.scope)
  BY <1>1, PolicyHas, ToSetOfSetToSeqs
<1>4. p.projects = Null
  BY <1>1 DEF mergeProjectsIdsFromPlan
<1>5. Exact(policy, p)
  BY <1>1, <1>2, <1>3, <1>4 DEF Exact
<1> QED
  BY <1>5 DEF p

LEMMA RefreshIsExact ==
  ASSUME catalog \in Catalogs, NEW policy \in Policies, NEW prior \in Plans,
         policy.type = prior.type, Exact(policy, prior),
         NEW scope \in SetToSeqs(policy.scope)
  PROVE  Exact(policy, ApiToState(policy, prior, scope))
<1> DEFINE p == ApiToState(policy, prior, scope)
<1>1. /\ p.scope = scope
      /\ p.description = IF policy.description = Null THEN Empty ELSE policy.description
      /\ p.projects = mergeProjectsIdsFromPlan(policy.projects, prior.projects)
      /\ p.all <=> prior.all
      /\ p.controls = StoredControls(policy, prior)
  <2>1. prior # None /\ prior.all \in BOOLEAN
    BY PlanHas, Markers
  <2> QED
    BY <2>1, ApiToStateFields
<1> HIDE DEF p
<1>2. HasAll(policy, prior)
  BY DEF Exact
<1>3. HasAll(policy, p)
  <2>1. CASE prior.all
    BY <1>1, <1>2, <2>1 DEF HasAll
  <2>2. CASE ~prior.all
    BY <1>1, <1>2, <2>2, RefreshedHas DEF HasAll
  <2> QED
    BY <2>1, <2>2
<1>4. policy.scope = ToSet(p.scope)
  BY <1>1, PolicyHas, ToSetOfSetToSeqs
<1>5. p.projects \in {Null, policy.projects}
  BY <1>1 DEF Exact, mergeProjectsIdsFromPlan
<1>6. Exact(policy, p)
  BY <1>1, <1>3, <1>4, <1>5 DEF Exact
<1> QED
  BY <1>6 DEF p

-----------------------------------------------------------------------------
(* The invariant, action by action.                                        *)

(* What a policy is compared with changes with the catalog only.           *)
LEMMA CatalogSame ==
  ASSUME catalog' = catalog, NEW p, NEW q
  PROVE  /\ Exact(p, q)' <=> Exact(p, q)
         /\ HasAll(p, q)' <=> HasAll(p, q)
         /\ Completed(p)' <=> Completed(p)
         /\ scopeEntries' = scopeEntries
<1>1. Known' = Known
  BY DEF Known
<1>2. HasAll(p, q)' <=> HasAll(p, q)
  BY <1>1 DEF HasAll, Has
<1>3. Completed(p)' <=> Completed(p)
  BY <1>1 DEF Completed
<1>4. scopeEntries' = scopeEntries
  BY DEF scopeEntries
<1> QED
  BY <1>2, <1>3, <1>4 DEF Exact

LEMMA InitInv == Init => IInv
<1> SUFFICES ASSUME Init
             PROVE  IInv
  OBVIOUS
<1> USE DEF Init
<1>1. op = [kind |-> "none", pc |-> "", id |-> 0, plan |-> None, controls |-> << >>,
            stale |-> FALSE]
  BY DEF NoOp
<1>2. op.kind = "none" /\ op.pc = "" /\ state = None
  <2>1. state = None
    OBVIOUS
  <2> HIDE DEF Init
  <2>2. op.kind = "none" /\ op.pc = ""
    BY <1>1
  <2> QED
    BY <2>1, <2>2
<1>3. TypeOK
  <2>1. MaxId \in Nat /\ 2 \in 1 .. MaxId + 1
    BY ShiftLeftPolicyAssumption
  <2>2. remote \in [1 .. MaxId -> Policies \cup {None}]
    BY ShiftLeftPolicyAssumption
  <2>3. op \in [kind : Kinds, pc : Calls, id : 0 .. MaxId, plan : Plans \cup {None},
                controls : Seq(Controls), stale : BOOLEAN]
    <3>1. 0 \in 0 .. MaxId /\ << >> \in Seq(Controls) /\ "none" \in Kinds /\ "" \in Calls
      BY <2>1 DEF Kinds, Calls
    <3> HIDE DEF Init
    <3> QED
      BY <1>1, <3>1
  <2> QED
    BY <2>1, <2>2, <2>3 DEF TypeOK
<1>4. OpInv
  BY DEF OpInv
<1>5. SendInv
  BY <1>2 DEF SendInv, Writing
<1>6. TypeKept /\ StoredInv
  BY <1>2 DEF TypeKept, StoredInv
<1> QED
  BY <1>3, <1>4, <1>5, <1>6 DEF IInv

(* A step that touches nothing of what the invariant is about.             *)
LEMMA Framed ==
  ASSUME IInv, UNCHANGED <<state, remote, nextId, catalog, op, drifted>>
  PROVE  OpInv' /\ SendInv' /\ TypeKept' /\ StoredInv'
<1>1. OpInv'
  BY DEF IInv, OpInv
<1>2. SendInv'
  BY CatalogSame DEF IInv, SendInv
<1>3. TypeKept'
  BY DEF IInv, TypeKept, Exists
<1>4. StoredInv'
  BY CatalogSame DEF IInv, StoredInv, Exists
<1> QED
  BY <1>1, <1>2, <1>3, <1>4

LEMMA EditKeeps ==
  ASSUME IInv, NEW new \in Configs \cup {None}, EditConfig(new)
  PROVE  IInv'
<1>1. TypeOK'
  BY DEF IInv, TypeOK, EditConfig, service
<1>2. UNCHANGED <<state, remote, nextId, catalog, op, drifted>>
  BY DEF EditConfig, service
<1> QED
  BY <1>1, <1>2, Framed DEF IInv

(* A handler begins.                                                       *)
LEMMA BeginOp ==
  ASSUME NEW kind \in Kinds, NEW pc \in Calls, NEW id \in 0 .. MaxId,
         NEW plan \in Plans \cup {None}, Begin(kind, pc, id, plan)
  PROVE  /\ op'.kind = kind /\ op'.pc = pc /\ op'.id = id /\ op'.plan = plan
         /\ plan # None => op'.controls = plan.controls
         /\ ~op'.stale
         /\ op' \in [kind : Kinds, pc : Calls, id : 0 .. MaxId, plan : Plans \cup {None},
                     controls : Seq(Controls), stale : BOOLEAN]
<1> DEFINE c == IF plan = None THEN << >> ELSE plan.controls
<1>1. c \in Seq(Controls)
  BY PlanHas
<1>2. op' = [kind |-> kind, pc |-> pc, id |-> id, plan |-> plan, controls |-> c,
             stale |-> FALSE]
  BY DEF Begin
<1>3. plan # None => c = plan.controls
  OBVIOUS
<1> HIDE DEF c
<1> QED
  BY <1>1, <1>2, <1>3

LEMMA IdleOp ==
  ASSUME Idle
  PROVE  op.kind = "none" /\ op.pc = ""
  BY DEF Idle, NoOp

LEMMA BeginCreateKeeps == ASSUME IInv, BeginCreate PROVE IInv'
<1>1. /\ config \in Plans /\ config # None /\ state = None /\ Idle
      /\ nextId <= MaxId /\ MaxId \in Nat
      /\ Begin("create", FirstCall(config), 0, config)
      /\ UNCHANGED <<config, state, remote, nextId, catalog, unlucky, drifted,
                     edits, failures, changes>>
  BY ShiftLeftPolicyAssumption DEF IInv, TypeOK, BeginCreate, service, counters
<1>2. /\ FirstCall(config) \in {"expand", "enrich"}
      /\ FirstCall(config) = "expand" <=> config.all
  BY PlanHas, <1>1 DEF FirstCall
<1>3. /\ op'.kind = "create" /\ op'.pc = FirstCall(config) /\ op'.plan = config
      /\ op'.controls = config.controls
      /\ op' \in [kind : Kinds, pc : Calls, id : 0 .. MaxId, plan : Plans \cup {None},
                  controls : Seq(Controls), stale : BOOLEAN]
  <2>1. FirstCall(config) \in Calls /\ "create" \in Kinds
    BY <1>2 DEF Calls, Kinds
  <2>2. 0 \in 0 .. MaxId
    BY <1>1
  <2> QED
    BY <1>1, <2>1, <2>2, BeginOp
<1>4. TypeOK'
  BY <1>1, <1>3 DEF IInv, TypeOK
<1>5. OpInv'
  BY <1>1, <1>2, <1>3 DEF OpInv, Writing
<1>6. SendInv'
  BY <1>1, <1>2, <1>3 DEF SendInv, Writing
<1>7. TypeKept' /\ StoredInv'
  BY <1>1, <1>2, <1>3 DEF TypeKept, StoredInv
<1> QED
  BY <1>4, <1>5, <1>6, <1>7 DEF IInv

LEMMA BeginUpdateKeeps == ASSUME IInv, BeginUpdate PROVE IInv'
<1>1. /\ config \in Plans /\ config # None /\ state # None /\ Idle
      /\ state \in States /\ config.type = state.plan.type
      /\ Begin("update", FirstCall(config), state.id, config)
      /\ UNCHANGED <<config, state, remote, nextId, catalog, unlucky, drifted,
                     edits, failures, changes>>
  BY ShiftLeftPolicyAssumption DEF IInv, TypeOK, BeginUpdate, service, counters
<1>2. /\ FirstCall(config) \in {"expand", "enrich"}
      /\ FirstCall(config) = "expand" <=> config.all
  BY PlanHas, <1>1 DEF FirstCall
<1>3. /\ op'.kind = "update" /\ op'.pc = FirstCall(config) /\ op'.plan = config
      /\ op'.controls = config.controls /\ op'.id = state.id
      /\ op' \in [kind : Kinds, pc : Calls, id : 0 .. MaxId, plan : Plans \cup {None},
                  controls : Seq(Controls), stale : BOOLEAN]
  <2>1. FirstCall(config) \in Calls /\ "update" \in Kinds
    BY <1>2 DEF Calls, Kinds
  <2>2. state.id \in 0 .. MaxId
    BY <1>1, ShiftLeftPolicyAssumption DEF States
  <2> QED
    BY <1>1, <2>1, <2>2, BeginOp
<1>4. TypeOK'
  BY <1>1, <1>3 DEF IInv, TypeOK
<1>5. OpInv'
  BY <1>1, <1>2, <1>3 DEF OpInv, Writing
<1>6. SendInv'
  BY <1>1, <1>2, <1>3 DEF SendInv, Writing
<1>7. TypeKept'
  BY <1>1 DEF IInv, TypeKept, Exists
<1>8. StoredInv'
  BY <1>1, <1>2, <1>3, IdleOp, CatalogSame DEF IInv, StoredInv, Exists
<1> QED
  BY <1>4, <1>5, <1>6, <1>7, <1>8 DEF IInv

LEMMA BeginReadKeeps == ASSUME IInv, BeginRead PROVE IInv'
<1>1. /\ state # None /\ Idle /\ state \in States /\ state.plan \in Plans
      /\ Begin("read", "head", state.id, state.plan)
      /\ UNCHANGED <<config, state, remote, nextId, catalog, unlucky, drifted,
                     edits, failures, changes>>
  BY DEF IInv, TypeOK, BeginRead, service, counters, States
<1>2. /\ op'.kind = "read" /\ op'.pc = "head" /\ op'.plan = state.plan /\ op'.id = state.id
      /\ op' \in [kind : Kinds, pc : Calls, id : 0 .. MaxId, plan : Plans \cup {None},
                  controls : Seq(Controls), stale : BOOLEAN]
  <2>1. "read" \in Kinds /\ "head" \in Calls
    BY DEF Calls, Kinds
  <2>2. state.id \in 0 .. MaxId
    BY <1>1, ShiftLeftPolicyAssumption DEF States
  <2> QED
    BY <1>1, <2>1, <2>2, BeginOp
<1>3. TypeOK'
  BY <1>1, <1>2 DEF IInv, TypeOK
<1>4. OpInv' /\ SendInv'
  BY <1>1, <1>2 DEF OpInv, SendInv, Writing
<1>5. TypeKept'
  BY <1>1 DEF IInv, TypeKept, Exists
<1>6. StoredInv'
  BY <1>1, <1>2, IdleOp, CatalogSame DEF IInv, StoredInv, Exists
<1> QED
  BY <1>3, <1>4, <1>5, <1>6 DEF IInv

LEMMA ImportKeeps == ASSUME IInv, NEW id \in 1 .. MaxId, ImportState(id) PROVE IInv'
<1>1. /\ state = None /\ Idle
      /\ Begin("import", "head", id, None) /\ edits' \in Nat
      /\ UNCHANGED <<config, state, remote, nextId, catalog, unlucky, failures, changes>>
  BY DEF IInv, TypeOK, ImportState, service
<1>2. drifted' = ~Completed(remote[id])
  BY DEF ImportState
<1>3. drifted' \in BOOLEAN /\ (~drifted' => Completed(remote[id]))
  BY <1>2, Zenon
<1>4. /\ op'.kind = "import" /\ op'.pc = "head" /\ op'.plan = None /\ op'.id = id
      /\ op' \in [kind : Kinds, pc : Calls, id : 0 .. MaxId, plan : Plans \cup {None},
                  controls : Seq(Controls), stale : BOOLEAN]
  <2>1. "import" \in Kinds /\ "head" \in Calls
    BY DEF Calls, Kinds
  <2>2. id \in 0 .. MaxId
    BY ShiftLeftPolicyAssumption
  <2> QED
    BY <1>1, <2>1, <2>2, BeginOp
<1>5. TypeOK'
  BY <1>1, <1>3, <1>4 DEF IInv, TypeOK
<1>6. OpInv' /\ SendInv'
  <2>1. id # 0
    BY ShiftLeftPolicyAssumption
  <2> QED
    BY <1>1, <1>4, <2>1 DEF OpInv, SendInv, Writing
<1>7. TypeKept'
  BY <1>1 DEF TypeKept
<1>8. StoredInv'
  BY <1>1, <1>3, <1>4, CatalogSame DEF StoredInv
<1> QED
  BY <1>5, <1>6, <1>7, <1>8 DEF IInv

LEMMA BeginDeleteKeeps == ASSUME IInv, BeginDelete PROVE IInv'
<1>1. /\ state # None /\ Idle /\ state \in States
      /\ Begin("delete", "delete", state.id, None)
      /\ UNCHANGED <<config, state, remote, nextId, catalog, unlucky, drifted,
                     edits, failures, changes>>
  BY DEF IInv, TypeOK, BeginDelete, service, counters
<1>2. /\ op'.kind = "delete" /\ op'.pc = "delete" /\ op'.id = state.id
      /\ op' \in [kind : Kinds, pc : Calls, id : 0 .. MaxId, plan : Plans \cup {None},
                  controls : Seq(Controls), stale : BOOLEAN]
  <2>1. "delete" \in Kinds /\ "delete" \in Calls
    BY DEF Calls, Kinds
  <2>2. state.id \in 0 .. MaxId
    BY <1>1, ShiftLeftPolicyAssumption DEF States
  <2> QED
    BY <1>1, <2>1, <2>2, BeginOp
<1>3. TypeOK'
  BY <1>1, <1>2 DEF IInv, TypeOK
<1>4. OpInv' /\ SendInv'
  BY <1>1, <1>2 DEF OpInv, SendInv, Writing
<1>5. TypeKept'
  BY <1>1 DEF IInv, TypeKept, Exists
<1>6. StoredInv'
  BY <1>1, <1>2, IdleOp, CatalogSame DEF IInv, StoredInv, Exists
<1> QED
  BY <1>3, <1>4, <1>5, <1>6 DEF IInv

(* A handler ends, or makes its next call.                                 *)
LEMMA EndOp ==
  ASSUME End
  PROVE  /\ op'.kind = "none" /\ op'.pc = "" /\ OpInv' /\ SendInv'
         /\ op' \in [kind : Kinds, pc : Calls, id : 0 .. MaxId, plan : Plans \cup {None},
                     controls : Seq(Controls), stale : BOOLEAN]
<1>1. op' = [kind |-> "none", pc |-> "", id |-> 0, plan |-> None, controls |-> << >>,
             stale |-> FALSE]
  BY DEF End, NoOp
<1>2. op'.kind = "none" /\ op'.pc = ""
  BY <1>1
<1>3. OpInv'
  BY <1>1 DEF OpInv, NoOp
<1>4. SendInv'
  BY <1>2 DEF SendInv, Writing
<1>5. 0 \in 0 .. MaxId /\ << >> \in Seq(Controls) /\ "none" \in Kinds /\ "" \in Calls
  BY ShiftLeftPolicyAssumption DEF Kinds, Calls
<1> QED
  BY <1>1, <1>2, <1>3, <1>4, <1>5

LEMMA Ended ==
  ASSUME IInv, End, op.pc # "verify", UNCHANGED <<state, remote, catalog, drifted>>
  PROVE  OpInv' /\ SendInv' /\ TypeKept' /\ StoredInv'
<1>1. op'.kind = "none" /\ op'.pc = "" /\ OpInv' /\ SendInv'
  BY EndOp
<1>2. TypeKept'
  BY DEF IInv, TypeKept, Exists
<1>3. StoredInv'
  BY <1>1, CatalogSame DEF IInv, StoredInv, Exists
<1> QED
  BY <1>1, <1>2, <1>3

LEMMA Counted ==
  ASSUME IInv, NEW outcome \in Outcomes, Failing(outcome) \/ CallOn(outcome)
  PROVE  /\ edits' \in Nat /\ failures' \in Nat /\ changes' \in Nat
         /\ outcome # "fine" /\ (Failing(outcome) \/ Exists(op.id)) => failures' > failures
  BY DEF IInv, TypeOK, Failing, CallOn, counters

OpType == [kind : Kinds, pc : Calls, id : 0 .. MaxId, plan : Plans \cup {None},
           controls : Seq(Controls), stale : BOOLEAN]

LEMMA Handling ==
  ASSUME IInv
  PROVE  /\ op.pc \in Writing => op.kind \in {"create", "update"}
         /\ op.pc = "verify" => op.kind = "update"
         /\ op.pc \in {"head", "get"} => op.kind \in {"read", "import"}
         /\ op.pc = "delete" => op.kind = "delete"
         /\ op.kind \in {"create", "import"} => state = None
         /\ op.kind \in {"update", "read", "delete"} => state # None /\ op.id = state.id
         /\ op.kind = "import" => op.plan = None /\ op.id # 0
         /\ op.kind = "read" => op.plan = state.plan
         /\ op.kind = "update" => op.plan \in Plans /\ op.plan.type = state.plan.type
         /\ op.kind = "create" => op.plan \in Plans /\ nextId <= MaxId
<1>1. op = NoOp => op.pc = "" /\ op.kind = "none"
  BY IdleOp DEF Idle
<1> QED
  BY <1>1 DEF IInv, OpInv, Writing

LEMMA AddAllKeeps ==
  ASSUME IInv, NEW outcome \in Outcomes, AddAllCatalogControls(outcome)
  PROVE  IInv'
<1>1. /\ op.pc = "expand" /\ op \in OpType /\ catalog \in Catalogs
      /\ UNCHANGED <<config, state, remote, nextId, catalog, unlucky, drifted>>
  BY DEF AddAllCatalogControls, At, service, IInv, TypeOK, OpType
<1>2. edits' \in Nat /\ failures' \in Nat /\ changes' \in Nat
  BY Counted DEF AddAllCatalogControls
<1>3. CASE outcome = "fine"
  <2>1. op' = [op EXCEPT !.pc = "enrich", !.controls = scopeEntries]
    BY <1>3 DEF AddAllCatalogControls
  <2>2. scopeEntries \in Seq(Controls) /\ "enrich" \in Calls
    BY <1>1, ScopeEntriesType DEF Calls
  <2>3. /\ op' \in OpType
        /\ op'.pc = "enrich" /\ op'.controls = scopeEntries
        /\ op'.kind = op.kind /\ op'.id = op.id /\ op'.plan = op.plan
    BY <1>1, <2>1, <2>2 DEF OpType
  <2>4. op.kind \in {"create", "update"}
    BY <1>1, Handling DEF Writing
  <2>5. TypeOK'
    BY <1>1, <1>2, <2>3 DEF IInv, TypeOK, OpType
  <2>6. OpInv'
    BY <1>1, <2>3, <2>4, Handling DEF OpInv, Writing
  <2>7. op.plan \in Plans /\ op.plan.all
    BY <1>1 DEF IInv, SendInv, Writing
  <2>8. SendInv'
    BY <1>1, <2>3, <2>7, CatalogSame DEF SendInv, Writing
  <2>9. TypeKept'
    BY <1>1 DEF IInv, TypeKept, Exists
  <2>10. StoredInv'
    BY <1>1, <2>3, CatalogSame DEF IInv, StoredInv, Exists
  <2> QED
    BY <2>5, <2>6, <2>8, <2>9, <2>10 DEF IInv
<1>4. CASE outcome # "fine"
  <2>1. End
    BY <1>4 DEF AddAllCatalogControls
  <2>2. TypeOK'
    BY <1>1, <1>2, <2>1, EndOp DEF IInv, TypeOK
  <2> QED
    BY <1>1, <2>1, <2>2, Ended DEF IInv
<1> QED
  BY <1>3, <1>4

LEMMA EnrichKeeps ==
  ASSUME IInv, NEW outcome \in Outcomes, EnrichShiftLeftPolicyFromCatalog(outcome)
  PROVE  IInv'
<1>1. /\ op.pc = "enrich" /\ op \in OpType /\ catalog \in Catalogs
      /\ op.controls \in Seq(Controls)
      /\ UNCHANGED <<config, state, remote, nextId, catalog, unlucky, drifted>>
  BY DEF EnrichShiftLeftPolicyFromCatalog, At, service, IInv, TypeOK, OpType
<1>2. edits' \in Nat /\ failures' \in Nat /\ changes' \in Nat
  BY Counted DEF EnrichShiftLeftPolicyFromCatalog
<1>3. CASE outcome = "fine" /\ catalog # << >> /\ ~UnknownId(op.controls)
  <2> DEFINE sent == EnrichedList(op.controls)
  <2>1. op' = [op EXCEPT !.pc = "write", !.controls = sent]
    <3>1. op' = [op EXCEPT !.pc = "write",
                           !.controls = [i \in DOMAIN @ |-> Enriched(@[i])]]
      BY <1>3 DEF EnrichShiftLeftPolicyFromCatalog
    <3>2. [op EXCEPT !.pc = "write", !.controls = [i \in DOMAIN @ |-> Enriched(@[i])]]
            = [op EXCEPT !.pc = "write",
                         !.controls = [i \in DOMAIN op.controls |-> Enriched(op.controls[i])]]
      BY <1>1 DEF OpType
    <3> QED
      BY <3>1, <3>2 DEF EnrichedList
  <2>2. /\ sent \in Seq(Controls) /\ DOMAIN sent = DOMAIN op.controls
        /\ \A i \in DOMAIN op.controls :
              /\ sent[i] = Enriched(op.controls[i])
              /\ op.controls[i] \in Controls /\ op.controls[i].id \in Known \cup {Null}
    BY <1>1, <1>3, EnrichedListType
  <2>3. /\ op.plan \in Plans
        /\ IF op.plan.all THEN op.stale \/ op.controls = scopeEntries
           ELSE op.controls = op.plan.controls
    BY <1>1 DEF IInv, SendInv, Writing
  <2>4. \A i \in DOMAIN sent : Sound(sent[i], op.plan.type)
    <3> SUFFICES ASSUME NEW i \in DOMAIN op.controls
                 PROVE  Sound(Enriched(op.controls[i]), op.plan.type)
      BY <2>2
    <3>1. op.plan.type = "scm_posture" => op.controls[i].id # Null /\ op.controls[i].title = Null
      BY <2>3, PlanHas
    <3> QED
      BY <1>1, <2>2, <3>1, EnrichedSound
  <2>5. op.stale \/ HasAll([controls |-> sent], op.plan)
    <3>1. CASE op.plan.all
      BY <1>1, <2>3, <3>1, EnrichedCatalog
    <3>2. CASE ~op.plan.all
      BY <1>1, <1>3, <2>3, <3>2, EnrichedConfigured
    <3> QED
      BY <3>1, <3>2
  <2> HIDE DEF sent
  <2>6. /\ op' \in OpType
        /\ op'.pc = "write" /\ op'.controls = sent
        /\ op'.kind = op.kind /\ op'.id = op.id /\ op'.plan = op.plan
        /\ op'.stale = op.stale
    <3>1. "write" \in Calls
      BY DEF Calls
    <3> QED
      BY <1>1, <2>1, <2>2, <3>1 DEF OpType
  <2>7. op.kind \in {"create", "update"}
    BY <1>1, Handling DEF Writing
  <2>8. TypeOK'
    BY <1>1, <1>2, <2>6 DEF IInv, TypeOK, OpType
  <2>9. OpInv'
    BY <1>1, <2>6, <2>7, Handling DEF OpInv, Writing
  <2>10. SendInv'
    <3>1. \A i \in DOMAIN op'.controls : Sound(op'.controls[i], op'.plan.type)
      BY <2>4, <2>6
    <3>2. op'.stale \/ HasAll([controls |-> op'.controls], op'.plan)
      BY <2>5, <2>6
    <3> QED
      BY <1>1, <2>3, <2>6, <3>1, <3>2, CatalogSame DEF SendInv, Writing, Sound
  <2>11. TypeKept'
    BY <1>1 DEF IInv, TypeKept, Exists
  <2>12. StoredInv'
    BY <1>1, <2>6, CatalogSame DEF IInv, StoredInv, Exists
  <2> QED
    BY <2>8, <2>9, <2>10, <2>11, <2>12 DEF IInv
<1>4. CASE ~(outcome = "fine" /\ catalog # << >> /\ ~UnknownId(op.controls))
  <2>1. End
    BY <1>4 DEF EnrichShiftLeftPolicyFromCatalog
  <2>2. TypeOK'
    BY <1>1, <1>2, <2>1, EndOp DEF IInv, TypeOK
  <2> QED
    BY <1>1, <2>1, <2>2, Ended DEF IInv
<1> QED
  BY <1>3, <1>4

(* What the service has about a policy changes by a POST, a PUT, a DELETE  *)
(* and in the console.                                                     *)
LEMMA PutType ==
  ASSUME IInv, NEW id \in 1 .. MaxId, NEW new \in Policies \cup {None},
         remote' = [remote EXCEPT ![id] = new]
  PROVE  /\ remote' \in [1 .. MaxId -> Policies \cup {None}]
         /\ remote'[id] = new
         /\ \A i \in 1 .. MaxId : i # id => remote'[i] = remote[i]
  BY DEF IInv, TypeOK

LEMMA CreateKeeps ==
  ASSUME IInv, NEW outcome \in Outcomes, CreateShiftLeftPolicy(outcome)
  PROVE  IInv'
<1>1. /\ op.pc = "write" /\ op.kind = "create" /\ op \in OpType /\ catalog \in Catalogs
      /\ End /\ nextId \in 1 .. MaxId
      /\ UNCHANGED <<config, catalog, unlucky>>
  BY ShiftLeftPolicyAssumption, Handling
     DEF CreateShiftLeftPolicy, At, service, IInv, TypeOK, OpType
<1>2. edits' \in Nat /\ failures' \in Nat /\ changes' \in Nat
  BY Counted DEF CreateShiftLeftPolicy
<1>3. /\ op'.kind = "none" /\ op'.pc = "" /\ OpInv' /\ SendInv' /\ op' \in OpType
  BY <1>1, EndOp DEF OpType
<1>4. /\ op.plan \in Plans /\ op.controls \in Seq(Controls) /\ state = None
      /\ \A i \in DOMAIN op.controls : Sound(op.controls[i], op.plan.type)
      /\ op.stale \/ HasAll([controls |-> op.controls], op.plan)
  BY <1>1, Handling DEF IInv, SendInv, OpType
<1>5. CASE outcome \in {"fine", "lost"}
  <2>1. /\ \E new \in Written(op.plan, op.controls, Null) :
               remote' = [remote EXCEPT ![nextId] = new]
        /\ nextId' = nextId + 1
    BY <1>5 DEF CreateShiftLeftPolicy
  <2>2. PICK new \in Written(op.plan, op.controls, Null) :
               remote' = [remote EXCEPT ![nextId] = new]
    BY <2>1
  <2>3. /\ new \in Policies /\ new.type = op.plan.type
        /\ HasAll([controls |-> op.controls], op.plan) => Exact(new, op.plan)
    BY <1>4, WrittenIs
  <2>4. remote' \in [1 .. MaxId -> Policies \cup {None}] /\ remote'[nextId] = new
    BY <1>1, <2>2, <2>3, PutType
  <2>5. nextId' \in 1 .. MaxId + 1
    BY <1>1, <2>1, ShiftLeftPolicyAssumption
  <2>6. CASE outcome = "fine"
    <3>1. state' = Stored(op.plan, nextId) /\ drifted' = op.stale
      BY <2>6 DEF CreateShiftLeftPolicy
    <3>2. drifted' \in BOOLEAN /\ (~drifted' => ~op.stale)
      <4>1. op.stale \in BOOLEAN
        BY <1>1 DEF OpType
      <4> QED
        BY <3>1, <4>1, Zenon
    <3>3. state' \in States /\ state'.id = nextId /\ state'.plan = op.plan
      BY <1>1, <1>4, <3>1 DEF Stored, States
    <3>4. TypeOK'
      BY <1>1, <1>2, <1>3, <2>4, <2>5, <3>2, <3>3 DEF IInv, TypeOK, OpType
    <3>5. TypeKept'
      BY <2>3, <2>4, <3>3 DEF TypeKept
    <3>6. StoredInv'
      BY <1>1, <1>3, <1>4, <2>3, <2>4, <3>2, <3>3, CatalogSame DEF StoredInv
    <3> QED
      BY <1>3, <3>4, <3>5, <3>6 DEF IInv
  <2>7. CASE outcome # "fine"
    <3>1. UNCHANGED <<state, drifted>>
      BY <2>7 DEF CreateShiftLeftPolicy
    <3>2. TypeOK'
      BY <1>1, <1>2, <1>3, <2>4, <2>5, <3>1 DEF IInv, TypeOK, OpType
    <3>3. TypeKept' /\ StoredInv'
      BY <1>3, <1>4, <3>1 DEF TypeKept, StoredInv
    <3> QED
      BY <1>3, <3>2, <3>3 DEF IInv
  <2> QED
    BY <2>6, <2>7
<1>6. CASE outcome \notin {"fine", "lost"}
  <2>1. UNCHANGED <<state, remote, nextId, drifted>>
    BY <1>6 DEF CreateShiftLeftPolicy
  <2>2. TypeOK'
    BY <1>1, <1>2, <1>3, <2>1 DEF IInv, TypeOK, OpType
  <2> QED
    BY <1>1, <2>1, <2>2, Ended DEF IInv
<1> QED
  BY <1>5, <1>6

LEMMA UpdateKeeps ==
  ASSUME IInv, NEW outcome \in Outcomes, UpdateShiftLeftPolicy(outcome)
  PROVE  IInv'
<1>1. /\ op.pc = "write" /\ op.kind = "update" /\ op \in OpType /\ catalog \in Catalogs
      /\ state # None /\ op.id = state.id /\ op.id \in 1 .. MaxId
      /\ op.plan \in Plans /\ op.plan.type = state.plan.type
      /\ UNCHANGED <<config, state, nextId, catalog, unlucky>>
  BY Handling DEF UpdateShiftLeftPolicy, At, service, IInv, TypeOK, OpType, States
<1>2. edits' \in Nat /\ failures' \in Nat /\ changes' \in Nat
  BY Counted DEF UpdateShiftLeftPolicy
<1>3. /\ op.controls \in Seq(Controls)
      /\ \A i \in DOMAIN op.controls : Sound(op.controls[i], op.plan.type)
      /\ op.stale \/ HasAll([controls |-> op.controls], op.plan)
  BY <1>1 DEF IInv, SendInv, OpType
<1>4. drifted' = CASE outcome = "fine" -> op.stale [] outcome = "lost" -> TRUE
                   [] OTHER -> drifted
  BY DEF UpdateShiftLeftPolicy
<1>5. drifted' \in BOOLEAN /\ (outcome = "fine" /\ ~drifted' => ~op.stale)
      /\ (outcome = "lost" => drifted')
      /\ (outcome \notin {"fine", "lost"} => drifted' = drifted)
  <2>1. op.stale \in BOOLEAN /\ drifted \in BOOLEAN
    BY <1>1 DEF IInv, TypeOK, OpType
  <2>2. CASE outcome = "fine"
    <3>1. drifted' = op.stale
      BY <1>4, <2>2
    <3> QED
      BY <2>1, <2>2, <3>1, Zenon
  <2>3. CASE outcome = "lost"
    <3>1. drifted' = TRUE
      BY <1>4, <2>3
    <3> QED
      BY <2>1, <2>3, <3>1, Zenon
  <2>4. CASE outcome \notin {"fine", "lost"}
    <3>1. drifted' = drifted
      BY <1>4, <2>4
    <3>2. outcome # "fine" /\ outcome # "lost"
      BY <2>4
    <3> QED
      BY <2>1, <3>1, <3>2, Zenon
  <2> QED
    BY <2>2, <2>3, <2>4
<1>6. CASE outcome \in {"fine", "lost"}
  <2>1. PICK new \in Written(op.plan, op.controls, remote[op.id].projects) :
               remote' = [remote EXCEPT ![op.id] = new]
    BY <1>6 DEF UpdateShiftLeftPolicy
  <2>2. Exists(op.id) /\ remote[op.id] \in Policies
    BY <1>1, <1>6 DEF UpdateShiftLeftPolicy, CallOn, IInv, TypeOK, Exists
  <2>3. remote[op.id].projects \in Values \cup {Null}
    BY <2>2, PolicyHas
  <2>4. /\ new \in Policies /\ new.type = op.plan.type
        /\ HasAll([controls |-> op.controls], op.plan) => Exact(new, op.plan)
    BY <1>1, <1>3, <2>3, WrittenIs
  <2>5. remote' \in [1 .. MaxId -> Policies \cup {None}] /\ remote'[op.id] = new
    BY <1>1, <2>1, <2>4, PutType
  <2>6. TypeKept'
    BY <1>1, <2>4, <2>5 DEF TypeKept
  <2>7. CASE outcome = "fine"
    <3>1. op' = [op EXCEPT !.pc = "verify"]
      BY <2>7 DEF UpdateShiftLeftPolicy, Goto
    <3>2. /\ op' \in OpType /\ op'.pc = "verify"
          /\ op'.kind = op.kind /\ op'.id = op.id /\ op'.plan = op.plan
      <4>1. "verify" \in Calls
        BY DEF Calls
      <4> QED
        BY <1>1, <3>1, <4>1 DEF OpType
    <3>3. TypeOK'
      BY <1>1, <1>2, <1>5, <2>5, <3>2 DEF IInv, TypeOK, OpType
    <3>4. OpInv' /\ SendInv'
      BY <1>1, <3>2 DEF OpInv, SendInv, Writing
    <3>5. StoredInv'
      BY <1>1, <1>3, <1>5, <2>4, <2>5, <2>7, <3>2, CatalogSame DEF StoredInv
    <3> QED
      BY <2>6, <3>3, <3>4, <3>5 DEF IInv
  <2>8. CASE outcome = "lost"
    <3>1. End
      BY <2>8 DEF UpdateShiftLeftPolicy
    <3>2. OpInv' /\ SendInv' /\ op' \in OpType
      BY <3>1, EndOp DEF OpType
    <3>3. TypeOK'
      BY <1>1, <1>2, <1>5, <2>5, <3>2 DEF IInv, TypeOK, OpType
    <3>4. StoredInv'
      BY <1>5, <2>8 DEF StoredInv
    <3> QED
      BY <2>6, <3>2, <3>3, <3>4 DEF IInv
  <2> QED
    BY <1>6, <2>7, <2>8
<1>7. CASE outcome \notin {"fine", "lost"}
  <2>1. UNCHANGED remote /\ End
    BY <1>7 DEF UpdateShiftLeftPolicy
  <2>2. TypeOK'
    BY <1>1, <1>2, <1>5, <2>1, EndOp DEF IInv, TypeOK, OpType
  <2>3. drifted' = drifted
    BY <1>5, <1>7
  <2> QED
    BY <1>1, <2>1, <2>2, <2>3, Ended DEF IInv
<1> QED
  BY <1>6, <1>7

LEMMA VerifyKeeps ==
  ASSUME IInv, NEW outcome \in Outcomes, VerifyUpdate(outcome)
  PROVE  IInv'
<1>1. /\ op.pc = "verify" /\ op.kind = "update" /\ op \in OpType
      /\ state # None /\ op.id = state.id /\ op.id \in 1 .. MaxId
      /\ op.plan \in Plans /\ op.plan.type = state.plan.type /\ End
      /\ UNCHANGED <<config, remote, nextId, catalog, unlucky>>
  BY Handling DEF VerifyUpdate, At, service, IInv, TypeOK, OpType, States
<1>2. edits' \in Nat /\ failures' \in Nat /\ changes' \in Nat
  BY Counted DEF VerifyUpdate
<1>3. op'.kind = "none" /\ op'.pc = "" /\ OpInv' /\ SendInv' /\ op' \in OpType
  BY <1>1, EndOp DEF OpType
<1>4. CASE outcome = "fine"
  <2>1. state' = Stored(op.plan, op.id) /\ UNCHANGED drifted
    BY <1>4 DEF VerifyUpdate
  <2>2. state' \in States /\ state'.id = op.id /\ state'.plan = op.plan
    BY <1>1, <2>1 DEF Stored, States
  <2>3. TypeOK'
    BY <1>1, <1>2, <1>3, <2>1, <2>2 DEF IInv, TypeOK, OpType
  <2>4. TypeKept'
    BY <1>1, <2>2 DEF IInv, TypeKept, Exists
  <2>5. StoredInv'
    BY <1>1, <1>3, <2>1, <2>2, CatalogSame DEF IInv, StoredInv, Exists
  <2> QED
    BY <1>3, <2>3, <2>4, <2>5 DEF IInv
<1>5. CASE outcome # "fine"
  <2>1. UNCHANGED state /\ drifted' = TRUE
    BY <1>5 DEF VerifyUpdate
  <2>2. TypeOK'
    BY <1>1, <1>2, <1>3, <2>1 DEF IInv, TypeOK, OpType
  <2>3. TypeKept'
    BY <1>1, <2>1 DEF IInv, TypeKept, Exists
  <2>4. StoredInv'
    BY <2>1 DEF StoredInv
  <2> QED
    BY <1>3, <2>2, <2>3, <2>4 DEF IInv
<1> QED
  BY <1>4, <1>5

LEMMA HeadKeeps ==
  ASSUME IInv, NEW outcome \in Outcomes, DoesShiftLeftPolicyExist(outcome)
  PROVE  IInv'
<1>1. /\ op.pc = "head" /\ op.kind \in {"read", "import"} /\ op \in OpType
      /\ outcome \in {"fine", "refused", "unanswered"}
      /\ UNCHANGED <<config, remote, nextId, catalog, unlucky>>
  BY Handling DEF DoesShiftLeftPolicyExist, At, service, IInv, TypeOK, OpType
<1>2. edits' \in Nat /\ failures' \in Nat /\ changes' \in Nat
  BY Counted DEF DoesShiftLeftPolicyExist
<1>3. CASE outcome = "fine"
  <2>1. op' = [op EXCEPT !.pc = "get"] /\ UNCHANGED <<state, drifted>>
    BY <1>3 DEF DoesShiftLeftPolicyExist, Goto
  <2>2. /\ op' \in OpType /\ op'.pc = "get"
        /\ op'.kind = op.kind /\ op'.id = op.id /\ op'.plan = op.plan
    <3>1. "get" \in Calls
      BY DEF Calls
    <3> QED
      BY <1>1, <2>1, <3>1 DEF OpType
  <2>3. TypeOK'
    BY <1>1, <1>2, <2>1, <2>2 DEF IInv, TypeOK, OpType
  <2>4. OpInv' /\ SendInv'
    BY <1>1, <2>1, <2>2, Handling DEF OpInv, SendInv, Writing
  <2>5. TypeKept'
    BY <1>1, <2>1 DEF IInv, TypeKept, Exists
  <2>6. StoredInv'
    BY <1>1, <2>1, <2>2, CatalogSame DEF IInv, StoredInv, Exists
  <2> QED
    BY <2>3, <2>4, <2>5, <2>6 DEF IInv
<1>4. CASE outcome = "refused"
  <2>1. End /\ state' = None /\ drifted' = FALSE
    BY <1>4 DEF DoesShiftLeftPolicyExist
  <2>2. op'.kind = "none" /\ op'.pc = "" /\ OpInv' /\ SendInv' /\ op' \in OpType
    BY <2>1, EndOp DEF OpType
  <2>3. TypeOK'
    BY <1>1, <1>2, <2>1, <2>2 DEF IInv, TypeOK, OpType
  <2>4. TypeKept' /\ StoredInv'
    BY <2>1, <2>2 DEF TypeKept, StoredInv
  <2> QED
    BY <2>2, <2>3, <2>4 DEF IInv
<1>5. CASE outcome = "unanswered"
  <2>1. End /\ UNCHANGED <<state, drifted>>
    BY <1>5 DEF DoesShiftLeftPolicyExist
  <2>2. TypeOK'
    BY <1>1, <1>2, <2>1, EndOp DEF IInv, TypeOK, OpType
  <2> QED
    BY <1>1, <2>1, <2>2, Ended DEF IInv
<1> QED
  BY <1>1, <1>3, <1>4, <1>5

LEMMA GetKeeps ==
  ASSUME IInv, NEW outcome \in Outcomes, GetShiftLeftPolicy(outcome)
  PROVE  IInv'
<1>1. /\ op.pc = "get" /\ op.kind \in {"read", "import"} /\ op \in OpType
      /\ op.id \in 1 .. MaxId /\ catalog \in Catalogs /\ End
      /\ UNCHANGED <<config, remote, nextId, catalog, unlucky, drifted>>
  BY Handling DEF GetShiftLeftPolicy, At, service, IInv, TypeOK, OpType, States
<1>2. edits' \in Nat /\ failures' \in Nat /\ changes' \in Nat
  BY Counted DEF GetShiftLeftPolicy
<1>3. op'.kind = "none" /\ op'.pc = "" /\ OpInv' /\ SendInv' /\ op' \in OpType
  BY <1>1, EndOp DEF OpType
<1>4. CASE outcome = "fine"
  <2> DEFINE policy == remote[op.id]
  <2>1. PICK scope \in SetToSeqs(policy.scope) :
           state' = [id |-> op.id, builtin |-> policy.builtin,
                     plan |-> ApiToState(policy, op.plan, scope)]
    BY <1>4 DEF GetShiftLeftPolicy
  <2>2. Exists(op.id) /\ policy \in Policies
    BY <1>1, <1>4 DEF GetShiftLeftPolicy, CallOn, IInv, TypeOK, Exists
  <2>3. /\ op.plan \in Plans \cup {None}
        /\ op.plan # None => op.plan.type = policy.type
    BY <1>1, <2>2, Handling DEF IInv, TypeKept, OpType
  <2>4. ~drifted => Exact(policy, ApiToState(policy, op.plan, scope))
    <3>1. CASE op.kind = "import"
      <4>1. ~drifted => Completed(policy)
        BY <2>2, <3>1 DEF IInv, StoredInv
      <4>2. op.plan = None
        BY <3>1, Handling
      <4> QED
        BY <1>1, <2>2, <4>1, <4>2, ImportIsExact
    <3>2. CASE op.kind = "read"
      <4>1. op.id = state.id /\ op.plan = state.plan /\ state # None
        BY <3>2, Handling
      <4>2. ~drifted => Exact(policy, op.plan)
        BY <1>1, <2>2, <4>1 DEF IInv, StoredInv
      <4>3. op.plan \in Plans /\ op.plan.type = policy.type
        BY <2>2, <4>1 DEF IInv, TypeOK, States, TypeKept
      <4> QED
        BY <1>1, <2>2, <4>2, <4>3, RefreshIsExact
    <3> QED
      BY <1>1, <3>1, <3>2
  <2>5. ApiToState(policy, op.plan, scope) \in Plans
    BY <2>2, <2>3, ApiToStateType
  <2>6. ApiToState(policy, op.plan, scope).type = policy.type
    BY ApiToStateFields
  <2> DEFINE plan == ApiToState(policy, op.plan, scope)
  <2> HIDE DEF policy, plan
  <2>7. state' \in States /\ state'.id = op.id /\ state'.plan = plan
    <3>1. policy.builtin \in BOOLEAN
      BY <2>2, PolicyHas
    <3> QED
      BY <1>1, <2>1, <2>5, <3>1 DEF States, plan
  <2>8. TypeOK'
    BY <1>1, <1>2, <1>3, <2>7 DEF IInv, TypeOK, OpType
  <2>9. TypeKept'
    BY <1>1, <2>6, <2>7 DEF TypeKept, policy, plan
  <2>10. StoredInv'
    BY <1>1, <1>3, <2>4, <2>7, CatalogSame DEF StoredInv, policy, plan
  <2> QED
    BY <1>3, <2>8, <2>9, <2>10 DEF IInv
<1>5. CASE outcome # "fine"
  <2>1. UNCHANGED state
    BY <1>5 DEF GetShiftLeftPolicy
  <2>2. TypeOK'
    BY <1>1, <1>2, <1>3, <2>1 DEF IInv, TypeOK, OpType
  <2> QED
    BY <1>1, <2>1, <2>2, Ended DEF IInv
<1> QED
  BY <1>4, <1>5

LEMMA Positive ==
  ASSUME NEW n \in 0 .. MaxId, n # 0
  PROVE  n \in 1 .. MaxId
  BY ShiftLeftPolicyAssumption

(* A policy goes.                                                          *)
LEMMA GoneKeeps ==
  ASSUME IInv, UNCHANGED <<state, catalog, drifted>>,
         NEW id \in 1 .. MaxId, remote' = [remote EXCEPT ![id] = None],
         \/ UNCHANGED op
         \/ op'.kind = "none" /\ op'.pc = "" /\ op.pc # "verify"
  PROVE  TypeKept' /\ StoredInv'
<1>1. \A i \in 1 .. MaxId : remote'[i] # None => remote'[i] = remote[i]
  BY PutType
<1>2. state # None => state.id \in 1 .. MaxId
  BY DEF IInv, TypeOK, States
<1>3. op.pc = "verify" \/ op.kind = "import" => op.id \in 1 .. MaxId
  <2>1. CASE op.pc = "verify"
    BY <1>2, <2>1, Handling
  <2>2. CASE op.kind = "import"
    <3>1. op.id \in 0 .. MaxId /\ op.id # 0
      BY <2>2, Handling DEF IInv, TypeOK
    <3> QED
      BY <3>1, Positive
  <2> QED
    BY <2>1, <2>2
<1>4. TypeKept'
  BY <1>1, <1>2 DEF IInv, TypeKept, Exists
<1>5. StoredInv'
  BY <1>1, <1>2, <1>3, CatalogSame DEF IInv, StoredInv, Exists
<1> QED
  BY <1>4, <1>5

LEMMA DeleteKeeps ==
  ASSUME IInv, NEW outcome \in Outcomes, DeleteShiftLeftPolicy(outcome)
  PROVE  IInv'
<1>1. /\ op.pc = "delete" /\ op.kind = "delete" /\ op \in OpType
      /\ op.id \in 1 .. MaxId /\ End
      /\ UNCHANGED <<config, nextId, catalog, unlucky>>
  BY Handling DEF DeleteShiftLeftPolicy, At, service, IInv, TypeOK, OpType, States
<1>2. edits' \in Nat /\ failures' \in Nat /\ changes' \in Nat
  BY Counted DEF DeleteShiftLeftPolicy
<1>3. op'.kind = "none" /\ op'.pc = "" /\ OpInv' /\ SendInv' /\ op' \in OpType
  BY <1>1, EndOp DEF OpType
<1>4. remote' = [remote EXCEPT ![op.id] = None] \/ UNCHANGED remote
  BY DEF DeleteShiftLeftPolicy
<1>5. remote' \in [1 .. MaxId -> Policies \cup {None}]
  BY <1>1, <1>4, PutType DEF IInv, TypeOK
<1>6. (state' = None /\ drifted' = FALSE) \/ UNCHANGED <<state, drifted>>
  BY DEF DeleteShiftLeftPolicy
<1>7. TypeOK'
  BY <1>1, <1>2, <1>3, <1>5, <1>6 DEF IInv, TypeOK, OpType
<1>8. CASE state' = None
  BY <1>3, <1>7, <1>8 DEF IInv, TypeKept, StoredInv
<1>9. CASE UNCHANGED <<state, drifted>>
  <2>1. CASE remote' = [remote EXCEPT ![op.id] = None]
    BY <1>1, <1>3, <1>7, <1>9, <2>1, GoneKeeps DEF IInv
  <2>2. CASE UNCHANGED remote
    BY <1>1, <1>7, <1>9, <2>2, Ended DEF IInv
  <2> QED
    BY <1>4, <2>1, <2>2
<1> QED
  BY <1>6, <1>8, <1>9

(* The console.                                                            *)
LEMMA WithControls ==
  ASSUME NEW policy \in Policies, NEW controls \in Seq(Controls),
         \A i \in DOMAIN controls : Sound(controls[i], policy.type),
         NEW new, new = [policy EXCEPT !.controls = controls]
  PROVE  new \in Policies /\ new.type = policy.type
<1>1. policy \in [type : Types, builtin : BOOLEAN, description : Values \cup {Null, Empty},
                 projects : Values \cup {Null}, controls : Seq(Controls), scope : SUBSET Values]
  BY DEF Policies
<1>2. /\ new \in [type : Types, builtin : BOOLEAN, description : Values \cup {Null, Empty},
                 projects : Values \cup {Null}, controls : Seq(Controls), scope : SUBSET Values]
      /\ new.type = policy.type /\ new.scope = policy.scope /\ new.controls = controls
  BY <1>1
<1>3. IsFiniteSet(new.scope)
  BY <1>2, PolicyHas
<1> QED
  BY <1>2, <1>3 DEF Policies, Sound

LEMMA ChangedControlsSound ==
  ASSUME NEW list \in Seq(Controls), NEW type, NEW new \in ChangedControls(list),
         \A i \in DOMAIN list : Sound(list[i], type)
  PROVE  new \in Seq(Controls) /\ \A i \in DOMAIN new : Sound(new[i], type)
<1>1. \A i \in DOMAIN list : list[i] \in Controls
  OBVIOUS
<1>2. ASSUME NEW i \in DOMAIN list, NEW c \in Controls, Sound(c, type)
      PROVE  /\ [list EXCEPT ![i] = c] \in Seq(Controls)
             /\ \A j \in DOMAIN [list EXCEPT ![i] = c] : Sound([list EXCEPT ![i] = c][j], type)
  BY <1>2
<1>3. ASSUME NEW i \in DOMAIN list, NEW v \in Values
      PROVE  /\ [list EXCEPT ![i].level = v] \in Seq(Controls)
             /\ \A j \in DOMAIN list : Sound([list EXCEPT ![i].level = v][j], type)
             /\ DOMAIN [list EXCEPT ![i].level = v] = DOMAIN list
  <2> DEFINE c == [list[i] EXCEPT !.level = v]
  <2>1. c \in Controls /\ Sound(c, type)
    BY <1>1 DEF Controls, Sound
  <2>2. [list EXCEPT ![i].level = v] = [list EXCEPT ![i] = c]
    OBVIOUS
  <2> HIDE DEF c
  <2> QED
    BY <1>2, <2>1, <2>2
<1>4. ASSUME NEW i \in DOMAIN list, NEW v \in Values
      PROVE  /\ [list EXCEPT ![i].cond = v] \in Seq(Controls)
             /\ \A j \in DOMAIN list : Sound([list EXCEPT ![i].cond = v][j], type)
             /\ DOMAIN [list EXCEPT ![i].cond = v] = DOMAIN list
  <2> DEFINE c == [list[i] EXCEPT !.cond = v]
  <2>1. c \in Controls /\ Sound(c, type)
    BY <1>1 DEF Controls, Sound
  <2>2. [list EXCEPT ![i].cond = v] = [list EXCEPT ![i] = c]
    OBVIOUS
  <2> HIDE DEF c
  <2> QED
    BY <1>2, <2>1, <2>2
<1>5. ASSUME NEW i \in DOMAIN list
      PROVE  /\ RemoveAt(list, i) \in Seq(Controls)
             /\ \A j \in DOMAIN RemoveAt(list, i) : Sound(RemoveAt(list, i)[j], type)
  BY RemovedIsPart
<1>6. ASSUME NEW i \in DOMAIN list
      PROVE  /\ [list EXCEPT ![1] = list[i], ![i] = list[1]] \in Seq(Controls)
             /\ \A j \in DOMAIN list :
                   Sound([list EXCEPT ![1] = list[i], ![i] = list[1]][j], type)
             /\ DOMAIN [list EXCEPT ![1] = list[i], ![i] = list[1]] = DOMAIN list
  <2> DEFINE l == [list EXCEPT ![1] = list[i], ![i] = list[1]]
  <2>1. 1 \in DOMAIN list
    OBVIOUS
  <2>2. /\ l \in Seq(Controls) /\ DOMAIN l = DOMAIN list
        /\ \A j \in DOMAIN list : l[j] \in {list[j], list[1], list[i]}
    BY <1>1, <2>1
  <2> HIDE DEF l
  <2>3. \A j \in DOMAIN list : Sound(l[j], type)
    BY <2>1, <2>2
  <2> QED
    BY <2>2, <2>3 DEF l
<1>7. CASE \E i \in DOMAIN list, v \in Values : new = [list EXCEPT ![i].level = v]
  <2> PICK i \in DOMAIN list, v \in Values : new = [list EXCEPT ![i].level = v]
    BY <1>7
  <2> QED
    BY <1>3, Zenon
<1>8. CASE \E i \in DOMAIN list, v \in Values : new = [list EXCEPT ![i].cond = v]
  <2> PICK i \in DOMAIN list, v \in Values : new = [list EXCEPT ![i].cond = v]
    BY <1>8
  <2> QED
    BY <1>4, Zenon
<1>9. CASE \E i \in DOMAIN list : new = RemoveAt(list, i)
  BY <1>5, <1>9
<1>10. CASE \E i \in DOMAIN list : new = [list EXCEPT ![1] = list[i], ![i] = list[1]]
  <2> PICK i \in DOMAIN list : new = [list EXCEPT ![1] = list[i], ![i] = list[1]]
    BY <1>10
  <2> QED
    BY <1>6, Zenon
<1> QED
  BY <1>7, <1>8, <1>9, <1>10 DEF ChangedControls

LEMMA ChangedType ==
  ASSUME NEW policy \in Policies, NEW new \in Changed(policy)
  PROVE  new \in Policies /\ new.type = policy.type
<1>1. /\ policy.controls \in Seq(Controls)
      /\ \A i \in DOMAIN policy.controls : Sound(policy.controls[i], policy.type)
  BY PolicyHas
<1>2. policy \in [type : Types, builtin : BOOLEAN, description : Values \cup {Null, Empty},
                 projects : Values \cup {Null}, controls : Seq(Controls), scope : SUBSET Values]
  BY DEF Policies
<1>3. CASE \E list \in ChangedControls(policy.controls) :
             new = [policy EXCEPT !.controls = list]
  BY <1>1, <1>3, ChangedControlsSound, WithControls
<1>4. CASE \/ \E v \in Values : new = [policy EXCEPT !.description = v]
           \/ \E v \in Values \cup {Null} : new = [policy EXCEPT !.projects = v]
  <2>1. /\ new \in [type : Types, builtin : BOOLEAN, description : Values \cup {Null, Empty},
                   projects : Values \cup {Null}, controls : Seq(Controls),
                   scope : SUBSET Values]
        /\ new.type = policy.type /\ new.scope = policy.scope
        /\ new.controls = policy.controls
    BY <1>2, <1>4
  <2>2. IsFiniteSet(new.scope)
    BY <2>1, PolicyHas
  <2> QED
    BY <1>1, <2>1, <2>2 DEF Policies, Sound
<1> QED
  BY <1>3, <1>4 DEF Changed

LEMMA ChangeOutsideKeeps ==
  ASSUME IInv, NEW id \in 1 .. MaxId, ChangeOutside(id)
  PROVE  IInv'
<1>1. /\ Exists(id) /\ changes' \in Nat /\ drifted' = TRUE
      /\ UNCHANGED <<config, state, nextId, unlucky, edits, failures, op, catalog>>
  BY DEF ChangeOutside, Outside, IInv, TypeOK
<1>2. remote[id] \in Policies
  BY <1>1 DEF IInv, TypeOK, Exists
<1>3. PICK new \in Changed(remote[id]) : remote' = [remote EXCEPT ![id] = new]
  BY DEF ChangeOutside
<1>4. new \in Policies /\ new.type = remote[id].type
  BY <1>2, <1>3, ChangedType
<1>5. /\ remote' \in [1 .. MaxId -> Policies \cup {None}] /\ remote'[id] = new
      /\ \A i \in 1 .. MaxId : i # id => remote'[i] = remote[i]
  BY <1>3, <1>4, PutType
<1>6. TypeOK'
  BY <1>1, <1>5 DEF IInv, TypeOK
<1>7. OpInv' /\ SendInv'
  BY <1>1, CatalogSame DEF IInv, OpInv, SendInv
<1>8. TypeKept'
  BY <1>1, <1>4, <1>5 DEF IInv, TypeOK, States, TypeKept, Exists
<1>9. StoredInv'
  BY <1>1 DEF StoredInv
<1> QED
  BY <1>6, <1>7, <1>8, <1>9 DEF IInv

LEMMA DeleteOutsideKeeps ==
  ASSUME IInv, NEW id \in 1 .. MaxId, DeleteOutside(id)
  PROVE  IInv'
<1>1. /\ changes' \in Nat /\ remote' = [remote EXCEPT ![id] = None]
      /\ UNCHANGED <<config, state, nextId, unlucky, edits, failures, op, catalog, drifted>>
  BY DEF DeleteOutside, Outside, IInv, TypeOK
<1>2. remote' \in [1 .. MaxId -> Policies \cup {None}]
  BY <1>1, PutType
<1>3. TypeOK'
  BY <1>1, <1>2 DEF IInv, TypeOK
<1>4. OpInv' /\ SendInv'
  BY <1>1, CatalogSame DEF IInv, OpInv, SendInv
<1> QED
  BY <1>1, <1>3, <1>4, GoneKeeps DEF IInv

LEMMA CatalogKeeps ==
  ASSUME IInv, NEW new \in Catalogs, ChangeCatalog(new)
  PROVE  IInv'
<1>1. /\ changes' \in Nat /\ drifted' = TRUE /\ catalog' = new /\ op \in OpType
      /\ op' = IF Idle THEN op ELSE [op EXCEPT !.stale = TRUE]
      /\ UNCHANGED <<config, state, nextId, unlucky, edits, failures, remote>>
  BY DEF ChangeCatalog, Outside, IInv, TypeOK, OpType
<1>2. /\ op' \in OpType /\ op'.kind = op.kind /\ op'.pc = op.pc /\ op'.id = op.id
      /\ op'.plan = op.plan /\ op'.controls = op.controls
      /\ Idle => op' = op
      /\ ~Idle => op'.stale
  BY <1>1 DEF OpType
<1>3. TypeOK'
  BY <1>1, <1>2 DEF IInv, TypeOK, OpType
<1>4. OpInv'
  BY <1>1, <1>2 DEF IInv, OpInv, Idle
<1>5. SendInv'
  <2>1. CASE Idle
    BY <1>2, <2>1, IdleOp DEF SendInv, Writing
  <2>2. CASE ~Idle
    BY <1>2, <2>2 DEF IInv, SendInv, Sound
  <2> QED
    BY <2>1, <2>2
<1>6. TypeKept'
  BY <1>1 DEF IInv, TypeKept, Exists
<1>7. StoredInv'
  BY <1>1 DEF StoredInv
<1> QED
  BY <1>3, <1>4, <1>5, <1>6, <1>7 DEF IInv

-----------------------------------------------------------------------------
LEMMA NextInv ==
  ASSUME IInv, [Next]_vars
  PROVE  IInv'
<1>1. CASE Apply
  BY <1>1, BeginCreateKeeps, BeginUpdateKeeps, BeginDeleteKeeps DEF Apply
<1>2. CASE BeginRead
  BY <1>2, BeginReadKeeps
<1>3. CASE Handler
  BY <1>3, AddAllKeeps, EnrichKeeps, CreateKeeps, UpdateKeeps, VerifyKeeps, HeadKeeps,
     GetKeeps, DeleteKeeps DEF Handler
<1>4. CASE Environment
  BY <1>4, EditKeeps, ImportKeeps, ChangeOutsideKeeps, DeleteOutsideKeeps, CatalogKeeps
     DEF Environment
<1>5. CASE UNCHANGED vars
  <2>1. TypeOK'
    BY <1>5 DEF IInv, TypeOK, vars, service, counters
  <2>2. UNCHANGED <<state, remote, nextId, catalog, op, drifted>>
    BY <1>5 DEF vars
  <2> QED
    BY <2>1, <2>2, Framed DEF IInv
<1> QED
  BY <1>1, <1>2, <1>3, <1>4, <1>5 DEF Next

(* The inductive invariant holds in every reachable state: what each       *)
(* handler is about, what it has made of its plan so far, and that what is *)
(* stored, or will be after the second call of an update, is what the      *)
(* service has.                                                            *)
THEOREM Invariance == Spec => []IInv
<1>1. IInv /\ [Next]_vars => IInv'
  BY NextInv
<1> QED
  BY <1>1, InitInv, PTL DEF Spec

(* The variables keep their types: what Read makes of any policy of the    *)
(* service is a plan again.                                                *)
THEOREM TypeCorrect == Spec => []TypeOK
<1>1. IInv => TypeOK
  BY DEF IInv
<1> QED
  BY <1>1, Invariance, PTL

(* Whatever is stored after a write (Create, Update), after a refresh of   *)
(* what was written, and after an import, the service has it, for any      *)
(* catalog, any configuration and any number of calls, until somebody      *)
(* interferes or an update ends with an error.                             *)
THEOREM Exactness == Spec => []StateIsExact
<1>1. IInv => StateIsExact
  BY IdleOp DEF IInv, StoredInv, StateIsExact
<1> QED
  BY <1>1, Invariance, PTL

-----------------------------------------------------------------------------
(* No policy is lost: one step.                                            *)
Kept ==
    \A id \in 1 .. MaxId :
         /\ Tracked(id) /\ Exists(id) /\ Exists(id)' =>
              \/ Tracked(id)'
              \/ failures' > failures /\ (At("head") \/ At("get") \/ (At("delete") /\ unlucky))
         /\ ~Exists(id) /\ Exists(id)' => Tracked(id)' \/ failures' > failures

LEMMA StillKept ==
  ASSUME UNCHANGED state, op.kind = "import" => op'.kind = "import" /\ op'.id = op.id,
         \A id \in 1 .. MaxId : Exists(id)' => Exists(id)
  PROVE  Kept
  BY DEF Kept, Tracked

LEMMA WriteKept ==
  ASSUME IInv, NEW outcome \in Outcomes,
         \/ CreateShiftLeftPolicy(outcome) \/ UpdateShiftLeftPolicy(outcome)
         \/ VerifyUpdate(outcome)
  PROVE  Kept
<1>1. CASE CreateShiftLeftPolicy(outcome)
  <2>1. state = None /\ op.kind = "create" /\ nextId \in 1 .. MaxId
    BY <1>1, Handling, ShiftLeftPolicyAssumption DEF CreateShiftLeftPolicy, IInv, TypeOK
  <2>2. CASE outcome = "fine"
    <3>1. PICK new \in Written(op.plan, op.controls, Null) :
                 remote' = [remote EXCEPT ![nextId] = new]
      BY <1>1, <2>2 DEF CreateShiftLeftPolicy
    <3>2. \A id \in 1 .. MaxId : id # nextId => remote'[id] = remote[id]
      BY <3>1 DEF IInv, TypeOK
    <3>3. state' = Stored(op.plan, nextId)
      BY <1>1, <2>2 DEF CreateShiftLeftPolicy
    <3>4. state' # None /\ state'.id = nextId
      <4>1. state' \in States
        BY <2>1, <3>3, Handling DEF Stored, States
      <4> QED
        BY <3>3, <4>1, Markers DEF Stored
    <3> QED
      BY <2>1, <3>2, <3>4 DEF Kept, Tracked, Exists
  <2>3. CASE outcome # "fine"
    <3>1. failures' > failures /\ UNCHANGED state
      BY <1>1, <2>3, Counted DEF CreateShiftLeftPolicy
    <3> QED
      BY <2>1, <3>1 DEF Kept, Tracked
  <2> QED
    BY <2>2, <2>3
<1>2. CASE UpdateShiftLeftPolicy(outcome)
  <2>1. /\ op.kind = "update" /\ UNCHANGED state /\ op.id \in 1 .. MaxId
    BY <1>2, Handling DEF UpdateShiftLeftPolicy, IInv, TypeOK, States
  <2>2. CASE outcome \in {"fine", "lost"}
    <3>1. Exists(op.id)
      BY <1>2, <2>2 DEF UpdateShiftLeftPolicy, CallOn
    <3>2. PICK new \in Written(op.plan, op.controls, remote[op.id].projects) :
                 remote' = [remote EXCEPT ![op.id] = new]
      BY <1>2, <2>2 DEF UpdateShiftLeftPolicy
    <3>3. \A id \in 1 .. MaxId : id # op.id => remote'[id] = remote[id]
      BY <3>2 DEF IInv, TypeOK
    <3>4. \A id \in 1 .. MaxId : Exists(id)' => Exists(id)
      BY <3>1, <3>3 DEF Exists
    <3> QED
      BY <2>1, <3>4, StillKept
  <2>3. CASE outcome \notin {"fine", "lost"}
    <3>1. UNCHANGED remote
      BY <1>2, <2>3 DEF UpdateShiftLeftPolicy
    <3> QED
      BY <2>1, <3>1, StillKept DEF Exists
  <2> QED
    BY <2>2, <2>3
<1>3. CASE VerifyUpdate(outcome)
  <2>1. /\ op.kind = "update" /\ op.id = state.id /\ state # None /\ UNCHANGED remote
        /\ op.plan \in Plans /\ op.id \in 1 .. MaxId
    BY <1>3, Handling DEF VerifyUpdate, At, IInv, TypeOK, States
  <2>2. state' = Stored(op.plan, op.id) \/ UNCHANGED state
    BY <1>3 DEF VerifyUpdate
  <2>3. state' # None /\ state'.id = op.id
    <3>1. Stored(op.plan, op.id) \in States /\ Stored(op.plan, op.id).id = op.id
      BY <2>1 DEF Stored, States
    <3> QED
      BY <2>1, <2>2, <3>1, Markers
  <2> QED
    BY <2>1, <2>3 DEF Kept, Tracked, Exists
<1> QED
  BY <1>1, <1>2, <1>3

LEMMA ReadKept ==
  ASSUME IInv, NEW outcome \in Outcomes,
         DoesShiftLeftPolicyExist(outcome) \/ GetShiftLeftPolicy(outcome)
  PROVE  Kept
<1>1. /\ op.kind \in {"read", "import"} /\ UNCHANGED remote
      /\ At("head") \/ At("get")
      /\ \A id \in 1 .. MaxId : Tracked(id) => id = op.id
  BY Handling DEF DoesShiftLeftPolicyExist, GetShiftLeftPolicy, At, Tracked
<1>2. outcome # "fine" /\ Exists(op.id) => failures' > failures
  BY Counted DEF DoesShiftLeftPolicyExist, GetShiftLeftPolicy
<1>3. CASE outcome = "fine"
  <2>1. CASE DoesShiftLeftPolicyExist(outcome)
    <3>1. op' = [op EXCEPT !.pc = "get"] /\ UNCHANGED state
      BY <1>3, <2>1 DEF DoesShiftLeftPolicyExist, Goto
    <3>2. op'.kind = op.kind /\ op'.id = op.id
      BY <3>1 DEF IInv, TypeOK
    <3> QED
      BY <1>1, <3>1, <3>2, StillKept DEF Exists
  <2>2. CASE GetShiftLeftPolicy(outcome)
    <3>1. PICK scope \in SetToSeqs(remote[op.id].scope) :
             state' = [id |-> op.id, builtin |-> remote[op.id].builtin,
                       plan |-> ApiToState(remote[op.id], op.plan, scope)]
      BY <1>3, <2>2 DEF GetShiftLeftPolicy
    <3>2. state'.id = op.id
      BY <3>1
    <3>3. state' # None
      <4>1. op.id \in 1 .. MaxId /\ Exists(op.id)
        BY <1>1, <1>3, <2>2, Handling, Positive
           DEF GetShiftLeftPolicy, CallOn, IInv, TypeOK, States
      <4>2. remote[op.id] \in Policies
        BY <4>1 DEF Exists, IInv, TypeOK
      <4>3. op.plan \in Plans \cup {None} /\ (op.plan # None => op.plan.type = remote[op.id].type)
        BY <1>1, <4>1, Handling DEF IInv, TypeOK, TypeKept
      <4>4. ApiToState(remote[op.id], op.plan, scope) \in Plans /\ remote[op.id].builtin \in BOOLEAN
        BY <4>2, <4>3, ApiToStateType, PolicyHas
      <4>5. state' \in States
        BY <3>1, <4>1, <4>4 DEF States
      <4> QED
        BY <4>5, Markers
    <3> QED
      BY <1>1, <3>2, <3>3 DEF Kept, Tracked, Exists
  <2> QED
    BY <2>1, <2>2
<1>4. CASE outcome # "fine"
  BY <1>1, <1>2, <1>4 DEF Kept, Exists
<1> QED
  BY <1>3, <1>4

LEMMA DeleteKept ==
  ASSUME IInv, NEW outcome \in Outcomes, DeleteShiftLeftPolicy(outcome)
  PROVE  Kept
<1>1. /\ op.kind = "delete" /\ op.id = state.id /\ op.id \in 1 .. MaxId /\ At("delete")
      /\ \A id \in 1 .. MaxId : Tracked(id) => id = op.id
  BY Handling DEF DeleteShiftLeftPolicy, At, Tracked, IInv, TypeOK, States
<1>2. outcome # "fine" /\ Exists(op.id) => failures' > failures
  BY Counted DEF DeleteShiftLeftPolicy
<1>3. remote' = IF outcome \in {"fine", "lost"} THEN [remote EXCEPT ![op.id] = None] ELSE remote
  BY DEF DeleteShiftLeftPolicy
<1>4. \A id \in 1 .. MaxId : Exists(id)' => Exists(id)
  BY <1>3 DEF IInv, TypeOK, Exists
<1>5. outcome = "fine" => remote'[op.id] = None
  BY <1>1, <1>3 DEF IInv, TypeOK, Exists
<1>6. CASE \/ outcome = "fine" \/ ~Exists(op.id)
           \/ outcome \in {"unanswered", "lost"} /\ unlucky
  BY <1>1, <1>2, <1>4, <1>5, <1>6 DEF Kept, Exists
<1>7. CASE ~(\/ outcome = "fine" \/ ~Exists(op.id)
             \/ outcome \in {"unanswered", "lost"} /\ unlucky)
  <2>1. UNCHANGED state
    BY <1>7 DEF DeleteShiftLeftPolicy
  <2> QED
    BY <1>1, <1>4, <2>1, StillKept
<1> QED
  BY <1>6, <1>7

LEMMA OutsideKept ==
  ASSUME IInv, NEW id \in 1 .. MaxId, ChangeOutside(id) \/ DeleteOutside(id)
  PROVE  Kept
<1>1. UNCHANGED <<state, op>> /\ Exists(id)
  BY DEF ChangeOutside, DeleteOutside, Outside
<1>2. \E new : remote' = [remote EXCEPT ![id] = new]
  BY DEF ChangeOutside, DeleteOutside
<1>3. \A i \in 1 .. MaxId : i # id => remote'[i] = remote[i]
  BY <1>2 DEF IInv, TypeOK
<1>4. \A i \in 1 .. MaxId : Exists(i)' => Exists(i)
  BY <1>1, <1>3 DEF Exists
<1> QED
  BY <1>1, <1>4, StillKept

LEMMA NextKept ==
  ASSUME IInv, [Next]_vars
  PROVE  Kept
<1>1. CASE Idle /\ UNCHANGED <<state, remote>>
  BY <1>1, IdleOp, StillKept DEF Exists
<1>2. CASE Apply \/ BeginRead
  BY <1>1, <1>2
     DEF Apply, BeginRead, BeginCreate, BeginUpdate, BeginDelete
<1>3. CASE Handler
  <2> PICK outcome \in Outcomes :
        \/ AddAllCatalogControls(outcome) \/ EnrichShiftLeftPolicyFromCatalog(outcome)
        \/ CreateShiftLeftPolicy(outcome) \/ UpdateShiftLeftPolicy(outcome)
        \/ VerifyUpdate(outcome)
        \/ DoesShiftLeftPolicyExist(outcome) \/ GetShiftLeftPolicy(outcome)
        \/ DeleteShiftLeftPolicy(outcome)
    BY <1>3 DEF Handler
  <2>1. CASE AddAllCatalogControls(outcome) \/ EnrichShiftLeftPolicyFromCatalog(outcome)
    <3>1. op.kind # "import" /\ UNCHANGED <<state, remote>>
      BY <2>1, Handling
         DEF AddAllCatalogControls, EnrichShiftLeftPolicyFromCatalog, At, Writing
    <3> QED
      BY <3>1, StillKept DEF Exists
  <2> QED
    BY <2>1, WriteKept, ReadKept, DeleteKept
<1>4. CASE Environment
  <2>1. CASE \E new \in Configs \cup {None} : EditConfig(new)
    BY <1>1, <2>1 DEF EditConfig
  <2>2. CASE \E id \in 1 .. MaxId : ImportState(id)
    BY <1>1, <2>2 DEF ImportState
  <2>3. CASE \E id \in 1 .. MaxId : ChangeOutside(id) \/ DeleteOutside(id)
    BY <2>3, OutsideKept
  <2>4. CASE \E new \in Catalogs : ChangeCatalog(new)
    <3>1. /\ op' = IF Idle THEN op ELSE [op EXCEPT !.stale = TRUE]
          /\ UNCHANGED <<state, remote>>
      BY <2>4 DEF ChangeCatalog, Outside
    <3>2. op'.kind = op.kind /\ op'.id = op.id
      BY <3>1 DEF IInv, TypeOK
    <3> QED
      BY <3>1, <3>2, StillKept DEF Exists
  <2> QED
    BY <1>4, <2>1, <2>2, <2>3, <2>4 DEF Environment
<1>5. CASE UNCHANGED vars
  BY <1>5, StillKept DEF vars, Exists
<1> QED
  BY <1>2, <1>3, <1>4, <1>5 DEF Next

(* A policy is forgotten, or never known, only when a HEAD or the GET of   *)
(* an import is answered with an error, when a POST reports an error and   *)
(* took effect, and when a DELETE that has not taken effect gets no answer *)
(* and the id contains "404".                                              *)
THEOREM PoliciesAreKept == Spec => NeverLost
<1>1. IInv /\ [Next]_vars => Kept
  BY NextKept
<1>2. Kept => \A id \in 1 .. MaxId :
         /\ Tracked(id) /\ Exists(id) /\ Exists(id)' =>
              \/ Tracked(id)'
              \/ failures' > failures /\ (At("head") \/ At("get") \/ (At("delete") /\ unlucky))
         /\ ~Exists(id) /\ Exists(id)' => Tracked(id)' \/ failures' > failures
  BY DEF Kept
<1> QED
  BY <1>1, <1>2, Invariance, PTL DEF Spec, NeverLost
===============================================================================
