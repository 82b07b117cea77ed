--------------------------- MODULE BusinessUnitProofs ---------------------------
(***************************************************************************)
(* Proofs about business units, for any values, configurations, edits,     *)
(* failures and changes.                                                   *)
(*                                                                         *)
(* The heart of it is what Create and Update choose to send: for every     *)
(* configuration that the documentation allows, nothing that is configured *)
(* is left out (CreateSendsAll, UpdateSendsAll).                           *)
(***************************************************************************)
EXTENDS BusinessUnit, FiniteSetTheorems, TLAPS

(* What the state or a plan says of an attribute of the service.           *)
Meant(row, a) == IF a = "cloud_vendor_id" THEN getCloudVendorIds(row) ELSE row.at[a]

(* The service has what the plan says.                                     *)
Matches(plan, unit) ==
    \A a \in RemoteAttributes :
        Meant(plan, a) = unit.at[a] \/ (merges /\ Meant(plan, a) = Null)

OpInv ==
    /\ op.kind = "none" => op = NoOp
    /\ op.kind = "create" =>
          /\ state = None /\ op.plan \in Plans
          /\ \/ op.pc = "post" /\ op.id = 0 /\ nextId <= MaxId
             \/ op.pc = "create-get" /\ op.id \in 1 .. MaxId /\ op.plan.global = Null
    /\ op.kind \in {"read", "update", "delete"} => state # None /\ op.id = state.id
    /\ op.kind = "read" => op.pc \in {"head", "read-get"}
    /\ op.kind = "update" => op.pc \in {"put", "verify"} /\ op.plan \in Plans
    /\ op.kind = "delete" => op.pc = "delete"

(* What is stored, but for an update that has sent another plan.           *)
StateInv ==
    state # None /\ ~At("verify") /\ ~suspect /\ Documented(state) /\ Exists(state.id) =>
        state.global = remote[state.id].global /\ Matches(state, remote[state.id])

(* What has been sent and is yet to be stored.                             *)
PlanInv ==
    /\ At("verify") /\ ~suspect /\ Documented(op.plan) /\ Exists(op.id) =>
          op.plan.global = remote[op.id].global /\ Matches(op.plan, remote[op.id])
    /\ At("create-get") /\ ~suspect /\ Documented(op.plan) /\ Exists(op.id) =>
          Matches(op.plan, remote[op.id])

Inv ==
    /\ TypeOK
    /\ OpInv
    /\ StateInv
    /\ PlanInv

-----------------------------------------------------------------------------
(* What is sent of a documented configuration.                             *)

LEMMA NoTwo ==
    ASSUME NEW S, IsFiniteSet(S), Cardinality(S) <= 1, NEW a \in S, NEW b \in S
    PROVE  a = b
<1> SUFFICES ASSUME a # b PROVE FALSE
  OBVIOUS
<1>1. IsFiniteSet({a}) /\ Cardinality({a}) = 1
  BY FS_Singleton
<1>2. IsFiniteSet({a} \cup {b}) /\ Cardinality({a} \cup {b}) = 2
  <2>1. b \notin {a}
    OBVIOUS
  <2>2. /\ IsFiniteSet({a} \cup {b})
        /\ Cardinality({a} \cup {b}) = IF b \in {a} THEN Cardinality({a}) ELSE Cardinality({a}) + 1
    BY <1>1, FS_AddElement
  <2> QED
    BY <1>1, <2>1, <2>2
<1>3. Cardinality({a} \cup {b}) <= Cardinality(S) /\ Cardinality(S) \in Nat
  BY <1>2, FS_Subset, FS_CardinalityType
<1> QED
  BY <1>2, <1>3

LEMMA AttributesFinite == IsFiniteSet(Attributes)
<1>1. IsFiniteSet({"cloud_providers", "cloud_vendor_id", "cloud_account_tags", "cloud_tags"})
  <2>1. IsFiniteSet({} \cup {"cloud_providers"})
    BY FS_EmptySet, FS_AddElement
  <2>2. IsFiniteSet(({} \cup {"cloud_providers"}) \cup {"cloud_vendor_id"})
    BY <2>1, FS_AddElement
  <2>3. IsFiniteSet((({} \cup {"cloud_providers"}) \cup {"cloud_vendor_id"})
                      \cup {"cloud_account_tags"})
    BY <2>2, FS_AddElement
  <2>4. IsFiniteSet(((({} \cup {"cloud_providers"}) \cup {"cloud_vendor_id"})
                       \cup {"cloud_account_tags"}) \cup {"cloud_tags"})
    BY <2>3, FS_AddElement
  <2>5. ((({} \cup {"cloud_providers"}) \cup {"cloud_vendor_id"})
           \cup {"cloud_account_tags"}) \cup {"cloud_tags"}
        = {"cloud_providers", "cloud_vendor_id", "cloud_account_tags", "cloud_tags"}
    OBVIOUS
  <2> QED
    BY <2>4, <2>5
<1>2. IsFiniteSet({"custom_tags"}) /\ IsFiniteSet({"projects"}) /\ IsFiniteSet({"owner"})
      /\ IsFiniteSet({"cloud_account_ids"})
  BY FS_Singleton
<1>3. IsFiniteSet(FilterTypes)
  <2>1. FilterTypes = {"cloud_providers", "cloud_vendor_id", "cloud_account_tags", "cloud_tags"}
                        \cup {"custom_tags"}
    BY DEF FilterTypes
  <2>2. IsFiniteSet({"cloud_providers", "cloud_vendor_id", "cloud_account_tags", "cloud_tags"}
                      \cup {"custom_tags"})
    BY <1>1, <1>2, FS_Union
  <2> QED
    BY <2>1, <2>2
<1>4. IsFiniteSet({"projects", "owner"})
  <2>1. {"projects", "owner"} = {"projects"} \cup {"owner"}
    OBVIOUS
  <2>2. IsFiniteSet({"projects"} \cup {"owner"})
    BY <1>2, FS_Union
  <2> QED
    BY <2>1, <2>2
<1> QED
  BY <1>2, <1>3, <1>4, FS_Union DEF Attributes, RemoteAttributes

(* A documented configuration has one type of filter, or cloud accounts    *)
(* and projects.                                                           *)
LEMMA OneType ==
    ASSUME NEW plan, Documented(plan)
    PROVE  /\ \A a \in Attributes : plan.at[a] # Empty
           /\ \A a, b \in FilterTypes : Configured(plan, a) /\ Configured(plan, b) => a = b
           /\ \A a \in FilterTypes :
                 Configured(plan, a) /\ Configured(plan, "projects") => a = "cloud_vendor_id"
<1> DEFINE types == {a \in Attributes \ {"owner"} : plan.at[a] # Null}
<1>1. IsFiniteSet(types)
  BY AttributesFinite, FS_Subset
<1>2. /\ \A a \in Attributes : plan.at[a] # Empty
      /\ \/ Cardinality(types) <= 1
         \/ types = {"cloud_vendor_id", "projects"}
         \/ types = {"cloud_account_ids", "projects"}
  BY DEF Documented
<1>3. \/ \A a, b \in types : a = b
      \/ types = {"cloud_vendor_id", "projects"}
      \/ types = {"cloud_account_ids", "projects"}
  <2> HIDE DEF types
  <2> QED
    BY <1>1, <1>2, NoTwo
<1>4. \A a \in FilterTypes \cup {"projects"} :
         Configured(plan, a) => a \in types \/ (a = "cloud_vendor_id" /\ "cloud_account_ids" \in types)
  BY DEF Configured, Given, getCloudVendorIds, FilterTypes, Attributes, RemoteAttributes
<1>5. "cloud_account_ids" \notin FilterTypes \cup {"projects"} /\ "projects" \notin FilterTypes
  BY DEF FilterTypes
<1> HIDE DEF types
<1>6. \A a, b \in FilterTypes \cup {"projects"} :
         Configured(plan, a) /\ Configured(plan, b) =>
            a = b \/ {a, b} = {"cloud_vendor_id", "projects"}
  <2> SUFFICES ASSUME NEW a \in FilterTypes \cup {"projects"}, NEW b \in FilterTypes \cup {"projects"},
                      Configured(plan, a), Configured(plan, b), a # b
               PROVE  {a, b} = {"cloud_vendor_id", "projects"}
    OBVIOUS
  <2>1. \/ a \in types \/ (a = "cloud_vendor_id" /\ "cloud_account_ids" \in types)
    BY <1>4
  <2>2. \/ b \in types \/ (b = "cloud_vendor_id" /\ "cloud_account_ids" \in types)
    BY <1>4
  <2>3. CASE \A x, y \in types : x = y
    BY <1>5, <2>1, <2>2, <2>3
  <2>4. CASE types = {"cloud_vendor_id", "projects"}
    BY <1>5, <2>1, <2>2, <2>4
  <2>5. CASE types = {"cloud_account_ids", "projects"}
    BY <1>5, <2>1, <2>2, <2>5
  <2> QED
    BY <1>3, <2>3, <2>4, <2>5
<1> QED
  BY <1>2, <1>5, <1>6

(* A filter that alone is configured of a list is the one that is sent.    *)
LEMMA FirstSends ==
    ASSUME NEW order, NEW plan, DOMAIN order \subseteq Nat,
           \A i, j \in DOMAIN order : order[i] = order[j] => i = j,
           NEW at \in DOMAIN order, Configured(plan, order[at]),
           \A i \in DOMAIN order : Configured(plan, order[i]) => order[i] = order[at]
    PROVE  First(order, plan) = {order[at]}
<1>1. {i \in DOMAIN order : Configured(plan, order[i])} = {at}
  OBVIOUS
<1>2. Min({at}) = at
  BY DEF Min
<1> QED
  BY <1>1, <1>2 DEF First

LEMMA FirstOfNone ==
    ASSUME NEW order, NEW plan, \A i \in DOMAIN order : ~Configured(plan, order[i])
    PROVE  First(order, plan) = {}
BY DEF First

(* The orders of the conditions.                                           *)
Lists(order, types) ==
    /\ DOMAIN order \subseteq Nat
    /\ \A i, j \in DOMAIN order : order[i] = order[j] => i = j
    /\ \A i \in DOMAIN order : order[i] \in types
    /\ \A a \in types : \E i \in DOMAIN order : order[i] = a

CreateOrder == <<"cloud_providers", "cloud_vendor_id", "custom_tags", "cloud_account_tags",
                 "cloud_tags">>
UpdateOrder == <<"cloud_providers", "custom_tags", "cloud_tags", "cloud_account_tags",
                 "cloud_vendor_id">>

LEMMA OrdersList ==
    /\ Lists(CreateOrder, FilterTypes) /\ Lists(UpdateOrder, FilterTypes)
    /\ Lists(<<"projects">>, {"projects"}) /\ Lists(<<"cloud_vendor_id">>, {"cloud_vendor_id"})
<1>1. Lists(CreateOrder, FilterTypes)
  <2>1. /\ DOMAIN CreateOrder = 1 .. 5
        /\ CreateOrder[1] = "cloud_providers" /\ CreateOrder[2] = "cloud_vendor_id"
        /\ CreateOrder[3] = "custom_tags" /\ CreateOrder[4] = "cloud_account_tags"
        /\ CreateOrder[5] = "cloud_tags"
    BY DEF CreateOrder
  <2>2. DOMAIN CreateOrder = {1, 2, 3, 4, 5}
    BY <2>1
  <2> QED
    BY <2>1, <2>2 DEF Lists, FilterTypes
<1>2. Lists(UpdateOrder, FilterTypes)
  <2>1. /\ DOMAIN UpdateOrder = 1 .. 5
        /\ UpdateOrder[1] = "cloud_providers" /\ UpdateOrder[2] = "custom_tags"
        /\ UpdateOrder[3] = "cloud_tags" /\ UpdateOrder[4] = "cloud_account_tags"
        /\ UpdateOrder[5] = "cloud_vendor_id"
    BY DEF UpdateOrder
  <2>2. DOMAIN UpdateOrder = {1, 2, 3, 4, 5}
    BY <2>1
  <2> QED
    BY <2>1, <2>2 DEF Lists, FilterTypes
<1>3. Lists(<<"projects">>, {"projects"}) /\ Lists(<<"cloud_vendor_id">>, {"cloud_vendor_id"})
  <2>1. \A a : DOMAIN <<a>> = {1} /\ <<a>>[1] = a
    OBVIOUS
  <2> QED
    BY <2>1 DEF Lists
<1> QED
  BY <1>1, <1>2, <1>3

(* Of types of which one at most is configured, that one is sent.          *)
LEMMA ListSends ==
    ASSUME NEW order, NEW types, Lists(order, types), NEW plan,
           \A a, b \in types : Configured(plan, a) /\ Configured(plan, b) => a = b
    PROVE  First(order, plan) = {a \in types : Configured(plan, a)}
<1>1. CASE \E a \in types : Configured(plan, a)
  <2>1. PICK a \in types : Configured(plan, a)
    BY <1>1
  <2>2. PICK at \in DOMAIN order : order[at] = a
    BY DEF Lists
  <2>3. First(order, plan) = {order[at]}
    BY <2>1, <2>2, FirstSends DEF Lists
  <2> QED
    BY <2>1, <2>2, <2>3
<1>2. CASE \A a \in types : ~Configured(plan, a)
  BY <1>2, FirstOfNone DEF Lists
<1> QED
  BY <1>1, <1>2

(* Create and Update send every filter that is configured.                 *)
LEMMA CreateSendsAll ==
    ASSUME NEW plan, Documented(plan)
    PROVE  CreateFilters(plan) = {a \in FilterTypes \cup {"projects"} : Configured(plan, a)}
<1>1. First(CreateOrder, plan) = {a \in FilterTypes : Configured(plan, a)}
  BY OneType, OrdersList, ListSends
<1>2. First(<<"projects">>, plan) = {a \in {"projects"} : Configured(plan, a)}
  BY OrdersList, ListSends
<1>3. CreateFilters(plan) = First(CreateOrder, plan) \cup First(<<"projects">>, plan)
  BY DEF CreateFilters, CreateOrder
<1> QED
  BY <1>1, <1>2, <1>3

LEMMA UpdateSendsAll ==
    ASSUME NEW plan, Documented(plan)
    PROVE  UpdateFilters(plan) = {a \in FilterTypes \cup {"projects"} : Configured(plan, a)}
<1>1. First(UpdateOrder, plan) = {a \in FilterTypes : Configured(plan, a)}
  BY OneType, OrdersList, ListSends
<1>2. First(<<"cloud_vendor_id">>, plan) = {a \in {"cloud_vendor_id"} : Configured(plan, a)}
  BY OrdersList, ListSends
<1>3. UpdateFilters(plan) =
        IF Configured(plan, "projects") /\ ~Configured(plan, "cloud_providers")
        THEN {"projects"} \cup First(<<"cloud_vendor_id">>, plan)
        ELSE First(UpdateOrder, plan)
  BY DEF UpdateFilters, UpdateOrder
<1>4. "cloud_vendor_id" \in FilterTypes /\ "cloud_providers" \in FilterTypes
      /\ "cloud_providers" # "cloud_vendor_id"
  BY DEF FilterTypes
<1>5. \A a \in FilterTypes :
         Configured(plan, a) /\ Configured(plan, "projects") => a = "cloud_vendor_id"
  BY OneType
<1> QED
  BY <1>1, <1>2, <1>3, <1>4, <1>5

-----------------------------------------------------------------------------
(* Whatever is configured, only what is configured is sent.                *)

LEMMA FirstIsConfigured ==
    ASSUME NEW order, NEW n \in 0 .. 6, DOMAIN order = 1 .. n, NEW plan
    PROVE  First(order, plan) \subseteq {order[i] : i \in {j \in 1 .. n : Configured(plan, order[j])}}
<1> DEFINE given == {i \in DOMAIN order : Configured(plan, order[i])}
<1>1. CASE given = {}
  BY <1>1 DEF First
<1>2. CASE given # {}
  <2>1. given \subseteq {1, 2, 3, 4, 5, 6}
    OBVIOUS
  <2>2. \E x \in given : \A y \in given : x <= y
    <3> HIDE DEF given
    <3>1. PICK z \in given : TRUE
      BY <1>2
    <3>2. z \in {1, 2, 3, 4, 5, 6} /\ \A y \in given : y \in {1, 2, 3, 4, 5, 6}
      BY <2>1
    <3>3. CASE 1 \in given
      BY <3>2, <3>3
    <3>4. CASE 1 \notin given /\ 2 \in given
      BY <3>2, <3>4
    <3>5. CASE {1, 2} \cap given = {} /\ 3 \in given
      BY <3>2, <3>5
    <3>6. CASE {1, 2, 3} \cap given = {} /\ 4 \in given
      BY <3>2, <3>6
    <3>7. CASE {1, 2, 3, 4} \cap given = {} /\ 5 \in given
      BY <3>2, <3>7
    <3>8. CASE {1, 2, 3, 4, 5} \cap given = {}
      BY <3>1, <3>2, <3>8
    <3> QED
      BY <3>3, <3>4, <3>5, <3>6, <3>7, <3>8
  <2>3. Min(given) \in given
    <3> HIDE DEF given
    <3> QED
      BY <2>2 DEF Min
  <2>4. First(order, plan) = {order[Min(given)]}
    BY <1>2 DEF First
  <2> QED
    BY <2>3, <2>4
<1> QED
  BY <1>1, <1>2

(* What a handler may send of a plan.                                      *)
Sendable(plan) == {a \in FilterTypes \cup {"projects"} : Configured(plan, a)}

LEMMA OnlyConfigured ==
    ASSUME NEW plan
    PROVE  CreateFilters(plan) \subseteq Sendable(plan) /\ UpdateFilters(plan) \subseteq Sendable(plan)
<1>1. \A a : DOMAIN <<a>> = 1 .. 1 /\ <<a>>[1] = a
  OBVIOUS
<1>2. \A a \in FilterTypes \cup {"projects"} : First(<<a>>, plan) \subseteq Sendable(plan)
  <2> TAKE a \in FilterTypes \cup {"projects"}
  <2>1. First(<<a>>, plan)
           \subseteq {<<a>>[i] : i \in {j \in 1 .. 1 : Configured(plan, <<a>>[j])}}
    BY <1>1, FirstIsConfigured
  <2> QED
    BY <1>1, <2>1 DEF Sendable
<1>3. First(CreateOrder, plan) \subseteq Sendable(plan)
  <2>1. DOMAIN CreateOrder = 1 .. 5
    BY DEF CreateOrder
  <2>2. First(CreateOrder, plan)
          \subseteq {CreateOrder[i] : i \in {j \in 1 .. 5 : Configured(plan, CreateOrder[j])}}
    BY <2>1, FirstIsConfigured
  <2>3. \A i \in 1 .. 5 : CreateOrder[i] \in FilterTypes
    BY <2>1, OrdersList DEF Lists
  <2> QED
    BY <2>2, <2>3 DEF Sendable
<1>4. First(UpdateOrder, plan) \subseteq Sendable(plan)
  <2>1. DOMAIN UpdateOrder = 1 .. 5
    BY DEF UpdateOrder
  <2>2. First(UpdateOrder, plan)
          \subseteq {UpdateOrder[i] : i \in {j \in 1 .. 5 : Configured(plan, UpdateOrder[j])}}
    BY <2>1, FirstIsConfigured
  <2>3. \A i \in 1 .. 5 : UpdateOrder[i] \in FilterTypes
    BY <2>1, OrdersList DEF Lists
  <2> QED
    BY <2>2, <2>3 DEF Sendable
<1>5. "cloud_vendor_id" \in FilterTypes
  BY DEF FilterTypes
<1>6. CreateFilters(plan) = First(CreateOrder, plan) \cup First(<<"projects">>, plan)
  BY DEF CreateFilters, CreateOrder
<1>7. \/ Configured(plan, "projects")
           /\ UpdateFilters(plan) = {"projects"} \cup First(<<"cloud_vendor_id">>, plan)
      \/ UpdateFilters(plan) = First(UpdateOrder, plan)
  BY DEF UpdateFilters, UpdateOrder
<1>8. Configured(plan, "projects") => "projects" \in Sendable(plan)
  BY DEF Sendable
<1> QED
  BY <1>2, <1>3, <1>4, <1>5, <1>6, <1>7, <1>8

(* So no empty list is, and what is sent has the shape of a unit.          *)
LEMMA PayloadType ==
    ASSUME NEW plan \in Plans, NEW filters, filters \subseteq Sendable(plan)
    PROVE  Payload(plan, filters) \in [RemoteAttributes -> Values \cup {Null}]
<1>1. plan.at \in [Attributes -> Values \cup {Null, Empty}]
  BY DEF Plans
<1>2. \A a \in Attributes : plan.at[a] \in Values \cup {Null, Empty}
  BY <1>1
<1>3. RemoteAttributes \subseteq Attributes /\ "cloud_account_ids" \in Attributes
      /\ "owner" \in Attributes /\ "cloud_vendor_id" \in Attributes
  BY DEF Attributes, RemoteAttributes, FilterTypes
<1>4. ASSUME NEW a \in RemoteAttributes PROVE Payload(plan, filters)[a] \in Values \cup {Null}
  <2>1. CASE a = "owner"
    <3>1. "owner" \notin filters
      BY DEF Sendable, FilterTypes
    <3>2. Payload(plan, filters)[a] = IF Given(plan, a) THEN plan.at[a] ELSE Null
      BY <1>4, <2>1, <3>1 DEF Payload
    <3> QED
      BY <1>2, <1>3, <2>1, <3>2 DEF Given
  <2>2. CASE a = "cloud_vendor_id" /\ a \in filters
    BY <1>2, <1>3, <2>2 DEF Payload, Sendable, Configured, getCloudVendorIds, Given
  <2>3. CASE a # "owner" /\ a \in filters \ {"cloud_vendor_id"}
    BY <1>2, <1>3, <1>4, <2>3 DEF Payload, Sendable, Configured, Given
  <2>4. CASE a # "owner" /\ a \notin filters
    BY <1>4, <2>4 DEF Payload
  <2> QED
    BY <2>1, <2>2, <2>3, <2>4
<1> QED
  BY <1>4 DEF Payload

(* All that is configured, when all of it is sent.                         *)
LEMMA PayloadIsMeant ==
    ASSUME NEW plan \in Plans, Documented(plan), NEW a \in RemoteAttributes
    PROVE  /\ Payload(plan, Sendable(plan))[a] = Meant(plan, a)
           /\ a # "owner" /\ a \notin Sendable(plan) => Meant(plan, a) = Null
<1>1. \A b \in Attributes : plan.at[b] # Empty
  BY DEF Documented
<1>2. RemoteAttributes \subseteq Attributes /\ "cloud_account_ids" \in Attributes
      /\ "cloud_vendor_id" \in Attributes
      /\ RemoteAttributes = FilterTypes \cup {"projects", "owner"}
      /\ "cloud_vendor_id" \in FilterTypes /\ "owner" \notin FilterTypes
  BY DEF Attributes, RemoteAttributes, FilterTypes
<1>3. CASE a = "owner"
  BY <1>1, <1>2, <1>3 DEF Payload, Given, Meant
<1>4. CASE a = "cloud_vendor_id"
  BY <1>1, <1>2, <1>4 DEF Payload, Given, Meant, Sendable, Configured, getCloudVendorIds
<1>5. CASE a \notin {"owner", "cloud_vendor_id"}
  BY <1>1, <1>2, <1>5 DEF Payload, Given, Meant, Sendable, Configured
<1> QED
  BY <1>3, <1>4, <1>5

(* A block of which nothing is configured has nothing to lose.             *)
LEMMA KeptIsNull ==
    ASSUME NEW plan \in Plans, Documented(plan), NEW a \in RemoteAttributes \ {"owner"},
           Block(a) \cap UpdateFilters(plan) = {}
    PROVE  Meant(plan, a) = Null
<1>1. a \in Block(a)
  BY DEF Block
<1>2. UpdateFilters(plan) = Sendable(plan)
  BY UpdateSendsAll DEF Sendable
<1> QED
  BY <1>1, <1>2, PayloadIsMeant

(* What Read stores is what the service has.                               *)
LEMMA ReadBackMatches ==
    ASSUME NEW at \in [RemoteAttributes -> Values \cup {Null}], NEW had \in BOOLEAN,
           NEW row, row.at = ReadBack(at, had)
    PROVE  /\ row.at \in [Attributes -> Values \cup {Null, Empty}]
           /\ \A a \in RemoteAttributes : Meant(row, a) = at[a]
<1>1. \A a \in RemoteAttributes : at[a] \in Values \cup {Null}
  OBVIOUS
<1>2. Attributes = RemoteAttributes \cup {"cloud_account_ids"}
      /\ "cloud_account_ids" \notin RemoteAttributes /\ "cloud_vendor_id" \in RemoteAttributes
  BY DEF Attributes, RemoteAttributes, FilterTypes
<1>3. at["cloud_vendor_id"] # Empty
  BY <1>1, <1>2, BusinessUnitAssumption
<1>4. row.at["cloud_account_ids"] = IF had THEN at["cloud_vendor_id"] ELSE Null
  BY <1>2 DEF ReadBack
<1>5. row.at["cloud_vendor_id"] = IF had THEN Null ELSE at["cloud_vendor_id"]
  BY <1>2 DEF ReadBack
<1>6. \A a \in RemoteAttributes \ {"cloud_vendor_id"} : row.at[a] = at[a]
  BY <1>2 DEF ReadBack
<1>7. \A a \in RemoteAttributes : Meant(row, a) = at[a]
  BY <1>3, <1>4, <1>5, <1>6 DEF Meant, getCloudVendorIds, Given
<1>8. \A a \in Attributes : row.at[a] \in Values \cup {Null, Empty}
  BY <1>1, <1>2, <1>4, <1>5, <1>6
<1>9. row.at = [a \in Attributes |-> row.at[a]]
  BY DEF ReadBack
<1> QED
  BY <1>7, <1>8, <1>9

-----------------------------------------------------------------------------
(* The rows: what is stored, planned, sent and read back.                  *)

(* What an object says of its attributes depends on them only.             *)
LEMMA SameAttributes ==
    ASSUME NEW row, NEW other, row.at = other.at
    PROVE  /\ Documented(row) <=> Documented(other)
           /\ \A a : Meant(row, a) = Meant(other, a)
           /\ \A unit : Matches(row, unit) <=> Matches(other, unit)
<1>1. \A a : Meant(row, a) = Meant(other, a)
  BY DEF Meant, getCloudVendorIds, Given
<1>2. Documented(row) <=> Documented(other)
  BY DEF Documented
<1> QED
  BY <1>1, <1>2 DEF Matches

LEMMA StoredRow ==
    ASSUME NEW plan \in Plans, NEW id \in 1 .. MaxId, NEW global \in BOOLEAN
    PROVE  /\ Stored(plan, id, global) \in States
           /\ Stored(plan, id, global).id = id /\ Stored(plan, id, global).global = global
           /\ Stored(plan, id, global).at = plan.at
           /\ Stored(plan, id, global) # None
BY BusinessUnitAssumption DEF Stored, States, Plans

LEMMA PlanOf ==
    ASSUME NEW plan \in Plans
    PROVE  /\ plan.at \in [Attributes -> Values \cup {Null, Empty}]
           /\ plan.global \in BOOLEAN \cup {Null}
           /\ plan # None
BY BusinessUnitAssumption DEF Plans

LEMMA StateOf ==
    ASSUME TypeOK, state # None
    PROVE  /\ state \in States /\ state.id \in 1 .. MaxId /\ state.global \in BOOLEAN
           /\ state.at \in [Attributes -> Values \cup {Null, Empty}]
BY DEF TypeOK, States

LEMMA UnitOf ==
    ASSUME TypeOK, NEW id \in 1 .. MaxId, Exists(id)
    PROVE  /\ remote[id] \in Units /\ remote[id].global \in BOOLEAN
           /\ remote[id].at \in [RemoteAttributes -> Values \cup {Null}]
BY DEF TypeOK, Exists, Units

LEMMA NewUnit ==
    ASSUME NEW at \in [RemoteAttributes -> Values \cup {Null}], NEW global \in BOOLEAN
    PROVE  /\ [at |-> at, global |-> global] \in Units
           /\ [at |-> at, global |-> global] # None
BY BusinessUnitAssumption DEF Units

(* The plan of an update has a value for global_filter.                    *)
LEMMA PlannedRow ==
    ASSUME TypeOK, config # None, state # None
    PROVE  Planned \in Plans /\ Planned.global \in BOOLEAN
<1>1. config \in Plans
  BY BusinessUnitAssumption DEF TypeOK
<1>2. config.at \in [Attributes -> Values \cup {Null, Empty}]
      /\ config.global \in BOOLEAN \cup {Null}
      /\ config = [at |-> config.at, global |-> config.global]
  BY <1>1 DEF Plans
<1>3. state.global \in BOOLEAN
  BY StateOf
<1>4. Planned = [at |-> config.at,
                 global |-> IF config.global = Null THEN state.global ELSE config.global]
  BY <1>2 DEF Planned
<1> QED
  BY <1>2, <1>3, <1>4 DEF Plans

(* What an import or a refresh stores.                                     *)
LEMMA ServiceRow ==
    ASSUME TypeOK, NEW id \in 1 .. MaxId, Exists(id), NEW had \in BOOLEAN
    PROVE  /\ FromService(id, had) \in States /\ FromService(id, had) # None
           /\ FromService(id, had).id = id
           /\ FromService(id, had).global = remote[id].global
           /\ Matches(FromService(id, had), remote[id])
<1> DEFINE row == FromService(id, had)
<1>1. remote[id].global \in BOOLEAN /\ remote[id].at \in [RemoteAttributes -> Values \cup {Null}]
  BY UnitOf
<1>2. /\ row = [id |-> id, at |-> row.at, global |-> remote[id].global]
      /\ row.at = ReadBack(remote[id].at, had)
      /\ row.id = id /\ row.global = remote[id].global
  BY DEF FromService
<1> HIDE DEF row
<1>3. row.at \in [Attributes -> Values \cup {Null, Empty}]
      /\ \A a \in RemoteAttributes : Meant(row, a) = remote[id].at[a]
  BY <1>1, <1>2, ReadBackMatches
<1>4. row \in States
  BY <1>1, <1>2, <1>3 DEF States
<1>5. Matches(row, remote[id])
  BY <1>3 DEF Matches
<1>6. row # None
  BY <1>4, BusinessUnitAssumption
<1> QED
  BY <1>2, <1>4, <1>5, <1>6 DEF row

(* A POST makes the unit that is planned, whose global_filter is the one   *)
(* of the plan if there is one.                                            *)
LEMMA PostMatches ==
    ASSUME TypeOK, NEW plan \in Plans, nextId <= MaxId, PostEffect(plan)
    PROVE  /\ remote' \in [1 .. MaxId -> Units \cup {None}]
           /\ nextId' = nextId + 1 /\ nextId \in 1 .. MaxId
           /\ remote'[nextId] # None
           /\ remote'[nextId].global \in BOOLEAN
           /\ plan.global # Null => remote'[nextId].global = plan.global
           /\ \A id \in 1 .. MaxId : id # nextId => remote'[id] = remote[id]
           /\ Documented(plan) => Matches(plan, remote'[nextId])
<1> DEFINE at == Payload(plan, CreateFilters(plan))
           global == IF plan.global = Null THEN TRUE ELSE plan.global
<1>1. nextId \in 1 .. MaxId /\ remote \in [1 .. MaxId -> Units \cup {None}]
  BY BusinessUnitAssumption DEF TypeOK
<1>2. remote' = [remote EXCEPT ![nextId] = [at |-> at, global |-> global]]
      /\ nextId' = nextId + 1
  BY DEF PostEffect
<1>3. at \in [RemoteAttributes -> Values \cup {Null}]
  BY OnlyConfigured, PayloadType
<1>4. global \in BOOLEAN
  BY PlanOf
<1>5. plan.global # Null => global = plan.global
  OBVIOUS
<1>6. Documented(plan) => \A a \in RemoteAttributes : at[a] = Meant(plan, a)
  BY CreateSendsAll, PayloadIsMeant DEF Sendable
<1> HIDE DEF at, global
<1>7. [at |-> at, global |-> global] \in Units /\ [at |-> at, global |-> global] # None
  BY <1>3, <1>4, NewUnit
<1>8. remote'[nextId] = [at |-> at, global |-> global]
  BY <1>1, <1>2
<1>9. Documented(plan) => Matches(plan, remote'[nextId])
  BY <1>6, <1>8 DEF Matches
<1>10. /\ remote' \in [1 .. MaxId -> Units \cup {None}]
       /\ \A id \in 1 .. MaxId : id # nextId => remote'[id] = remote[id]
  BY <1>1, <1>2, <1>7
<1> QED
  BY <1>1, <1>2, <1>4, <1>5, <1>7, <1>8, <1>9, <1>10

(* A PUT leaves the unit as planned, but for what a service that merges    *)
(* keeps of blocks that are not in the plan.                               *)
LEMMA PutMatches ==
    ASSUME TypeOK, NEW plan \in Plans, plan.global \in BOOLEAN, op.id \in 1 .. MaxId,
           Exists(op.id), PutEffect(plan)
    PROVE  /\ remote' \in [1 .. MaxId -> Units \cup {None}]
           /\ remote'[op.id] # None /\ remote'[op.id].global = plan.global
           /\ \A id \in 1 .. MaxId : id # op.id => remote'[id] = remote[id]
           /\ Documented(plan) => Matches(plan, remote'[op.id])
<1> DEFINE sent == UpdateFilters(plan)
           kept(a) == merges /\ a # "owner" /\ Block(a) \cap sent = {}
           at == [a \in RemoteAttributes |->
                     IF kept(a) THEN remote[op.id].at[a] ELSE Payload(plan, sent)[a]]
<1>1. remote \in [1 .. MaxId -> Units \cup {None}]
  BY DEF TypeOK
<1>2. remote' = [remote EXCEPT ![op.id] = [at |-> at, global |-> plan.global]]
  BY <1>1 DEF PutEffect
<1>3. at \in [RemoteAttributes -> Values \cup {Null}]
  <2>1. Payload(plan, sent) \in [RemoteAttributes -> Values \cup {Null}]
    BY OnlyConfigured, PayloadType
  <2>2. remote[op.id].at \in [RemoteAttributes -> Values \cup {Null}]
    BY UnitOf
  <2> HIDE DEF sent
  <2> QED
    BY <2>1, <2>2
<1>4. Documented(plan) =>
        \A a \in RemoteAttributes :
           Meant(plan, a) = at[a] \/ (merges /\ Meant(plan, a) = Null)
  <2> SUFFICES ASSUME Documented(plan), NEW a \in RemoteAttributes
               PROVE  Meant(plan, a) = at[a] \/ (merges /\ Meant(plan, a) = Null)
    OBVIOUS
  <2>1. CASE kept(a)
    BY <2>1, KeptIsNull
  <2>2. CASE ~kept(a)
    <3>1. at[a] = Payload(plan, sent)[a]
      BY <2>2
    <3>2. sent = Sendable(plan)
      BY UpdateSendsAll DEF Sendable
    <3> QED
      BY <3>1, <3>2, PayloadIsMeant
  <2> QED
    BY <2>1, <2>2
<1> HIDE DEF at
<1>5. [at |-> at, global |-> plan.global] \in Units /\ [at |-> at, global |-> plan.global] # None
  BY <1>3, NewUnit
<1>6. remote'[op.id] = [at |-> at, global |-> plan.global]
  BY <1>1, <1>2
<1>7. Documented(plan) => Matches(plan, remote'[op.id])
  BY <1>4, <1>6 DEF Matches
<1>8. /\ remote' \in [1 .. MaxId -> Units \cup {None}]
      /\ \A id \in 1 .. MaxId : id # op.id => remote'[id] = remote[id]
  BY <1>1, <1>2, <1>5
<1> QED
  BY <1>5, <1>6, <1>7, <1>8

-----------------------------------------------------------------------------
(* The handlers.                                                           *)

LEMMA Counting ==
    ASSUME TypeOK, NEW outcome, Failing(outcome) \/ CallOn(outcome)
    PROVE  /\ edits' \in Nat /\ failures' \in Nat /\ changes' \in Nat
           /\ Failing(outcome) /\ outcome # "fine" => failures' > failures
           /\ CallOn(outcome) /\ outcome # "failed" => Exists(op.id)
           /\ CallOn(outcome) /\ Exists(op.id) /\ outcome # "fine" => failures' > failures
<1>1. edits \in Nat /\ failures \in Nat /\ changes \in Nat
  BY DEF TypeOK
<1>2. Failing(outcome) => /\ edits' \in Nat /\ failures' \in Nat /\ changes' \in Nat
                          /\ outcome # "fine" => failures' > failures
  BY <1>1 DEF Failing
<1>3. CallOn(outcome) => Failing(outcome) \/ UNCHANGED counters
  BY DEF CallOn
<1> QED
  BY <1>1, <1>2, <1>3 DEF CallOn, counters

(* A handler is known by its next call.                                    *)
LEMMA Whose ==
    ASSUME TypeOK, OpInv
    PROVE  /\ At("post") \/ At("create-get") => op.kind = "create"
           /\ At("head") \/ At("read-get") => op.kind = "read"
           /\ At("put") \/ At("verify") => op.kind = "update"
           /\ At("delete") => op.kind = "delete"
           /\ op.kind \in {"read", "update", "delete"} => op.id \in 1 .. MaxId
           /\ op.kind # "create" => ~At("create-get")
           /\ op.kind # "update" => ~At("verify")
<1>1. op.kind \in {"none", "create", "read", "update", "delete"}
  BY DEF TypeOK, Ops
<1>2. op.kind = "none" => op.pc = ""
  <2>1. op.kind = "none" => op = NoOp
    BY DEF OpInv
  <2>2. NoOp.pc = ""
    BY DEF NoOp
  <2> QED
    BY <2>1, <2>2
<1>3. op.kind \in {"read", "update", "delete"} => op.id \in 1 .. MaxId
  BY StateOf DEF OpInv
<1> QED
  BY <1>1, <1>2, <1>3 DEF OpInv, At

LEMMA Resting ==
    ASSUME op' = NoOp
    PROVE  /\ op' \in Ops /\ op'.kind = "none" /\ op'.pc = "" /\ OpInv' /\ PlanInv'
           /\ ~At("verify")'
<1>1. 0 \in 0 .. MaxId
  BY BusinessUnitAssumption
<1> QED
  BY <1>1 DEF NoOp, Ops, OpInv, PlanInv, At

(* A handler starts: nothing is sent yet.                                  *)
LEMMA BeginInv ==
    ASSUME Inv, BeginCreate \/ BeginRead \/ BeginUpdate \/ BeginDelete
    PROVE  Inv'
<1>1. op = NoOp /\ UNCHANGED <<config, state, remote, nextId, merges, suspect, counters>>
  BY DEF BeginCreate, BeginRead, BeginUpdate, BeginDelete, Idle
<1>2. /\ op' \in Ops /\ op'.pc \in {"post", "head", "put", "delete"}
      /\ op'.kind = "update" => op'.plan.global \in BOOLEAN
      /\ OpInv'
  <2>1. CASE BeginCreate
    <3>1. config \in Plans
      BY <2>1, BusinessUnitAssumption DEF BeginCreate, Inv, TypeOK
    <3> QED
      BY <2>1, <3>1, BusinessUnitAssumption DEF BeginCreate, Begin, Ops, OpInv
  <2>2. CASE BeginRead
    <3>1. state # None /\ state.id \in 1 .. MaxId
      BY <2>2, StateOf DEF BeginRead, Inv
    <3>2. state.id \in 0 .. MaxId
      BY <3>1, BusinessUnitAssumption
    <3> QED
      BY <2>2, <3>1, <3>2 DEF BeginRead, Begin, Ops, OpInv
  <2>3. CASE BeginUpdate
    <3>1. state # None /\ state.id \in 1 .. MaxId
      BY <2>3, StateOf DEF BeginUpdate, Inv
    <3>2. state.id \in 0 .. MaxId
      BY <3>1, BusinessUnitAssumption
    <3>3. Planned \in Plans /\ Planned.global \in BOOLEAN
      BY <2>3, PlannedRow DEF BeginUpdate, Inv
    <3> QED
      BY <2>3, <3>1, <3>2, <3>3 DEF BeginUpdate, Begin, Ops, OpInv
  <2>4. CASE BeginDelete
    <3>1. state # None /\ state.id \in 1 .. MaxId
      BY <2>4, StateOf DEF BeginDelete, Inv
    <3>2. state.id \in 0 .. MaxId
      BY <3>1, BusinessUnitAssumption
    <3> QED
      BY <2>4, <3>1, <3>2 DEF BeginDelete, Begin, Ops, OpInv
  <2> QED
    BY <2>1, <2>2, <2>3, <2>4
<1>3. TypeOK'
  BY <1>1, <1>2 DEF Inv, TypeOK, counters
<1>4. ~At("verify") /\ StateInv
  BY <1>1 DEF Inv, At, NoOp
<1>5. StateInv'
  BY <1>1, <1>4 DEF StateInv, Exists, Matches
<1>6. PlanInv'
  BY <1>2 DEF PlanInv, At
<1> QED
  BY <1>2, <1>3, <1>5, <1>6 DEF Inv

(* Nothing is stored before its global_filter is known.                    *)
LEMMA PostInv ==
    ASSUME Inv, NEW outcome \in Outcomes, NEW echoes \in BOOLEAN, PostBusinessUnit(outcome, echoes)
    PROVE  Inv'
<1>1. TypeOK /\ OpInv /\ StateInv /\ At("post") /\ Failing(outcome)
      /\ config' = config /\ merges' = merges
  BY DEF Inv, PostBusinessUnit
<1>2. op.kind = "create" /\ state = None /\ op.plan \in Plans /\ nextId <= MaxId
  BY <1>1, Whose DEF OpInv, At
<1>3. edits' \in Nat /\ failures' \in Nat /\ changes' \in Nat
  BY <1>1, Counting
<1>4. CASE outcome = "failed"
  <2>1. op' = NoOp /\ UNCHANGED <<state, suspect, remote, nextId>>
    BY <1>4 DEF PostBusinessUnit
  <2>2. TypeOK'
    BY <1>1, <1>3, <2>1, Resting DEF TypeOK
  <2>3. StateInv'
    BY <1>2, <2>1 DEF StateInv
  <2> QED
    BY <2>1, <2>2, <2>3, Resting DEF Inv
<1>5. CASE outcome # "failed"
  <2>1. PostEffect(op.plan)
    BY <1>5 DEF PostBusinessUnit
  <2>2. /\ remote' \in [1 .. MaxId -> Units \cup {None}]
        /\ nextId' = nextId + 1 /\ nextId \in 1 .. MaxId
        /\ remote'[nextId] # None
        /\ remote'[nextId].global \in BOOLEAN
        /\ op.plan.global # Null => remote'[nextId].global = op.plan.global
        /\ Documented(op.plan) => Matches(op.plan, remote'[nextId])
    BY <1>1, <1>2, <2>1, PostMatches
  <2>3. nextId' \in 1 .. MaxId + 1
    BY <2>2, BusinessUnitAssumption
  <2>4. CASE outcome # "fine"
    <3>1. op' = NoOp /\ UNCHANGED <<state, suspect>>
      BY <2>4 DEF PostBusinessUnit
    <3>2. TypeOK'
      BY <1>1, <1>3, <2>2, <2>3, <3>1, Resting DEF TypeOK
    <3>3. StateInv'
      BY <1>2, <3>1 DEF StateInv
    <3> QED
      BY <3>1, <3>2, <3>3, Resting DEF Inv
  <2>5. CASE outcome = "fine" /\ (echoes \/ op.plan.global # Null)
    <3> DEFINE row == Stored(op.plan, nextId, remote'[nextId].global)
    <3>1. op' = NoOp /\ state' = row /\ suspect' = FALSE
      BY <2>5 DEF PostBusinessUnit
    <3>2. /\ row \in States /\ row.id = nextId /\ row.global = remote'[nextId].global
          /\ row.at = op.plan.at
      BY <1>2, <2>2, StoredRow
    <3> HIDE DEF row
    <3>3. Documented(row) => Matches(row, remote'[nextId])
      BY <2>2, <3>2, SameAttributes
    <3>4. TypeOK'
      BY <1>1, <1>3, <2>2, <2>3, <3>1, <3>2, Resting DEF TypeOK
    <3>5. StateInv'
      BY <1>1, <3>1, <3>2, <3>3 DEF StateInv, Matches
    <3> QED
      BY <3>1, <3>4, <3>5, Resting DEF Inv
  <2>6. CASE outcome = "fine" /\ ~(echoes \/ op.plan.global # Null)
    <3>1. op' = [op EXCEPT !.pc = "create-get", !.id = nextId] /\ UNCHANGED <<state, suspect>>
      BY <2>6 DEF PostBusinessUnit
    <3>2. op \in Ops
      BY <1>1 DEF TypeOK
    <3>3. op' = [kind |-> "create", pc |-> "create-get", id |-> nextId, plan |-> op.plan]
      BY <1>2, <3>1, <3>2 DEF Ops
    <3>4. nextId \in 0 .. MaxId
      BY <2>2, BusinessUnitAssumption
    <3>5. op' \in Ops
      BY <1>2, <3>3, <3>4 DEF Ops
    <3>6. TypeOK'
      BY <1>1, <1>3, <2>2, <2>3, <3>1, <3>3, <3>5 DEF TypeOK
    <3>7. OpInv'
      BY <1>2, <2>2, <2>6, <3>1, <3>3 DEF OpInv
    <3>8. PlanInv'
      BY <1>1, <2>2, <3>3 DEF PlanInv, At, Matches
    <3>9. StateInv'
      BY <1>2, <3>1 DEF StateInv
    <3> QED
      BY <3>6, <3>7, <3>8, <3>9 DEF Inv
  <2> QED
    BY <2>4, <2>5, <2>6
<1> QED
  BY <1>4, <1>5

LEMMA ResolveInv ==
    ASSUME Inv, NEW outcome \in Outcomes, resolveCreatedGlobalFilter(outcome)
    PROVE  Inv'
<1>1. /\ TypeOK /\ OpInv /\ PlanInv /\ At("create-get") /\ CallOn(outcome) /\ op' = NoOp
      /\ UNCHANGED <<config, remote, nextId, merges, suspect>>
  BY DEF Inv, resolveCreatedGlobalFilter
<1>2. op.kind = "create" /\ state = None /\ op.plan \in Plans /\ op.id \in 1 .. MaxId
  BY <1>1, Whose DEF OpInv, At
<1>3. /\ edits' \in Nat /\ failures' \in Nat /\ changes' \in Nat
      /\ outcome # "failed" => Exists(op.id)
  BY <1>1, Counting
<1>4. CASE outcome = "fine"
  <2> DEFINE row == Stored(op.plan, op.id, remote[op.id].global)
  <2>1. state' = row
    BY <1>4 DEF resolveCreatedGlobalFilter
  <2>2. remote[op.id].global \in BOOLEAN
    BY <1>1, <1>2, <1>3, <1>4, UnitOf
  <2>3. /\ row \in States /\ row.id = op.id /\ row.global = remote[op.id].global
        /\ row.at = op.plan.at
    BY <1>2, <2>2, StoredRow
  <2> HIDE DEF row
  <2>4. ~suspect /\ Documented(row) => Matches(row, remote[op.id])
    BY <1>1, <1>3, <1>4, <2>3, SameAttributes DEF PlanInv
  <2>5. TypeOK'
    BY <1>1, <1>3, <2>1, <2>3, Resting DEF TypeOK
  <2>6. StateInv'
    BY <1>1, <2>1, <2>3, <2>4 DEF StateInv, Matches
  <2> QED
    BY <1>1, <2>5, <2>6, Resting DEF Inv
<1>5. CASE outcome # "fine"
  <2>1. state' = None
    BY <1>2, <1>5 DEF resolveCreatedGlobalFilter
  <2>2. TypeOK'
    BY <1>1, <1>3, <2>1, Resting DEF TypeOK
  <2>3. StateInv'
    BY <2>1 DEF StateInv
  <2> QED
    BY <1>1, <2>2, <2>3, Resting DEF Inv
<1> QED
  BY <1>4, <1>5

LEMMA HeadInv ==
    ASSUME Inv, NEW outcome \in HeadOutcomes, DoesBusinessUnitExist(outcome)
    PROVE  Inv'
<1>1. /\ TypeOK /\ OpInv /\ StateInv /\ At("head") /\ Failing(outcome)
      /\ UNCHANGED <<config, remote, nextId, merges>>
  BY DEF Inv, DoesBusinessUnitExist
<1>2. op.kind = "read" /\ state # None /\ op.id = state.id /\ ~At("verify")
  BY <1>1, Whose DEF OpInv, At
<1>3. edits' \in Nat /\ failures' \in Nat /\ changes' \in Nat
  BY <1>1, Counting
<1>4. \/ Goto("read-get") /\ UNCHANGED <<state, suspect>>
      \/ op' = NoOp /\ UNCHANGED <<state, suspect>>
      \/ op' = NoOp /\ state' = None /\ suspect' = FALSE
  BY DEF DoesBusinessUnitExist
<1>5. CASE Goto("read-get") /\ UNCHANGED <<state, suspect>>
  <2>1. op \in Ops
    BY <1>1 DEF TypeOK
  <2>2. op' = [kind |-> "read", pc |-> "read-get", id |-> op.id, plan |-> op.plan]
    BY <1>2, <1>5, <2>1 DEF Ops, Goto
  <2>3. op' \in Ops
    BY <2>1, <2>2 DEF Ops
  <2>4. TypeOK'
    BY <1>1, <1>3, <1>5, <2>2, <2>3 DEF TypeOK
  <2>5. OpInv'
    BY <1>2, <1>5, <2>2 DEF OpInv
  <2>6. StateInv'
    BY <1>1, <1>2, <1>5, <2>2 DEF StateInv, Exists, Matches
  <2>7. PlanInv'
    BY <2>2 DEF PlanInv, At
  <2> QED
    BY <2>4, <2>5, <2>6, <2>7 DEF Inv
<1>6. CASE op' = NoOp /\ UNCHANGED <<state, suspect>>
  <2>1. TypeOK'
    BY <1>1, <1>3, <1>6, Resting DEF TypeOK
  <2>2. StateInv'
    BY <1>1, <1>2, <1>6 DEF StateInv, Exists, Matches
  <2> QED
    BY <1>6, <2>1, <2>2, Resting DEF Inv
<1>7. CASE op' = NoOp /\ state' = None /\ suspect' = FALSE
  <2>1. TypeOK'
    BY <1>1, <1>3, <1>7, Resting DEF TypeOK
  <2>2. StateInv'
    BY <1>7 DEF StateInv
  <2> QED
    BY <1>7, <2>1, <2>2, Resting DEF Inv
<1> QED
  BY <1>4, <1>5, <1>6, <1>7

LEMMA ReadInv ==
    ASSUME Inv, NEW outcome \in Outcomes, ReadBusinessUnit(outcome)
    PROVE  Inv'
<1>1. /\ TypeOK /\ OpInv /\ StateInv /\ At("read-get") /\ CallOn(outcome) /\ op' = NoOp
      /\ UNCHANGED <<config, remote, nextId, merges>>
  BY DEF Inv, ReadBusinessUnit
<1>2. op.kind = "read" /\ state # None /\ op.id = state.id /\ ~At("verify")
      /\ op.id \in 1 .. MaxId
  BY <1>1, Whose DEF OpInv, At
<1>3. /\ edits' \in Nat /\ failures' \in Nat /\ changes' \in Nat
      /\ outcome # "failed" => Exists(op.id)
  BY <1>1, Counting
<1>4. CASE outcome = "fine"
  <2> DEFINE had == state.at["cloud_account_ids"] \notin {Null, Empty}
             row == FromService(op.id, had)
  <2>1. state' = row /\ suspect' = FALSE
    BY <1>4 DEF ReadBusinessUnit
  <2>2. had \in BOOLEAN
    OBVIOUS
  <2>3. /\ row \in States /\ row.id = op.id /\ row.global = remote[op.id].global
        /\ Matches(row, remote[op.id])
    <3> HIDE DEF had
    <3> QED
      BY <1>1, <1>2, <1>3, <1>4, <2>2, ServiceRow
  <2> HIDE DEF row
  <2>4. TypeOK'
    BY <1>1, <1>3, <2>1, <2>3, Resting DEF TypeOK
  <2>5. StateInv'
    BY <1>1, <2>1, <2>3 DEF StateInv, Matches
  <2> QED
    BY <1>1, <2>4, <2>5, Resting DEF Inv
<1>5. CASE outcome # "fine"
  <2>1. UNCHANGED <<state, suspect>>
    BY <1>5 DEF ReadBusinessUnit
  <2>2. TypeOK'
    BY <1>1, <1>3, <2>1, Resting DEF TypeOK
  <2>3. StateInv'
    BY <1>1, <1>2, <2>1 DEF StateInv, Exists, Matches
  <2> QED
    BY <1>1, <2>2, <2>3, Resting DEF Inv
<1> QED
  BY <1>4, <1>5

LEMMA ImportInv ==
    ASSUME Inv, NEW id \in 1 .. MaxId, ImportState(id)
    PROVE  Inv'
<1> DEFINE row == FromService(id, FALSE)
<1>1. /\ TypeOK /\ op = NoOp /\ Exists(id) /\ state' = row /\ suspect' = FALSE
      /\ edits' = edits + 1
      /\ UNCHANGED <<config, remote, nextId, merges, op, failures, changes>>
  BY DEF Inv, ImportState, Idle
<1>2. /\ row \in States /\ row.id = id /\ row.global = remote[id].global
      /\ Matches(row, remote[id])
  BY <1>1, ServiceRow
<1> HIDE DEF row
<1>3. TypeOK'
  <2>1. op' \in Ops /\ op'.kind = "none"
    BY <1>1, Resting
  <2>2. edits' \in Nat /\ failures' \in Nat /\ changes' \in Nat
    BY <1>1 DEF TypeOK
  <2> QED
    BY <1>1, <1>2, <2>1, <2>2 DEF TypeOK
<1>4. StateInv'
  BY <1>1, <1>2 DEF StateInv, Matches
<1> QED
  BY <1>1, <1>3, <1>4, Resting DEF Inv

(* After a PUT the unit is what was planned, which is stored at once or    *)
(* after the GET; when its answer is lost, what is stored is suspect.      *)
LEMMA PutInv ==
    ASSUME Inv, NEW outcome \in Outcomes, UpdateBusinessUnit(outcome)
    PROVE  Inv'
<1>1. /\ TypeOK /\ OpInv /\ StateInv /\ At("put") /\ CallOn(outcome)
      /\ UNCHANGED <<config, nextId, merges>>
  BY DEF Inv, UpdateBusinessUnit
<1>2. /\ op.kind = "update" /\ state # None /\ op.id = state.id /\ op.plan \in Plans
      /\ op.id \in 1 .. MaxId /\ ~At("verify") /\ op.plan.global \in BOOLEAN
  BY <1>1, Whose DEF OpInv, At, TypeOK
<1>3. /\ edits' \in Nat /\ failures' \in Nat /\ changes' \in Nat
      /\ outcome # "failed" => Exists(op.id)
  BY <1>1, Counting
<1>4. CASE outcome = "failed"
  <2>1. op' = NoOp /\ UNCHANGED <<state, suspect, remote>>
    BY <1>4 DEF UpdateBusinessUnit
  <2>2. TypeOK'
    BY <1>1, <1>3, <2>1, Resting DEF TypeOK
  <2>3. StateInv'
    BY <1>1, <1>2, <2>1 DEF StateInv, Exists, Matches
  <2> QED
    BY <2>1, <2>2, <2>3, Resting DEF Inv
<1>5. CASE outcome # "failed"
  <2>1. PutEffect(op.plan) /\ Exists(op.id)
    BY <1>3, <1>5 DEF UpdateBusinessUnit
  <2>2. /\ remote' \in [1 .. MaxId -> Units \cup {None}]
        /\ remote'[op.id] # None /\ remote'[op.id].global = op.plan.global
        /\ Documented(op.plan) => Matches(op.plan, remote'[op.id])
    BY <1>1, <1>2, <2>1, PutMatches
  <2>3. CASE outcome = "lost"
    <3>1. op' = NoOp /\ state' = state /\ suspect' = TRUE
      BY <2>3 DEF UpdateBusinessUnit
    <3>2. TypeOK'
      BY <1>1, <1>3, <2>2, <3>1, Resting DEF TypeOK
    <3>3. StateInv'
      BY <3>1 DEF StateInv
    <3> QED
      BY <3>1, <3>2, <3>3, Resting DEF Inv
  <2>4. CASE outcome = "fine"
    <3>1. suspect' \in BOOLEAN
      <4>1. suspect' = (suspect /\ merges)
        BY <2>4 DEF UpdateBusinessUnit
      <4> QED
        BY <4>1, Zenon
    <3>2. CASE Verified(op.plan)
      <4>1. Goto("verify") /\ state' = state
        BY <2>4, <3>2 DEF UpdateBusinessUnit
      <4>2. op \in Ops
        BY <1>1 DEF TypeOK
      <4>3. op' = [kind |-> "update", pc |-> "verify", id |-> op.id, plan |-> op.plan]
        BY <1>2, <4>1, <4>2 DEF Ops, Goto
      <4>4. op' \in Ops
        BY <4>2, <4>3 DEF Ops
      <4>5. TypeOK'
        BY <1>1, <1>2, <1>3, <2>2, <3>1, <4>1, <4>3, <4>4 DEF TypeOK
      <4>6. OpInv'
        BY <1>2, <4>1, <4>3 DEF OpInv
      <4>7. StateInv'
        BY <4>3 DEF StateInv, At
      <4>8. PlanInv'
        BY <1>1, <2>2, <4>3 DEF PlanInv, At, Matches
      <4> QED
        BY <4>5, <4>6, <4>7, <4>8 DEF Inv
    <3>3. CASE ~Verified(op.plan)
      <4> DEFINE row == Stored(op.plan, op.id, op.plan.global)
      <4>1. op' = NoOp /\ state' = row
        BY <2>4, <3>3 DEF UpdateBusinessUnit
      <4>2. row \in States /\ row.id = op.id /\ row.global = op.plan.global /\ row.at = op.plan.at
        BY <1>2, StoredRow
      <4> HIDE DEF row
      <4>3. Documented(row) => Matches(row, remote'[op.id])
        BY <2>2, <4>2, SameAttributes
      <4>4. TypeOK'
        BY <1>1, <1>3, <2>2, <3>1, <4>1, <4>2, Resting DEF TypeOK
      <4>5. StateInv'
        BY <1>1, <2>2, <4>1, <4>2, <4>3 DEF StateInv, Matches
      <4> QED
        BY <4>1, <4>4, <4>5, Resting DEF Inv
    <3> QED
      BY <3>2, <3>3
  <2> QED
    BY <1>5, <2>3, <2>4 DEF Outcomes
<1> QED
  BY <1>4, <1>5

LEMMA VerifyInv ==
    ASSUME Inv, NEW outcome \in Outcomes, VerifyUpdate(outcome)
    PROVE  Inv'
<1>1. /\ TypeOK /\ OpInv /\ PlanInv /\ At("verify") /\ CallOn(outcome) /\ op' = NoOp
      /\ UNCHANGED <<config, remote, nextId, merges>>
  BY DEF Inv, VerifyUpdate
<1>2. /\ op.kind = "update" /\ op.plan \in Plans /\ op.id \in 1 .. MaxId
      /\ op.plan.global \in BOOLEAN
  BY <1>1, Whose DEF OpInv, TypeOK
<1>3. edits' \in Nat /\ failures' \in Nat /\ changes' \in Nat
  BY <1>1, Counting
<1>4. CASE outcome = "fine"
  <2> DEFINE row == Stored(op.plan, op.id, op.plan.global)
  <2>1. state' = row /\ suspect' = suspect
    BY <1>4 DEF VerifyUpdate
  <2>2. row \in States /\ row.id = op.id /\ row.global = op.plan.global /\ row.at = op.plan.at
    BY <1>2, StoredRow
  <2> HIDE DEF row
  <2>3. ~suspect /\ Documented(row) /\ Exists(op.id) =>
            row.global = remote[op.id].global /\ Matches(row, remote[op.id])
    BY <1>1, <2>2, SameAttributes DEF PlanInv
  <2>4. TypeOK'
    BY <1>1, <1>3, <2>1, <2>2, Resting DEF TypeOK
  <2>5. StateInv'
    BY <1>1, <2>1, <2>2, <2>3 DEF StateInv, Exists, Matches
  <2> QED
    BY <1>1, <2>4, <2>5, Resting DEF Inv
<1>5. CASE outcome # "fine"
  <2>1. state' = state /\ suspect' = TRUE
    BY <1>5 DEF VerifyUpdate
  <2>2. TypeOK'
    BY <1>1, <1>3, <2>1, Resting DEF TypeOK
  <2>3. StateInv'
    BY <2>1 DEF StateInv
  <2> QED
    BY <1>1, <2>2, <2>3, Resting DEF Inv
<1> QED
  BY <1>4, <1>5

LEMMA DeleteInv ==
    ASSUME Inv, NEW outcome \in Outcomes, DeleteBusinessUnit(outcome)
    PROVE  Inv'
<1>1. /\ TypeOK /\ OpInv /\ StateInv /\ At("delete") /\ CallOn(outcome) /\ op' = NoOp
      /\ remote' = IF outcome = "failed" THEN remote ELSE [remote EXCEPT ![op.id] = None]
      /\ UNCHANGED <<config, nextId, merges>>
  BY DEF Inv, DeleteBusinessUnit
<1>2. /\ op.kind = "delete" /\ state # None /\ op.id = state.id /\ op.id \in 1 .. MaxId
      /\ ~At("verify")
  BY <1>1, Whose DEF OpInv, At
<1>3. edits' \in Nat /\ failures' \in Nat /\ changes' \in Nat
  BY <1>1, Counting
<1>4. remote' \in [1 .. MaxId -> Units \cup {None}]
  BY <1>1 DEF TypeOK
<1>5. CASE outcome = "fine"
  <2>1. state' = None /\ suspect' = FALSE
    BY <1>5 DEF DeleteBusinessUnit
  <2>2. TypeOK'
    BY <1>1, <1>3, <1>4, <2>1, Resting DEF TypeOK
  <2>3. StateInv'
    BY <2>1 DEF StateInv
  <2> QED
    BY <1>1, <2>2, <2>3, Resting DEF Inv
<1>6. CASE outcome # "fine"
  <2>1. UNCHANGED <<state, suspect>>
    BY <1>6 DEF DeleteBusinessUnit
  <2>2. TypeOK'
    BY <1>1, <1>3, <1>4, <2>1, Resting DEF TypeOK
  <2>3. remote'[state.id] = remote[state.id] \/ remote'[state.id] = None
    BY <1>1, <1>2 DEF TypeOK
  <2>4. StateInv'
    BY <1>1, <1>2, <2>1, <2>3 DEF StateInv, Exists, Matches
  <2> QED
    BY <1>1, <2>2, <2>4, Resting DEF Inv
<1> QED
  BY <1>5, <1>6

-----------------------------------------------------------------------------
(* The console and the user.                                               *)

LEMMA ChangeInv ==
    ASSUME Inv, NEW id \in 1 .. MaxId, NEW a \in RemoteAttributes, NEW value \in Values \cup {Null},
           ChangeOutside(id, a, value)
    PROVE  Inv'
<1>1. /\ TypeOK /\ OpInv /\ Exists(id) /\ changes' = changes + 1 /\ suspect' = TRUE
      /\ remote' = [remote EXCEPT ![id].at[a] = value]
      /\ UNCHANGED <<config, state, nextId, merges, op, edits, failures>>
  BY DEF Inv, ChangeOutside, Outside
<1>2. remote \in [1 .. MaxId -> Units \cup {None}] /\ remote[id] \in Units
  BY <1>1 DEF TypeOK, Exists
<1>3. [remote[id] EXCEPT !.at[a] = value] \in Units
  BY <1>2 DEF Units
<1>4. remote' = [remote EXCEPT ![id] = [remote[id] EXCEPT !.at[a] = value]]
  BY <1>1, <1>2
<1>5. remote' \in [1 .. MaxId -> Units \cup {None}]
  BY <1>2, <1>3, <1>4
<1>6. TypeOK'
  BY <1>1, <1>5 DEF TypeOK
<1>7. OpInv'
  BY <1>1 DEF OpInv
<1>8. StateInv' /\ PlanInv'
  BY <1>1 DEF StateInv, PlanInv
<1> QED
  BY <1>6, <1>7, <1>8 DEF Inv

LEMMA RemoveInv ==
    ASSUME Inv, NEW id \in 1 .. MaxId, DeleteOutside(id)
    PROVE  Inv'
<1>1. /\ TypeOK /\ OpInv /\ StateInv /\ PlanInv /\ changes' = changes + 1 /\ suspect' = suspect
      /\ remote' = [remote EXCEPT ![id] = None]
      /\ UNCHANGED <<config, state, nextId, merges, op, edits, failures>>
  BY DEF Inv, DeleteOutside, Outside
<1>2. remote \in [1 .. MaxId -> Units \cup {None}] /\ remote' \in [1 .. MaxId -> Units \cup {None}]
  BY <1>1 DEF TypeOK
<1>3. \A i \in 1 .. MaxId : remote'[i] = remote[i] \/ remote'[i] = None
  BY <1>1, <1>2
<1>4. TypeOK'
  BY <1>1, <1>2 DEF TypeOK
<1>5. OpInv'
  BY <1>1 DEF OpInv
<1>6. StateInv'
  <2>1. state # None => state.id \in 1 .. MaxId
    BY <1>1, StateOf
  <2> QED
    BY <1>1, <1>3, <2>1 DEF StateInv, Exists, Matches, At
<1>7. PlanInv'
  <2>1. At("verify") \/ At("create-get") => op.id \in 1 .. MaxId
    BY <1>1, Whose DEF OpInv, At
  <2> QED
    BY <1>1, <1>3, <2>1 DEF PlanInv, Exists, Matches, At
<1> QED
  BY <1>4, <1>5, <1>6, <1>7 DEF Inv

LEMMA EditInv ==
    ASSUME Inv, NEW new \in Configs \cup {None}, EditConfig(new)
    PROVE  Inv'
<1>1. /\ TypeOK /\ OpInv /\ StateInv /\ PlanInv /\ config' = new /\ edits' = edits + 1
      /\ UNCHANGED <<state, remote, nextId, merges, op, suspect, failures, changes>>
  BY DEF Inv, EditConfig
<1>2. TypeOK'
  BY <1>1 DEF TypeOK
<1>3. OpInv' /\ StateInv' /\ PlanInv'
  BY <1>1 DEF OpInv, StateInv, PlanInv, Exists, Matches, At
<1> QED
  BY <1>2, <1>3 DEF Inv

-----------------------------------------------------------------------------
LEMMA InitInv == Init => Inv
<1> SUFFICES ASSUME Init PROVE Inv
  OBVIOUS
<1>1. /\ config = None /\ state = None /\ remote = [id \in 1 .. MaxId |-> None] /\ nextId = 1
      /\ merges \in BOOLEAN /\ op = NoOp /\ suspect = FALSE
      /\ edits = 0 /\ failures = 0 /\ changes = 0
  BY DEF Init
<1>2. 0 \in 0 .. MaxId /\ 1 \in 1 .. MaxId + 1
  BY BusinessUnitAssumption
<1>3. op \in Ops /\ op.kind = "none" /\ op.pc = ""
  BY <1>1, <1>2 DEF NoOp, Ops
<1>4. TypeOK
  BY <1>1, <1>2, <1>3 DEF TypeOK
<1>5. OpInv /\ StateInv /\ PlanInv
  BY <1>1, <1>3 DEF OpInv, StateInv, PlanInv, At
<1> QED
  BY <1>4, <1>5 DEF Inv

LEMMA NextInv == Inv /\ [Next]_vars => Inv'
<1> SUFFICES ASSUME Inv, [Next]_vars PROVE Inv'
  OBVIOUS
<1>1. CASE Apply \/ BeginRead
  BY <1>1, BeginInv DEF Apply
<1>2. ASSUME NEW o \in HeadOutcomes, DoesBusinessUnitExist(o) PROVE Inv'
  BY <1>2, HeadInv
<1>3. ASSUME NEW o \in Outcomes,
             \/ \E echoes \in BOOLEAN : PostBusinessUnit(o, echoes)
             \/ resolveCreatedGlobalFilter(o)
             \/ ReadBusinessUnit(o) \/ UpdateBusinessUnit(o) \/ VerifyUpdate(o)
             \/ DeleteBusinessUnit(o)
      PROVE  Inv'
  BY <1>3, PostInv, ResolveInv, ReadInv, PutInv, VerifyInv, DeleteInv
<1>4. CASE Environment
  <2>1. ASSUME NEW new \in Configs \cup {None}, EditConfig(new) PROVE Inv'
    BY <2>1, EditInv
  <2>2. ASSUME NEW id \in 1 .. MaxId, ImportState(id) \/ DeleteOutside(id) PROVE Inv'
    BY <2>2, ImportInv, RemoveInv
  <2>3. ASSUME NEW id \in 1 .. MaxId, NEW a \in RemoteAttributes, NEW v \in Values \cup {Null},
               ChangeOutside(id, a, v)
        PROVE  Inv'
    BY <2>3, ChangeInv
  <2> QED
    BY <1>4, <2>1, <2>2, <2>3 DEF Environment
<1>5. CASE UNCHANGED vars
  <2>1. UNCHANGED <<config, state, remote, nextId, merges, op, suspect, edits, failures, changes>>
    BY <1>5 DEF vars
  <2>2. TypeOK'
    BY <2>1 DEF Inv, TypeOK
  <2> QED
    BY <2>1, <2>2 DEF Inv, OpInv, StateInv, PlanInv, Exists, Matches, At
<1> QED
  BY <1>1, <1>2, <1>3, <1>4, <1>5 DEF Next, Handler

(* The invariant holds in every state of every behaviour.                  *)
THEOREM Invariance == Spec => []Inv
<1>1. Inv /\ [Next]_vars => Inv'
  BY NextInv
<1> QED
  BY <1>1, InitInv, PTL DEF Spec

(* The state keeps its shape; an update is planned with a global_filter.   *)
THEOREM TypeCorrect == Spec => []TypeOK
<1>1. Inv => TypeOK
  BY DEF Inv
<1> QED
  BY <1>1, Invariance, PTL

(* Between two handlers, what the state says of the filters, the metadata  *)
(* and global_filter is what the service has.                              *)
THEOREM Exactness == Spec => []StateIsExact
<1>1. Inv => StateIsExact
  <2> SUFFICES ASSUME Inv, Idle, state # None, ~suspect, Documented(state), Exists(state.id)
               PROVE  /\ state.global = remote[state.id].global
                      /\ \A a \in RemoteAttributes :
                            \/ Meant(state, a) = remote[state.id].at[a]
                            \/ merges /\ Meant(state, a) = Null
    BY DEF StateIsExact, Meant
  <2>1. ~At("verify")
    BY DEF Idle, NoOp, At
  <2> QED
    BY <2>1 DEF Inv, StateInv, Matches
<1> QED
  BY <1>1, Invariance, PTL

-----------------------------------------------------------------------------
(* A unit is forgotten only where NeverLost says.                          *)
LEMMA Remembers ==
    ASSUME Inv, Next, NEW id \in 1 .. MaxId
    PROVE  /\ Tracked(id) /\ Exists(id) /\ Exists(id)' =>
                \/ Tracked(id)'
                \/ failures' > failures
                     /\ (At("head") \/ (At("create-get") /\ op.plan.global = Null))
           /\ ~Exists(id) /\ Exists(id)' => Tracked(id)' \/ failures' > failures
<1> DEFINE Goal == /\ Tracked(id) /\ Exists(id) /\ Exists(id)' =>
                        \/ Tracked(id)'
                        \/ failures' > failures
                             /\ (At("head") \/ (At("create-get") /\ op.plan.global = Null))
                   /\ ~Exists(id) /\ Exists(id)' => Tracked(id)' \/ failures' > failures
<1> SUFFICES Goal
  OBVIOUS
<1>0. /\ TypeOK /\ OpInv /\ id # 0 /\ remote \in [1 .. MaxId -> Units \cup {None}]
      /\ Idle => op.kind = "none"
  <2>1. NoOp.kind = "none"
    BY DEF NoOp
  <2> QED
    BY <2>1 DEF Inv, TypeOK, Idle
<1>1. CASE Apply \/ BeginRead
  <2>1. Idle /\ UNCHANGED <<state, remote>>
    BY <1>1 DEF Apply, BeginCreate, BeginRead, BeginUpdate, BeginDelete
  <2> QED
    BY <1>0, <2>1 DEF Tracked, Exists
<1>2. ASSUME NEW o \in HeadOutcomes, DoesBusinessUnitExist(o) PROVE Goal
  <2>1. At("head") /\ Failing(o) /\ remote' = remote
    BY <1>2 DEF DoesBusinessUnitExist
  <2>2. op.kind = "read" /\ op.id = state.id
    BY <1>0, <2>1, Whose DEF OpInv
  <2>3. o = "fine" /\ Exists(op.id) => state' = state
    BY <1>2 DEF DoesBusinessUnitExist
  <2>4. o # "fine" => failures' > failures
    BY <1>0, <2>1, Counting
  <2> QED
    BY <2>1, <2>2, <2>3, <2>4 DEF Tracked, Exists
<1>3. ASSUME NEW o \in Outcomes, NEW echoes \in BOOLEAN, PostBusinessUnit(o, echoes) PROVE Goal
  <2>1. At("post") /\ Failing(o)
    BY <1>3 DEF PostBusinessUnit
  <2>2. op.kind = "create" /\ op.id = 0 /\ state = None /\ nextId <= MaxId /\ op.plan \in Plans
    BY <1>0, <2>1, Whose DEF OpInv, At
  <2>3. ~Tracked(id)
    BY <1>0, <2>2 DEF Tracked
  <2>4. o # "fine" => failures' > failures
    BY <1>0, <2>1, Counting
  <2>5. CASE o = "fine"
    <3>1. PostEffect(op.plan)
      BY <1>3, <2>5 DEF PostBusinessUnit
    <3>2. nextId \in 1 .. MaxId /\ remote'[nextId].global \in BOOLEAN
          /\ \A i \in 1 .. MaxId : i # nextId => remote'[i] = remote[i]
      BY <1>0, <2>2, <3>1, PostMatches
    <3>3. \/ state' = Stored(op.plan, nextId, remote'[nextId].global)
          \/ op' = [op EXCEPT !.pc = "create-get", !.id = nextId]
      BY <1>3, <2>5 DEF PostBusinessUnit
    <3>4. CASE state' = Stored(op.plan, nextId, remote'[nextId].global)
      <4>1. state' # None /\ state'.id = nextId
        BY <2>2, <3>2, <3>4, StoredRow
      <4> QED
        BY <2>3, <3>2, <4>1 DEF Tracked, Exists
    <3>5. CASE op' = [op EXCEPT !.pc = "create-get", !.id = nextId]
      <4>1. op'.kind = "create" /\ op'.id = nextId
        BY <1>0, <2>2, <3>5 DEF TypeOK, Ops
      <4> QED
        BY <2>3, <3>2, <4>1 DEF Tracked, Exists
    <3> QED
      BY <3>3, <3>4, <3>5
  <2> QED
    BY <2>3, <2>4, <2>5
<1>4. ASSUME NEW o \in Outcomes, resolveCreatedGlobalFilter(o) PROVE Goal
  <2>1. At("create-get") /\ CallOn(o) /\ remote' = remote
    BY <1>4 DEF resolveCreatedGlobalFilter
  <2>2. /\ op.kind = "create" /\ op.id \in 1 .. MaxId /\ state = None /\ op.plan \in Plans
        /\ op.plan.global = Null
    BY <1>0, <2>1, Whose DEF OpInv, At
  <2>3. CASE o = "fine"
    <3>1. Exists(op.id)
      BY <1>0, <2>1, <2>3, Counting
    <3>2. remote[op.id].global \in BOOLEAN
      BY <1>0, <2>2, <3>1, UnitOf
    <3>3. state' = Stored(op.plan, op.id, remote[op.id].global)
      BY <1>4, <2>3 DEF resolveCreatedGlobalFilter
    <3>4. state' # None /\ state'.id = op.id
      BY <2>2, <3>2, <3>3, StoredRow
    <3> QED
      BY <2>1, <2>2, <3>4 DEF Tracked, Exists
  <2>4. CASE o # "fine"
    <3>1. Exists(op.id) => failures' > failures
      BY <1>0, <2>1, <2>4, Counting
    <3> QED
      BY <2>1, <2>2, <3>1 DEF Tracked, Exists
  <2> QED
    BY <2>3, <2>4
<1>5. ASSUME NEW o \in Outcomes, ReadBusinessUnit(o) PROVE Goal
  <2>1. At("read-get") /\ CallOn(o) /\ remote' = remote
    BY <1>5 DEF ReadBusinessUnit
  <2>2. op.kind = "read" /\ op.id = state.id /\ op.id \in 1 .. MaxId /\ state # None
    BY <1>0, <2>1, Whose DEF OpInv
  <2>3. state' # None /\ state'.id = state.id
    <3>1. CASE o = "fine"
      <4> DEFINE had == state.at["cloud_account_ids"] \notin {Null, Empty}
      <4>1. Exists(op.id) /\ had \in BOOLEAN
        BY <1>0, <2>1, <3>1, Counting
      <4>2. state' = FromService(op.id, had)
        BY <1>5, <3>1 DEF ReadBusinessUnit
      <4> HIDE DEF had
      <4> QED
        BY <1>0, <2>2, <4>1, <4>2, ServiceRow
    <3>2. CASE o # "fine"
      BY <1>5, <2>2, <3>2 DEF ReadBusinessUnit
    <3> QED
      BY <3>1, <3>2
  <2> QED
    BY <2>1, <2>2, <2>3 DEF Tracked, Exists
<1>6. ASSUME NEW o \in Outcomes, UpdateBusinessUnit(o) \/ VerifyUpdate(o) PROVE Goal
  <2>1. (At("put") \/ At("verify")) /\ CallOn(o)
    BY <1>6 DEF UpdateBusinessUnit, VerifyUpdate
  <2>2. /\ op.kind = "update" /\ op.id = state.id /\ op.id \in 1 .. MaxId /\ state # None
        /\ op.plan \in Plans /\ op.plan.global \in BOOLEAN
    BY <1>0, <2>1, Whose DEF OpInv, TypeOK
  <2>3. state' = state \/ state' = Stored(op.plan, op.id, op.plan.global)
    BY <1>6 DEF UpdateBusinessUnit, VerifyUpdate
  <2>4. state' # None /\ state'.id = state.id
    BY <2>2, <2>3, StoredRow
  <2>5. remote' = remote \/ (PutEffect(op.plan) /\ o # "failed")
    BY <1>6 DEF UpdateBusinessUnit, VerifyUpdate
  <2>6. CASE PutEffect(op.plan) /\ o # "failed"
    <3>1. Exists(op.id)
      BY <1>0, <2>1, <2>6, Counting
    <3>2. \A i \in 1 .. MaxId : i # op.id => remote'[i] = remote[i]
      BY <1>0, <2>2, <2>6, <3>1, PutMatches
    <3> QED
      BY <2>2, <2>4, <3>1, <3>2 DEF Tracked, Exists
  <2> QED
    BY <2>2, <2>4, <2>5, <2>6 DEF Tracked, Exists
<1>7. ASSUME NEW o \in Outcomes, DeleteBusinessUnit(o) PROVE Goal
  <2>1. /\ At("delete") /\ CallOn(o)
        /\ remote' = IF o = "failed" THEN remote ELSE [remote EXCEPT ![op.id] = None]
    BY <1>7 DEF DeleteBusinessUnit
  <2>2. op.kind = "delete" /\ op.id = state.id /\ op.id \in 1 .. MaxId /\ state # None
    BY <1>0, <2>1, Whose DEF OpInv
  <2>3. CASE o = "fine"
    <3>1. remote'[op.id] = None /\ \A i \in 1 .. MaxId : i # op.id => remote'[i] = remote[i]
      BY <1>0, <2>1, <2>2, <2>3
    <3> QED
      BY <2>2, <3>1 DEF Tracked, Exists
  <2>4. CASE o # "fine"
    <3>1. state' = state
      BY <1>7, <2>4 DEF DeleteBusinessUnit
    <3>2. remote'[id] = remote[id] \/ remote'[id] = None
      BY <1>0, <2>1
    <3> QED
      BY <2>2, <3>1, <3>2 DEF Tracked, Exists
  <2> QED
    BY <2>3, <2>4
<1>8. CASE Environment
  <2>1. ASSUME NEW new \in Configs \cup {None}, EditConfig(new) PROVE Goal
    BY <2>1 DEF EditConfig, Tracked, Exists
  <2>2. ASSUME NEW i \in 1 .. MaxId, ImportState(i) PROVE Goal
    BY <1>0, <2>2 DEF ImportState, Tracked, Exists
  <2>3. ASSUME NEW i \in 1 .. MaxId, DeleteOutside(i) PROVE Goal
    <3>1. state' = state /\ op' = op /\ remote' = [remote EXCEPT ![i] = None]
      BY <2>3 DEF DeleteOutside, Outside
    <3>2. remote'[id] = remote[id] \/ remote'[id] = None
      BY <1>0, <3>1
    <3> QED
      BY <3>1, <3>2 DEF Tracked, Exists
  <2>4. ASSUME NEW i \in 1 .. MaxId, NEW a \in RemoteAttributes, NEW v \in Values \cup {Null},
               ChangeOutside(i, a, v)
        PROVE  Goal
    <3>1. /\ state' = state /\ op' = op /\ Exists(i)
          /\ remote' = [remote EXCEPT ![i].at[a] = v]
      BY <2>4 DEF ChangeOutside, Outside
    <3>2. id # i => remote'[id] = remote[id]
      BY <1>0, <3>1
    <3> QED
      BY <3>1, <3>2 DEF Tracked, Exists
  <2> QED
    BY <1>8, <2>1, <2>2, <2>3, <2>4 DEF Environment
<1> HIDE DEF Goal
<1>9. CASE Handler
  <2>1. \A o \in HeadOutcomes : DoesBusinessUnitExist(o) => Goal
    BY <1>2
  <2>2. \A o \in Outcomes : \A echoes \in BOOLEAN : PostBusinessUnit(o, echoes) => Goal
    BY <1>3
  <2>3. \A o \in Outcomes : resolveCreatedGlobalFilter(o) \/ ReadBusinessUnit(o) => Goal
    BY <1>4, <1>5
  <2>4. \A o \in Outcomes :
           UpdateBusinessUnit(o) \/ VerifyUpdate(o) \/ DeleteBusinessUnit(o) => Goal
    BY <1>6, <1>7
  <2> QED
    BY <1>9, <2>1, <2>2, <2>3, <2>4 DEF Handler
<1> QED
  BY <1>1, <1>8, <1>9 DEF Next

(* No failure forgets a business unit, but for those of HEAD, of POST, and *)
(* of the GET after a POST that left global_filter out.                    *)
THEOREM UnitsAreKept == Spec => NeverLost
<1>1. ASSUME Inv, [Next]_vars
      PROVE  [\A id \in 1 .. MaxId :
                /\ Tracked(id) /\ Exists(id) /\ Exists(id)' =>
                     \/ Tracked(id)'
                     \/ failures' > failures
                          /\ (At("head") \/ (At("create-get") /\ op.plan.global = Null))
                /\ ~Exists(id) /\ Exists(id)' => Tracked(id)' \/ failures' > failures]_vars
  BY <1>1, Remembers
<1> QED
  BY <1>1, Invariance, PTL DEF Spec, NeverLost
===============================================================================
