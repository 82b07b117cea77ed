---------------------------- MODULE RbacAccessProofs ----------------------------
(***************************************************************************)
(* Proofs about group access and user access, for any number of resources, *)
(* scopes, rows, edits, failures and changes.                              *)
(*                                                                         *)
(* TwinsKeepTheirRows is about interleavings of the handlers of several    *)
(* resources.  The invariant gives every resource rows of its own: the one *)
(* it tracks, and the one its handler is about.                            *)
(***************************************************************************)
EXTENDS RbacAccess, SequenceTheorems, WellFoundedInduction, TLAPS

(* No two rows of a list have the same id.                                 *)
Distinct(list) == \A i, j \in DOMAIN list : list[i].id = list[j].id => i = j

(* What a handler is about, and what its resource tracks.                  *)
OpFits(handler, row) ==
    /\ handler.kind = "none" => handler = NoOp
    /\ handler.kind = "create" => row = NoRow /\ (handler.pc = "list" => handler.id # 0)
    /\ handler.kind = "import" => row = NoRow /\ handler.want = NoScope /\ handler.id # 0
    /\ handler.kind \in {"read", "update", "delete"} => row # NoRow /\ handler.id = row.id
    /\ ~paginated => handler.got = << >>
OpInv == \A r \in Resources : OpFits(op[r], state[r])

(* Ids are not used twice.                                                 *)
FreshInv ==
    /\ \A id \in IdsOf(rows) : id < nextId
    /\ \A r \in Resources : state[r].id < nextId /\ op[r].id < nextId

(* Nor are the rows of earlier pages, which may be gone.                   *)
GotInv == \A r \in Resources : \A id \in IdsOf(op[r].got) : id < nextId

(* The ids of the rows of a resource.                                      *)
Owned(r) == {state[r].id, op[r].id} \ {0}

OwnInv ==
    settled /\ ~paginated =>
        /\ \A r, q \in Resources : r # q => Owned(r) \cap Owned(q) = {}
        /\ \A r \in Resources :
             /\ state[r] # NoRow => state[r].id \in IdsOf(rows)
             /\ op[r].kind # "import" /\ op[r].id # 0 => op[r].id \in IdsOf(rows)

Inv ==
    /\ TypeOK
    /\ OpInv
    /\ FreshInv
    /\ GotInv
    /\ OwnInv

-----------------------------------------------------------------------------
(* Rows and lists of rows.                                                 *)
LEMMA RowType ==
    /\ \A row \in Rows : row.id \in 1 .. MaxId /\ row.id # 0 /\ row.scope \in Scopes
                          /\ row.scope # NoScope /\ row # NoRow
    /\ \A id \in 1 .. MaxId, scope \in Scopes : [id |-> id, scope |-> scope] \in Rows
    /\ NoRow.id = 0 /\ NoRow.scope = NoScope
    /\ \A id \in 1 .. MaxId : id \in 0 .. MaxId /\ id # 0
    /\ 0 \in 0 .. MaxId
    /\ \A row \in Rows \cup {NoRow} : row.id \in 0 .. MaxId /\ (row.id = 0 <=> row = NoRow)
BY RbacAccessAssumption DEF Rows, NoRow

LEMMA ListType ==
    ASSUME NEW list \in Seq(Rows)
    PROVE  /\ \A i \in DOMAIN list : list[i] \in Rows /\ list[i] \in RowsOf(list)
                                      /\ list[i].id \in IdsOf(list)
           /\ DOMAIN list = 1 .. Len(list) /\ Len(list) \in Nat
           /\ IdsOf(list) \subseteq 1 .. MaxId
           /\ \A id \in IdsOf(list) : \E i \in DOMAIN list : list[i].id = id
           /\ \A row \in RowsOf(list) : row \in Rows /\ row.id \in IdsOf(list)
<1>1. DOMAIN list = 1 .. Len(list) /\ Len(list) \in Nat /\ \A i \in DOMAIN list : list[i] \in Rows
  OBVIOUS
<1> QED
  BY <1>1, RowType DEF RowsOf, IdsOf

LEMMA Indexing ==
    ASSUME NEW list \in Seq(Rows), NEW id \in IdsOf(list)
    PROVE  /\ IndexOfId(list, id) \in DOMAIN list
           /\ list[IndexOfId(list, id)] \in Rows /\ list[IndexOfId(list, id)].id = id
BY ListType DEF IndexOfId

(* A set of naturals has a least element.                                  *)
LEMMA LeastElement ==
    ASSUME NEW S, S \subseteq Nat, S # {}
    PROVE  \E min \in S : \A s \in S : min <= s
<1>1. PICK x \in S : \A y \in S : <<y, x>> \notin OpToRel(<, Nat)
  BY NatLessThanWellFounded, WFMin
<1>2. \A y \in S : ~(y < x)
  <2> SUFFICES ASSUME NEW y \in S, y < x PROVE FALSE
    OBVIOUS
  <2>1. <<y, x>> \in OpToRel(<, Nat)
    BY DEF OpToRel
  <2> QED
    BY <2>1, <1>1
<1> QED
  BY <1>2

(* findAccess takes the row with the id, and else one of the scope, if any.*)
LEMMA FindSound ==
    ASSUME NEW list \in Seq(Rows), NEW id, NEW want
    PROVE  /\ id \in IdsOf(list) => Find(list, id, want) \in Rows /\ Find(list, id, want).id = id
           /\ Find(list, id, want) \in Rows \cup {NoRow}
           /\ Find(list, id, want) = NoRow => id \notin IdsOf(list) /\ ~HasScope(list, want)
           /\ id \notin IdsOf(list) /\ ~HasScope(list, want) => Find(list, id, want) = NoRow
           /\ Find(list, id, want) # NoRow => Find(list, id, want).id \in IdsOf(list)
<1>1. CASE id \in IdsOf(list)
  <2>1. Find(list, id, want) = list[IndexOfId(list, id)]
    BY <1>1 DEF Find
  <2> QED
    BY <1>1, <2>1, Indexing, RowType
<1>2. CASE id \notin IdsOf(list) /\ HasScope(list, want)
  <2>1. Find(list, id, want) = list[FirstOfScope(list, want)]
    BY <1>2 DEF Find
  <2> DEFINE S == {i \in DOMAIN list : list[i].scope = want}
  <2>2. S \subseteq Nat /\ S # {}
    BY <1>2, ListType DEF HasScope, RowsOf
  <2>3. \E i \in S : \A j \in S : i <= j
    <3> HIDE DEF S
    <3> QED
      BY <2>2, LeastElement
  <2>4. FirstOfScope(list, want) \in DOMAIN list
    BY <2>3 DEF FirstOfScope
  <2> QED
    BY <1>2, <2>1, <2>4, ListType, RowType
<1>3. CASE id \notin IdsOf(list) /\ ~HasScope(list, want)
  BY <1>3 DEF Find
<1> QED
  BY <1>1, <1>2, <1>3

LEMMA AppendRow ==
    ASSUME NEW list \in Seq(Rows), Distinct(list), NEW row \in Rows, row.id \notin IdsOf(list)
    PROVE  /\ Append(list, row) \in Seq(Rows) /\ Distinct(Append(list, row))
           /\ IdsOf(Append(list, row)) = IdsOf(list) \cup {row.id}
<1> DEFINE new == Append(list, row)
<1>1. /\ new \in Seq(Rows) /\ Len(new) = Len(list) + 1
      /\ \A i \in 1 .. Len(list) : new[i] = list[i]
      /\ new[Len(list) + 1] = row
  BY AppendProperties
<1>2. DOMAIN new = DOMAIN list \cup {Len(list) + 1} /\ DOMAIN list = 1 .. Len(list)
  BY <1>1
<1> HIDE DEF new
<1>3. Distinct(new)
  BY <1>1, <1>2, ListType DEF Distinct
<1>4. RowsOf(new) = RowsOf(list) \cup {row}
  BY <1>1, <1>2 DEF RowsOf
<1>5. IdsOf(new) = IdsOf(list) \cup {row.id}
  BY <1>4 DEF IdsOf
<1> QED
  BY <1>1, <1>3, <1>5 DEF new

LEMMA WithoutRow ==
    ASSUME NEW list \in Seq(Rows), Distinct(list), NEW id
    PROVE  /\ Without(list, id) \in Seq(Rows) /\ Distinct(Without(list, id))
           /\ IdsOf(Without(list, id)) = IdsOf(list) \ {id}
<1>1. CASE id \notin IdsOf(list)
  BY <1>1 DEF Without
<1>2. CASE id \in IdsOf(list)
  <2> DEFINE at == IndexOfId(list, id)
             new == [i \in 1 .. Len(list) - 1 |-> IF i < at THEN list[i] ELSE list[i + 1]]
  <2>1. at \in DOMAIN list /\ list[at].id = id
    BY <1>2, Indexing
  <2>2. DOMAIN list = 1 .. Len(list) /\ Len(list) \in Nat
        /\ \A i \in DOMAIN list : list[i] \in Rows
    BY ListType
  <2>3. Without(list, id) = new
    BY <1>2 DEF Without
  <2> HIDE DEF at
  <2>4. DOMAIN new = 1 .. Len(list) - 1 /\ Len(list) - 1 \in Nat
    BY <2>1, <2>2
  <2>5. \A i \in 1 .. Len(list) - 1 : new[i] \in Rows
    BY <2>1, <2>2
  <2>6. new \in Seq(Rows)
    BY <2>4, <2>5, IsASeq
  <2>7. \A i \in DOMAIN new : \E j \in DOMAIN list \ {at} :
           /\ new[i] = list[j]
           /\ j = IF i < at THEN i ELSE i + 1
    BY <2>1, <2>2, <2>4
  <2>8. \A j \in DOMAIN list \ {at} : \E i \in DOMAIN new : new[i] = list[j]
    <3> SUFFICES ASSUME NEW j \in DOMAIN list \ {at} PROVE \E i \in DOMAIN new : new[i] = list[j]
      OBVIOUS
    <3>1. CASE j < at
      <4>1. j \in DOMAIN new /\ new[j] = list[j]
        BY <2>1, <2>2, <2>4, <3>1
      <4> QED
        BY <4>1
    <3>2. CASE j > at
      <4>1. j - 1 \in DOMAIN new /\ new[j - 1] = list[j]
        BY <2>1, <2>2, <2>4, <3>2
      <4> QED
        BY <4>1
    <3> QED
      BY <2>1, <2>2, <3>1, <3>2
  <2> HIDE DEF new
  <2>9. Distinct(new)
    BY <2>1, <2>2, <2>4, <2>7 DEF Distinct
  <2>10. RowsOf(new) = {list[j] : j \in DOMAIN list \ {at}}
    BY <2>7, <2>8 DEF RowsOf
  <2>11. \A j \in DOMAIN list : list[j].id = id => j = at
    BY <2>1 DEF Distinct
  <2>12. IdsOf(new) = IdsOf(list) \ {id}
    BY <2>1, <2>10, <2>11 DEF IdsOf, RowsOf
  <2> QED
    BY <2>3, <2>6, <2>9, <2>12
<1> QED
  BY <1>1, <1>2

LEMMA RescopeRow ==
    ASSUME NEW list \in Seq(Rows), Distinct(list), NEW id \in IdsOf(list), NEW scope \in Scopes
    PROVE  LET new == [list EXCEPT ![IndexOfId(list, id)].scope = scope] IN
             new \in Seq(Rows) /\ Distinct(new) /\ IdsOf(new) = IdsOf(list)
<1> DEFINE at == IndexOfId(list, id)
           row == [list[at] EXCEPT !.scope = scope]
           new == [list EXCEPT ![at] = row]
<1>1. at \in DOMAIN list /\ list[at] \in Rows
  BY Indexing
<1>2. row \in Rows /\ row.id = list[at].id
  BY <1>1 DEF Rows
<1> HIDE DEF at, row
<1>3. new \in Seq(Rows) /\ DOMAIN new = DOMAIN list
  BY <1>1, <1>2, ExceptSeq
<1>4. \A i \in DOMAIN list : new[i].id = list[i].id
  BY <1>1, <1>2
<1> HIDE DEF new
<1>5. Distinct(new)
  BY <1>3, <1>4 DEF Distinct
<1>6. IdsOf(new) = {new[i].id : i \in DOMAIN new} /\ IdsOf(list) = {list[i].id : i \in DOMAIN list}
  BY DEF IdsOf, RowsOf
<1>7. IdsOf(new) = IdsOf(list)
  BY <1>3, <1>4, <1>6
<1> QED
  BY <1>3, <1>5, <1>7 DEF new, row, at

-----------------------------------------------------------------------------
(* Handlers as values.                                                     *)
LEMMA OpType ==
    /\ NoOp \in Ops /\ NoOp.kind = "none" /\ NoOp.pc = "" /\ NoOp.id = 0 /\ NoOp.got = << >>
    /\ IdsOf(<< >>) = {}
<1>1. << >> \in Seq(Rows)
  OBVIOUS
<1>2. \A got \in Seq(Rows) :
         LET new == [kind |-> "none", pc |-> "", id |-> 0, want |-> NoScope, got |-> got] IN
           /\ new \in Ops /\ new.kind = "none" /\ new.pc = "" /\ new.id = 0
           /\ new.got = got
  BY RowType DEF Ops
<1>3. IdsOf(<< >>) = {}
  BY DEF IdsOf, RowsOf
<1> QED
  BY <1>1, <1>2, <1>3 DEF NoOp

LEMMA Current ==
    ASSUME Inv, NEW r \in Resources
    PROVE  /\ op[r] \in Ops /\ state[r] \in Rows \cup {NoRow} /\ OpFits(op[r], state[r])
           /\ op[r].id \in 0 .. MaxId /\ op[r].id < nextId /\ state[r].id < nextId
           /\ op[r].got \in Seq(Rows) /\ op[r].want \in Scopes \cup {NoScope}
           /\ op[r].pc \in StepsOf(op[r].kind)
           /\ op[r].kind \in {"none", "create", "read", "import", "update", "delete"}
           /\ op[r].kind \in {"create", "read", "update"} => op[r].want \in Scopes
BY DEF Inv, TypeOK, OpInv, FreshInv, Ops

(* Which handler is where.                                                 *)
LEMMA Kinds ==
    ASSUME Inv, NEW r \in Resources
    PROVE  /\ At(r, "post") => op[r].kind = "create"
           /\ At(r, "put") => op[r].kind = "update"
           /\ At(r, "delete") => op[r].kind = "delete"
           /\ At(r, "list") => op[r].kind \in {"create", "update", "read", "import"}
BY Current DEF At, StepsOf

LEMMA NewIdIsFree ==
    ASSUME Inv
    PROVE  nextId \notin IdsOf(rows) /\ rows \in Seq(Rows) /\ Distinct(rows)
BY DEF Inv, TypeOK, FreshInv, Distinct

LEMMA GotIsOld ==
    ASSUME Inv, nextId' \in 1 .. MaxId + 1, nextId <= nextId', NEW r \in Resources
    PROVE  \A id \in IdsOf(op[r].got) : id < nextId'
<1> SUFFICES ASSUME NEW id \in IdsOf(op[r].got) PROVE id < nextId'
  OBVIOUS
<1>1. id \in 1 .. MaxId
  BY Current, ListType
<1>2. id < nextId /\ nextId \in 1 .. MaxId + 1
  BY DEF Inv, GotInv, TypeOK
<1> QED
  BY <1>1, <1>2, RbacAccessAssumption

(* What a step of the handler of one resource has to establish.            *)
LEMMA OneMoves ==
    ASSUME Inv, NEW r \in Resources,
           NEW handler \in Ops, op' = [op EXCEPT ![r] = handler],
           NEW row \in Rows \cup {NoRow}, state' = [state EXCEPT ![r] = row],
           UNCHANGED <<paginated, config>>,
           settled' \in BOOLEAN, settled' => settled,
           edits' \in Nat, failures' \in Nat, changes' \in Nat,
           rows' \in Seq(Rows), Distinct(rows'),
           nextId' \in 1 .. MaxId + 1, nextId <= nextId',
           \A id \in IdsOf(rows') : id < nextId',
           handler.pc \in StepsOf(handler.kind),
           handler.kind \in {"create", "read", "update"} => handler.want # NoScope,
           OpFits(handler, row), handler.id < nextId', row.id < nextId',
           \A id \in IdsOf(handler.got) : id < nextId',
           settled' /\ ~paginated =>
              /\ row # NoRow => row.id \in IdsOf(rows')
              /\ handler.kind # "import" /\ handler.id # 0 => handler.id \in IdsOf(rows')
              /\ \A q \in Resources \ {r} :
                   /\ {row.id, handler.id} \cap Owned(q) = {}
                   /\ \A id \in Owned(q) : id \in IdsOf(rows) => id \in IdsOf(rows')
    PROVE  Inv'
<1> USE DEF Inv
<1>1. /\ op'[r] = handler /\ state'[r] = row
      /\ \A q \in Resources \ {r} : op'[q] = op[q] /\ state'[q] = state[q]
  BY DEF TypeOK
<1>2. TypeOK'
  BY <1>1 DEF TypeOK, Distinct
<1>3. OpInv'
  BY <1>1 DEF OpInv, OpFits
<1>4. FreshInv'
  <2>1. \A q \in Resources : state[q].id \in 0 .. MaxId /\ op[q].id \in 0 .. MaxId
    BY Current, RowType
  <2>2. \A q \in Resources : state[q].id < nextId' /\ op[q].id < nextId'
    BY <2>1 DEF FreshInv, TypeOK
  <2> QED
    BY <1>1, <2>2 DEF FreshInv
<1>g. GotInv'
  BY <1>1, GotIsOld DEF GotInv
<1>5. OwnInv'
  <2> SUFFICES ASSUME settled', ~paginated
               PROVE  /\ \A p, q \in Resources : p # q => Owned(p)' \cap Owned(q)' = {}
                      /\ \A q \in Resources :
                           /\ state'[q] # NoRow => state'[q].id \in IdsOf(rows')
                           /\ op'[q].kind # "import" /\ op'[q].id # 0 => op'[q].id \in IdsOf(rows')
    BY DEF OwnInv
  <2>1. \A q \in Resources \ {r} : Owned(q)' = Owned(q)
    BY <1>1 DEF Owned
  <2>2. Owned(r)' = {row.id, handler.id} \ {0}
    BY <1>1 DEF Owned
  <2>3. \A q \in Resources \ {r} : Owned(r)' \cap Owned(q)' = {}
    BY <2>1, <2>2
  <2>4. \A p, q \in Resources : p # q => Owned(p)' \cap Owned(q)' = {}
    BY <2>1, <2>3 DEF OwnInv
  <2>5. ASSUME NEW q \in Resources \ {r}
        PROVE  /\ state'[q] # NoRow => state'[q].id \in IdsOf(rows')
               /\ op'[q].kind # "import" /\ op'[q].id # 0 => op'[q].id \in IdsOf(rows')
    <3>1. state[q] # NoRow => state[q].id \in Owned(q) /\ state[q].id \in IdsOf(rows)
      BY RowType, Current DEF Owned, OwnInv
    <3>2. op[q].kind # "import" /\ op[q].id # 0 => op[q].id \in Owned(q) /\ op[q].id \in IdsOf(rows)
      BY DEF Owned, OwnInv
    <3> QED
      BY <1>1, <3>1, <3>2
  <2> QED
    BY <1>1, <2>4, <2>5
<1> QED
  BY <1>2, <1>3, <1>4, <1>g, <1>5

(* The rows of a resource are those of no other.                           *)
LEMMA OthersOwn ==
    ASSUME Inv, settled, ~paginated, NEW r \in Resources, NEW q \in Resources \ {r}
    PROVE  /\ state[r].id \notin Owned(q) /\ op[r].id \notin Owned(q) /\ 0 \notin Owned(q)
           /\ nextId \notin Owned(q)
<1>1. 0 \notin Owned(q) /\ Owned(r) \cap Owned(q) = {}
  BY DEF Inv, OwnInv, Owned
<1>2. state[q].id # nextId /\ op[q].id # nextId
  BY Current, RowType
<1> QED
  BY <1>1, <1>2 DEF Owned

(* A handler ends and nothing has happened to the rows.                    *)
LEMMA EndsInv ==
    ASSUME Inv, NEW r \in Resources, op' = [op EXCEPT ![r] = NoOp],
           NEW row \in Rows \cup {NoRow}, state' = [state EXCEPT ![r] = row],
           UNCHANGED <<paginated, config, rows, nextId>>,
           settled' \in BOOLEAN, settled' => settled,
           edits' \in Nat, failures' \in Nat, changes' \in Nat,
           row.id < nextId,
           settled /\ ~paginated =>
             row = NoRow \/ (row.id \in {state[r].id, op[r].id} /\ row.id \in IdsOf(rows))
    PROVE  Inv'
<1> USE DEF Inv
<1>1. NoOp \in Ops /\ OpFits(NoOp, row) /\ NoOp.pc \in StepsOf(NoOp.kind)
      /\ NoOp.kind = "none" /\ NoOp.id = 0 /\ IdsOf(NoOp.got) = {}
  <2>1. /\ NoOp \in Ops /\ NoOp.kind = "none" /\ NoOp.pc = "" /\ NoOp.id = 0 /\ NoOp.got = << >>
        /\ IdsOf(NoOp.got) = {}
    BY OpType
  <2>2. StepsOf("none") = {""}
    BY DEF StepsOf
  <2>3. OpFits(NoOp, row)
    BY <2>1 DEF OpFits
  <2> QED
    BY <2>1, <2>2, <2>3
<1>2. /\ rows' \in Seq(Rows) /\ Distinct(rows') /\ nextId' \in 1 .. MaxId + 1
      /\ nextId <= nextId' /\ \A id \in IdsOf(rows') : id < nextId'
      /\ 0 < nextId
  BY DEF TypeOK, FreshInv, Distinct
<1>3. settled' /\ ~paginated =>
        /\ row # NoRow => row.id \in IdsOf(rows')
        /\ \A q \in Resources \ {r} : {row.id, NoOp.id} \cap Owned(q) = {}
  BY <1>1, OthersOwn, RowType
<1> QED
  BY <1>1, <1>2, <1>3, OneMoves

-----------------------------------------------------------------------------
(* Nothing about the resources changes, and the rows only if not settled.  *)
LEMMA OutsideInv ==
    ASSUME Inv, UNCHANGED <<paginated, state, op>>,
           config' \in [Resources -> Scopes \cup {NoScope}],
           edits' \in Nat, failures' \in Nat, changes' \in Nat,
           settled' = FALSE \/ UNCHANGED <<settled, rows>>, settled' \in BOOLEAN,
           rows' \in Seq(Rows), Distinct(rows'),
           nextId' \in 1 .. MaxId + 1, nextId <= nextId',
           \A id \in IdsOf(rows') : id < nextId'
    PROVE  Inv'
<1> USE DEF Inv
<1>1. TypeOK'
  BY DEF TypeOK, Distinct
<1>2. OpInv'
  BY DEF OpInv, OpFits
<1>3. FreshInv'
  <2>1. \A q \in Resources : state[q].id \in 0 .. MaxId /\ op[q].id \in 0 .. MaxId
    BY Current, RowType
  <2> QED
    BY <2>1 DEF FreshInv, TypeOK
<1>4. GotInv'
  BY GotIsOld DEF GotInv
<1>5. OwnInv'
  BY DEF OwnInv, Owned
<1> QED
  BY <1>1, <1>2, <1>3, <1>4, <1>5

LEMMA EditConfigInv ==
    ASSUME Inv, NEW r \in Resources, NEW scope \in Scopes \cup {NoScope}, EditConfig(r, scope)
    PROVE  Inv'
<1>1. /\ UNCHANGED <<paginated, state, op, settled, rows, nextId, failures, changes>>
      /\ config' = [config EXCEPT ![r] = scope] /\ edits' = edits + 1
  BY DEF EditConfig
<1>2. Distinct(rows') /\ nextId <= nextId' /\ \A id \in IdsOf(rows') : id < nextId'
  BY <1>1, NewIdIsFree DEF Inv, FreshInv, TypeOK
<1> QED
  BY <1>1, <1>2, OutsideInv DEF Inv, TypeOK

LEMMA DeleteOutsideInv ==
    ASSUME Inv, NEW gone \in 1 .. MaxId, DeleteOutside(gone)
    PROVE  Inv'
<1>1. /\ UNCHANGED <<paginated, config, state, op, edits, failures, nextId>>
      /\ changes' = changes + 1 /\ settled' = FALSE
      /\ rows' = Without(rows, gone)
  BY DEF DeleteOutside, Outside
<1>2. /\ rows' \in Seq(Rows) /\ Distinct(rows') /\ nextId <= nextId'
      /\ \A id \in IdsOf(rows') : id < nextId'
  BY <1>1, NewIdIsFree, WithoutRow DEF Inv, FreshInv, TypeOK
<1>3. /\ config' \in [Resources -> Scopes \cup {NoScope}] /\ nextId' \in 1 .. MaxId + 1
      /\ edits' \in Nat /\ failures' \in Nat /\ changes' \in Nat /\ settled' \in BOOLEAN
  <2>1. settled' \in BOOLEAN
    BY <1>1, Zenon
  <2> QED
    BY <1>1, <2>1 DEF Inv, TypeOK
<1> QED
  BY <1>1, <1>2, <1>3, OutsideInv

LEMMA RecreateInv ==
    ASSUME Inv, NEW gone \in 1 .. MaxId, Recreate(gone)
    PROVE  Inv'
<1> DEFINE rest == Without(rows, gone)
           row == [rows[IndexOfId(rows, gone)] EXCEPT !.id = nextId]
<1>1. /\ UNCHANGED <<paginated, config, state, op, edits, failures>>
      /\ changes' = changes + 1 /\ settled' = FALSE
      /\ gone \in IdsOf(rows) /\ nextId <= MaxId /\ nextId' = nextId + 1
      /\ rows' = Append(rest, row)
  BY DEF Recreate, Outside
<1>2. rest \in Seq(Rows) /\ Distinct(rest) /\ IdsOf(rest) = IdsOf(rows) \ {gone}
  BY NewIdIsFree, WithoutRow
<1>3. nextId \in 1 .. MaxId /\ nextId' \in 1 .. MaxId + 1 /\ nextId <= nextId'
  BY <1>1, RbacAccessAssumption DEF Inv, TypeOK
<1>4. row \in Rows /\ row.id = nextId
  <2>1. rows[IndexOfId(rows, gone)] \in Rows
    BY <1>1, NewIdIsFree, Indexing
  <2> QED
    BY <1>3, <2>1 DEF Rows
<1> HIDE DEF rest, row
<1>5. /\ rows' \in Seq(Rows) /\ Distinct(rows')
      /\ IdsOf(rows') = (IdsOf(rows) \ {gone}) \cup {nextId}
  BY <1>1, <1>2, <1>4, NewIdIsFree, AppendRow
<1>6. \A id \in IdsOf(rows') : id < nextId'
  BY <1>1, <1>3, <1>5, ListType, NewIdIsFree DEF Inv, FreshInv
<1>7. /\ config' \in [Resources -> Scopes \cup {NoScope}]
      /\ edits' \in Nat /\ failures' \in Nat /\ changes' \in Nat /\ settled' \in BOOLEAN
  <2>1. settled' \in BOOLEAN
    BY <1>1, Zenon
  <2> QED
    BY <1>1, <2>1 DEF Inv, TypeOK
<1> QED
  BY <1>1, <1>3, <1>5, <1>6, <1>7, OutsideInv

-----------------------------------------------------------------------------
(* A handler begins.                                                       *)
LEMMA BeginInv ==
    ASSUME Inv, NEW r \in Resources,
           NEW kind \in {"create", "read", "import", "update", "delete"}, NEW pc \in StepsOf(kind),
           NEW id \in 0 .. MaxId, NEW want \in Scopes \cup {NoScope},
           Begin(r, kind, pc, id, want), Idle(r),
           UNCHANGED <<paginated, config, state, rows, nextId, settled, edits, failures, changes>>,
           kind \in {"create", "read", "update"} => want # NoScope,
           kind = "create" => state[r] = NoRow /\ pc = "post" /\ id = 0,
           kind = "import" =>
              /\ state[r] = NoRow /\ want = NoScope /\ id # 0 /\ id < nextId
              /\ \A q \in Resources : Idle(q) /\ state[q].id # id,
           kind \in {"read", "update", "delete"} => state[r] # NoRow /\ id = state[r].id
    PROVE  Inv'
<1> DEFINE handler == [kind |-> kind, pc |-> pc, id |-> id, want |-> want, got |-> << >>]
<1>1. pc \in {"", "post", "put", "delete", "list"}
  BY DEF StepsOf
<1>2. /\ handler \in Ops /\ handler.kind = kind /\ handler.pc = pc /\ handler.id = id
      /\ handler.want = want /\ handler.got = << >> /\ IdsOf(handler.got) = {}
  <2>1. kind \in {"none", "create", "read", "import", "update", "delete"}
    OBVIOUS
  <2> QED
    <3>1. << >> \in Seq(Rows)
      OBVIOUS
    <3>2. \A got \in Seq(Rows) :
             LET new == [kind |-> kind, pc |-> pc, id |-> id, want |-> want, got |-> got] IN
               /\ new \in Ops /\ new.kind = kind /\ new.pc = pc /\ new.id = id
               /\ new.want = want /\ new.got = got
      BY <1>1, <2>1 DEF Ops
    <3> QED
      BY <3>1, <3>2, OpType
<1>3. op' = [op EXCEPT ![r] = handler]
  BY DEF Begin
<1> HIDE DEF handler
<1>4. state' = [state EXCEPT ![r] = state[r]] /\ state[r] \in Rows \cup {NoRow}
      /\ state[r].id < nextId
  BY Current DEF Inv, TypeOK
<1>5. OpFits(handler, state[r])
  BY <1>2 DEF OpFits
<1>6. id < nextId
  BY <1>4 DEF Inv, TypeOK
<1>7. /\ rows' \in Seq(Rows) /\ Distinct(rows') /\ nextId' \in 1 .. MaxId + 1
      /\ nextId <= nextId' /\ \A i \in IdsOf(rows') : i < nextId'
      /\ settled' \in BOOLEAN /\ edits' \in Nat /\ failures' \in Nat /\ changes' \in Nat
  BY NewIdIsFree DEF Inv, TypeOK, FreshInv
<1>8. settled /\ ~paginated =>
        /\ state[r] # NoRow => state[r].id \in IdsOf(rows)
        /\ kind # "import" /\ id # 0 => id \in IdsOf(rows)
        /\ \A q \in Resources \ {r} : {state[r].id, id} \cap Owned(q) = {}
  <2> SUFFICES ASSUME settled, ~paginated
               PROVE  /\ state[r] # NoRow => state[r].id \in IdsOf(rows)
                      /\ kind # "import" /\ id # 0 => id \in IdsOf(rows)
                      /\ \A q \in Resources \ {r} : {state[r].id, id} \cap Owned(q) = {}
    OBVIOUS
  <2>1. state[r] # NoRow => state[r].id \in IdsOf(rows)
    BY DEF Inv, OwnInv
  <2>2. kind # "import" => id \in {0, state[r].id}
    OBVIOUS
  <2>3. kind = "import" => \A q \in Resources : id \notin Owned(q)
    <3>1. ASSUME NEW q \in Resources, Idle(q) PROVE op[q].id = 0
      <4>1. op[q] = NoOp
        BY <3>1, Current DEF OpFits, Idle
      <4> QED
        BY <4>1, OpType
    <3> QED
      BY <3>1 DEF Owned
  <2>4. \A q \in Resources \ {r} : state[r].id \notin Owned(q) /\ 0 \notin Owned(q)
    BY OthersOwn
  <2>5. state[r] = NoRow => state[r].id = 0
    BY RowType
  <2> QED
    BY <2>1, <2>2, <2>3, <2>4, <2>5
<1> QED
  BY <1>2, <1>3, <1>4, <1>5, <1>6, <1>7, <1>8, OneMoves

LEMMA BeginsInv ==
    ASSUME Inv, NEW r \in Resources,
           Apply(r) \/ BeginRead(r) \/ \E id \in 1 .. MaxId : Import(r, id)
    PROVE  Inv'
<1>1. /\ config[r] \in Scopes \cup {NoScope} /\ state[r] \in Rows \cup {NoRow}
      /\ state[r] # NoRow => state[r].id \in 0 .. MaxId /\ state[r].scope \in Scopes
                              /\ state[r].scope # NoScope
      /\ 0 \in 0 .. MaxId /\ NoScope \in Scopes \cup {NoScope}
  BY RowType DEF Inv, TypeOK
<1>2. /\ "post" \in StepsOf("create") /\ "list" \in StepsOf("read") /\ "list" \in StepsOf("import")
      /\ "put" \in StepsOf("update") /\ "delete" \in StepsOf("delete")
  BY DEF StepsOf
<1>3. CASE BeginCreate(r)
  BY <1>1, <1>2, <1>3, BeginInv DEF BeginCreate, counters
<1>4. CASE BeginRead(r)
  BY <1>1, <1>2, <1>4, BeginInv DEF BeginRead, counters
<1>5. CASE BeginUpdate(r)
  BY <1>1, <1>2, <1>5, BeginInv DEF BeginUpdate, counters
<1>6. CASE BeginDelete(r)
  BY <1>1, <1>2, <1>6, BeginInv DEF BeginDelete, counters
<1>7. ASSUME NEW id \in 1 .. MaxId, Import(r, id) PROVE Inv'
  <2>1. id \in 0 .. MaxId /\ id # 0
    BY RowType
  <2> QED
    BY <1>1, <1>2, <1>7, <2>1, BeginInv DEF Import, counters
<1> QED
  BY <1>3, <1>4, <1>5, <1>6, <1>7 DEF Apply

-----------------------------------------------------------------------------
LEMMA FailingType ==
    ASSUME TypeOK, NEW outcome, Failing(outcome) \/ UNCHANGED counters
    PROVE  edits' \in Nat /\ failures' \in Nat /\ changes' \in Nat
BY DEF TypeOK, Failing, counters

(* A handler ends with an error, and what it did is not known.             *)
LEMMA LostInv ==
    ASSUME Inv, NEW r \in Resources, End(r), UNCHANGED <<paginated, config, state>>,
           edits' \in Nat, failures' \in Nat, changes' \in Nat,
           \/ settled' = FALSE
           \/ UNCHANGED <<settled, rows, nextId>>,
           rows' \in Seq(Rows), Distinct(rows'),
           nextId' \in 1 .. MaxId + 1, nextId <= nextId',
           \A id \in IdsOf(rows') : id < nextId'
    PROVE  Inv'
<1>1. /\ NoOp \in Ops /\ NoOp.kind = "none" /\ NoOp.pc = "" /\ NoOp.id = 0 /\ NoOp.got = << >>
      /\ IdsOf(NoOp.got) = {} /\ op' = [op EXCEPT ![r] = NoOp] /\ "" \in StepsOf("none")
  <2>1. StepsOf("none") = {""}
    BY DEF StepsOf
  <2> QED
    BY <2>1, OpType DEF End
<1>2. /\ state' = [state EXCEPT ![r] = state[r]] /\ state[r] \in Rows \cup {NoRow}
      /\ state[r].id < nextId /\ state[r].id \in 0 .. MaxId /\ settled \in BOOLEAN
  BY Current, RowType DEF Inv, TypeOK
<1>3. OpFits(NoOp, state[r])
  BY <1>1 DEF OpFits
<1>4. state[r].id < nextId' /\ 0 < nextId'
  BY <1>2 DEF Inv, TypeOK
<1>5. settled' /\ ~paginated =>
        /\ state[r] # NoRow => state[r].id \in IdsOf(rows')
        /\ \A q \in Resources \ {r} :
              /\ {state[r].id, NoOp.id} \cap Owned(q) = {}
              /\ \A id \in Owned(q) : id \in IdsOf(rows) => id \in IdsOf(rows')
  <2> SUFFICES ASSUME settled', ~paginated
               PROVE  /\ state[r] # NoRow => state[r].id \in IdsOf(rows')
                      /\ \A q \in Resources \ {r} :
                            /\ {state[r].id, NoOp.id} \cap Owned(q) = {}
                            /\ \A id \in Owned(q) : id \in IdsOf(rows) => id \in IdsOf(rows')
    OBVIOUS
  <2>1. settled /\ rows' = rows
    OBVIOUS
  <2> QED
    BY <1>1, <2>1, OthersOwn DEF Inv, OwnInv
<1>6. settled' \in BOOLEAN /\ (settled' => settled)
  <2>1. settled' = FALSE \/ settled' = settled
    OBVIOUS
  <2> QED
    <3>1. CASE settled' = FALSE
      BY <3>1, Zenon
    <3>2. CASE settled' = settled
      BY <1>2, <3>2, Zenon
    <3> QED
      BY <2>1, <3>1, <3>2, Zenon
<1> QED
  BY <1>1, <1>2, <1>3, <1>4, <1>5, <1>6, OneMoves

LEMMA CreateAccessInv ==
    ASSUME Inv, NEW r \in Resources, NEW outcome \in Outcomes, CreateAccess(r, outcome)
    PROVE  Inv'
<1> DEFINE row == [id |-> nextId, scope |-> op[r].want]
<1>1. /\ At(r, "post") /\ op[r].kind = "create" /\ op[r].want \in Scopes
      /\ state[r] = NoRow /\ op[r] \in Ops
      /\ UNCHANGED <<paginated, config, state>>
  BY Kinds, Current DEF CreateAccess, OpFits
<1>2. edits' \in Nat /\ failures' \in Nat /\ changes' \in Nat
  BY FailingType DEF CreateAccess, Inv
<1>3. nextId \in 1 .. MaxId /\ row \in Rows /\ row.id = nextId
  BY <1>1, RowType, RbacAccessAssumption DEF CreateAccess, Inv, TypeOK
<1>4. ASSUME outcome # "failed"
      PROVE  /\ rows' \in Seq(Rows) /\ Distinct(rows')
             /\ IdsOf(rows') = IdsOf(rows) \cup {nextId}
             /\ nextId' = nextId + 1 /\ nextId' \in 1 .. MaxId + 1 /\ nextId <= nextId'
             /\ \A id \in IdsOf(rows') : id < nextId'
  <2>1. rows' = Append(rows, row) /\ nextId' = nextId + 1
    BY <1>4 DEF CreateAccess
  <2> HIDE DEF row
  <2>2. /\ rows' \in Seq(Rows) /\ Distinct(rows')
        /\ IdsOf(rows') = IdsOf(rows) \cup {nextId}
    BY <1>3, <2>1, NewIdIsFree, AppendRow
  <2>3. \A id \in IdsOf(rows') : id < nextId'
    BY <1>3, <2>1, <2>2, ListType, NewIdIsFree DEF Inv, FreshInv
  <2> QED
    BY <1>3, <2>1, <2>2, <2>3, RbacAccessAssumption
<1>5. CASE outcome = "failed"
  <2>1. End(r) /\ UNCHANGED <<rows, nextId>> /\ settled' = (settled /\ TRUE)
    BY <1>5 DEF CreateAccess
  <2>2. settled' = settled
    BY <2>1, Zenon DEF Inv, TypeOK
  <2>3. /\ rows' \in Seq(Rows) /\ Distinct(rows') /\ nextId' \in 1 .. MaxId + 1
        /\ nextId <= nextId' /\ \A id \in IdsOf(rows') : id < nextId'
    BY <2>1, NewIdIsFree DEF Inv, TypeOK, FreshInv
  <2> QED
    BY <1>1, <1>2, <2>1, <2>2, <2>3, LostInv
<1>6. CASE outcome = "lost"
  <2>1. End(r) /\ settled' = FALSE
    BY <1>6 DEF CreateAccess
  <2> QED
    BY <1>1, <1>2, <1>4, <1>6, <2>1, LostInv
<1>7. CASE outcome = "fine"
  <2> DEFINE handler == [op[r] EXCEPT !.pc = "list", !.id = nextId]
  <2>1. settled' = settled /\ settled \in BOOLEAN
    <3>1. settled' = (settled /\ TRUE) /\ settled \in BOOLEAN
      BY <1>7 DEF CreateAccess, Inv, TypeOK
    <3> QED
      BY <3>1, Zenon
  <2>2. op' = [op EXCEPT ![r] = handler]
    BY <1>7 DEF CreateAccess
  <2>3. /\ handler \in Ops /\ handler.kind = "create" /\ handler.pc = "list"
        /\ handler.id = nextId /\ handler.want = op[r].want /\ handler.got = op[r].got
    BY <1>1, <1>3, RowType DEF Ops
  <2> HIDE DEF handler
  <2>4. OpFits(handler, NoRow)
    BY <1>1, <1>3, <2>3, Current, RowType DEF OpFits
  <2>5. state' = [state EXCEPT ![r] = NoRow] /\ NoRow \in Rows \cup {NoRow}
    BY <1>1 DEF Inv, TypeOK
  <2>6. handler.pc \in StepsOf(handler.kind) /\ handler.want # NoScope
    <3>1. StepsOf("create") = {"post", "list"}
      BY DEF StepsOf
    <3> QED
      BY <1>1, <2>3, <3>1, RbacAccessAssumption
  <2>7. /\ rows' \in Seq(Rows) /\ Distinct(rows')
        /\ IdsOf(rows') = IdsOf(rows) \cup {nextId}
        /\ nextId' = nextId + 1 /\ nextId' \in 1 .. MaxId + 1 /\ nextId <= nextId'
        /\ \A id \in IdsOf(rows') : id < nextId'
    BY <1>4, <1>7
  <2>8. handler.id < nextId' /\ NoRow.id < nextId' /\ \A id \in IdsOf(handler.got) : id < nextId'
    BY <1>3, <2>3, <2>7, RowType, GotIsOld
  <2>9. settled /\ ~paginated =>
          /\ handler.id \in IdsOf(rows')
          /\ \A q \in Resources \ {r} :
               /\ {NoRow.id, handler.id} \cap Owned(q) = {}
               /\ \A id \in Owned(q) : id \in IdsOf(rows) => id \in IdsOf(rows')
    BY <2>3, <2>7, OthersOwn, RowType
  <2> QED
    BY <1>1, <1>2, <2>1, <2>2, <2>3, <2>4, <2>5, <2>6, <2>7, <2>8, <2>9, OneMoves
<1> QED
  BY <1>5, <1>6, <1>7 DEF Outcomes

LEMMA UpdateAccessInv ==
    ASSUME Inv, NEW r \in Resources, NEW outcome \in Outcomes, UpdateAccess(r, outcome)
    PROVE  Inv'
<1>1. /\ At(r, "put") /\ op[r].kind = "update" /\ op[r].want \in Scopes
      /\ state[r] \in Rows \cup {NoRow} /\ state[r] # NoRow /\ op[r].id = state[r].id
      /\ op[r] \in Ops /\ state[r].id < nextId
      /\ UNCHANGED <<paginated, config, state, nextId>>
  BY Kinds, Current DEF UpdateAccess, OpFits
<1>2. edits' \in Nat /\ failures' \in Nat /\ changes' \in Nat
  BY FailingType DEF UpdateAccess, Inv
<1>3. outcome # "failed" => op[r].id \in IdsOf(rows)
  BY DEF UpdateAccess
<1>4. /\ rows' \in Seq(Rows) /\ Distinct(rows') /\ IdsOf(rows') = IdsOf(rows)
      /\ outcome = "failed" => rows' = rows
  <2>1. CASE outcome = "failed"
    BY <2>1, NewIdIsFree DEF UpdateAccess
  <2>2. CASE outcome # "failed"
    <3>1. rows' = [rows EXCEPT ![IndexOfId(rows, op[r].id)].scope = op[r].want]
      BY <2>2 DEF UpdateAccess
    <3> QED
      BY <1>1, <1>3, <2>2, <3>1, NewIdIsFree, RescopeRow
  <2> QED
    BY <2>1, <2>2
<1>5. /\ nextId' \in 1 .. MaxId + 1 /\ nextId <= nextId'
      /\ \A id \in IdsOf(rows') : id < nextId'
  BY <1>1, <1>4 DEF Inv, TypeOK, FreshInv
<1>6. CASE outcome = "failed"
  <2>1. End(r) /\ settled' = (settled /\ TRUE)
    BY <1>6 DEF UpdateAccess
  <2>2. settled' = settled
    BY <2>1, Zenon DEF Inv, TypeOK
  <2> QED
    BY <1>1, <1>2, <1>4, <1>5, <1>6, <2>1, <2>2, LostInv
<1>7. CASE outcome = "lost"
  <2>1. End(r) /\ settled' = FALSE
    BY <1>7 DEF UpdateAccess
  <2> QED
    BY <1>1, <1>2, <1>4, <1>5, <2>1, LostInv
<1>8. CASE outcome = "fine"
  <2> DEFINE handler == [op[r] EXCEPT !.pc = "list"]
  <2>1. settled' = settled /\ settled \in BOOLEAN
    <3>1. settled' = (settled /\ TRUE) /\ settled \in BOOLEAN
      BY <1>8 DEF UpdateAccess, Inv, TypeOK
    <3> QED
      BY <3>1, Zenon
  <2>2. op' = [op EXCEPT ![r] = handler]
    BY <1>8 DEF UpdateAccess
  <2>3. /\ handler \in Ops /\ handler.kind = "update" /\ handler.pc = "list"
        /\ handler.id = op[r].id /\ handler.want = op[r].want /\ handler.got = op[r].got
    BY <1>1 DEF Ops
  <2> HIDE DEF handler
  <2>4. OpFits(handler, state[r])
    BY <1>1, <2>3, Current DEF OpFits
  <2>5. state' = [state EXCEPT ![r] = state[r]]
    BY <1>1 DEF Inv, TypeOK
  <2>6. handler.pc \in StepsOf(handler.kind) /\ handler.want # NoScope
    <3>1. StepsOf("update") = {"put", "list"}
      BY DEF StepsOf
    <3> QED
      BY <1>1, <2>3, <3>1, RbacAccessAssumption
  <2>g. \A id \in IdsOf(handler.got) : id < nextId'
    BY <1>1, <2>3 DEF Inv, GotInv
  <2>7. settled /\ ~paginated =>
          /\ state[r].id \in IdsOf(rows') /\ handler.id \in IdsOf(rows')
          /\ \A q \in Resources \ {r} :
               /\ {state[r].id, handler.id} \cap Owned(q) = {}
               /\ \A id \in Owned(q) : id \in IdsOf(rows) => id \in IdsOf(rows')
    BY <1>1, <1>3, <1>4, <1>8, <2>3, OthersOwn
  <2> QED
    BY <1>1, <1>2, <1>4, <1>5, <2>1, <2>2, <2>3, <2>4, <2>5, <2>6, <2>g, <2>7, OneMoves
<1> QED
  BY <1>6, <1>7, <1>8 DEF Outcomes

LEMMA DeleteAccessInv ==
    ASSUME Inv, NEW r \in Resources, NEW outcome \in Outcomes, DeleteAccess(r, outcome)
    PROVE  Inv'
<1>1. /\ At(r, "delete") /\ op[r].kind = "delete" /\ state[r] \in Rows \cup {NoRow}
      /\ End(r) /\ UNCHANGED <<paginated, config, nextId>>
  BY Kinds, Current DEF DeleteAccess
<1>2. edits' \in Nat /\ failures' \in Nat /\ changes' \in Nat
  BY FailingType DEF DeleteAccess, Inv
<1>3. rows' = IF outcome = "failed" THEN rows ELSE Without(rows, op[r].id)
  BY DEF DeleteAccess
<1>4. /\ rows' \in Seq(Rows) /\ Distinct(rows')
      /\ outcome # "failed" => IdsOf(rows') = IdsOf(rows) \ {op[r].id}
      /\ outcome = "failed" => rows' = rows
      /\ IdsOf(rows') \subseteq IdsOf(rows)
  BY <1>3, NewIdIsFree, WithoutRow
<1>5. /\ nextId' \in 1 .. MaxId + 1 /\ nextId <= nextId' /\ 0 < nextId'
      /\ \A id \in IdsOf(rows') : id < nextId'
  BY <1>1, <1>4 DEF Inv, TypeOK, FreshInv
<1>6. CASE outcome = "failed"
  <2>1. UNCHANGED state /\ settled' = (settled /\ TRUE)
    BY <1>6 DEF DeleteAccess
  <2>2. settled' = settled
    BY <2>1, Zenon DEF Inv, TypeOK
  <2> QED
    BY <1>1, <1>2, <1>4, <1>5, <1>6, <2>1, <2>2, LostInv
<1>7. CASE outcome = "lost"
  <2>1. UNCHANGED state /\ settled' = FALSE
    BY <1>7 DEF DeleteAccess
  <2> QED
    BY <1>1, <1>2, <1>4, <1>5, <2>1, LostInv
<1>8. CASE outcome = "fine"
  <2>1. settled' = settled /\ settled \in BOOLEAN
    <3>1. settled' = (settled /\ TRUE) /\ settled \in BOOLEAN
      BY <1>8 DEF DeleteAccess, Inv, TypeOK
    <3> QED
      BY <3>1, Zenon
  <2>2. /\ op' = [op EXCEPT ![r] = NoOp] /\ state' = [state EXCEPT ![r] = NoRow]
        /\ NoRow \in Rows \cup {NoRow}
    BY <1>1, <1>8 DEF DeleteAccess, End
  <2>3. /\ NoOp \in Ops /\ NoOp.kind = "none" /\ NoOp.pc = "" /\ NoOp.id = 0 /\ NoOp.got = << >>
        /\ IdsOf(NoOp.got) = {}
    BY OpType
  <2>4. OpFits(NoOp, NoRow) /\ NoOp.pc \in StepsOf(NoOp.kind)
    <3>1. StepsOf("none") = {""}
      BY DEF StepsOf
    <3> QED
      BY <2>3, <3>1 DEF OpFits
  <2>5. NoRow.id = 0
    BY RowType
  <2>6. settled /\ ~paginated =>
          \A q \in Resources \ {r} :
            /\ {NoRow.id, NoOp.id} \cap Owned(q) = {}
            /\ \A id \in Owned(q) : id \in IdsOf(rows) => id \in IdsOf(rows')
    BY <1>4, <1>8, <2>3, <2>5, OthersOwn
  <2> QED
    BY <1>1, <1>2, <1>4, <1>5, <2>1, <2>2, <2>3, <2>4, <2>5, <2>6, OneMoves
<1> QED
  BY <1>6, <1>7, <1>8 DEF Outcomes

-----------------------------------------------------------------------------
(* What has been listed: rows, of this moment or of an earlier one, and    *)
(* for user access the rows of this moment.                                *)
LEMMA ListedRows ==
    ASSUME Inv, NEW r \in Resources
    PROVE  /\ Listed(r) \in Seq(Rows)
           /\ \A id \in IdsOf(Listed(r)) : id < nextId
           /\ ~paginated => Listed(r) = rows
<1>1. op[r].got \in Seq(Rows) /\ rows \in Seq(Rows) /\ (~paginated => op[r].got = << >>)
      /\ PageLimit \in Nat /\ Len(op[r].got) \in Nat /\ Len(rows) \in Nat
  BY Current, NewIdIsFree, RbacAccessAssumption DEF OpFits
<1>2. \A row \in RowsOf(rows) \cup RowsOf(op[r].got) : row \in Rows /\ row.id < nextId
  BY <1>1, ListType DEF Inv, FreshInv, GotInv, IdsOf
<1>3. Page(r) \in Seq(Rows) /\ RowsOf(Page(r)) \subseteq RowsOf(rows)
  <2>1. CASE ~paginated
    BY <1>1, <2>1 DEF Page
  <2>2. CASE paginated
    <3> DEFINE from == Len(op[r].got) + 1
               to == AtMost(Len(rows), Len(op[r].got) + PageLimit)
               page == SubSeq(rows, from, to)
    <3>1. Page(r) = page
      BY <2>2 DEF Page
    <3>2. from \in 1 .. Len(rows) + 1 \/ from > Len(rows)
      BY <1>1
    <3>3. from \in Nat /\ to \in Nat /\ to <= Len(rows) /\ from >= 1
      BY <1>1 DEF AtMost
    <3> HIDE DEF from, to
    <3>4. page \in Seq(Rows) /\ \A i \in DOMAIN page : page[i] \in RowsOf(rows)
      <4>1. CASE from <= to
        <5>1. \A i \in from .. to : i \in DOMAIN rows
          BY <1>1, <3>3
        <5>2. /\ page \in Seq(Rows) /\ Len(page) = to - from + 1
              /\ \A i \in 1 .. Len(page) : page[i] = rows[from + i - 1]
          BY <1>1, <3>3, <4>1, <5>1, SubSeqProperties
        <5>3. \A i \in 1 .. Len(page) : from + i - 1 \in DOMAIN rows
          BY <3>3, <4>1, <5>1, <5>2
        <5>4. DOMAIN page = 1 .. Len(page)
          BY <5>2
        <5> HIDE DEF page
        <5> QED
          BY <1>1, <5>2, <5>3, <5>4, ListType
      <4>2. CASE from > to
        <5>1. page = << >>
          BY <1>1, <3>3, <4>2, SubSeqEmpty
        <5> QED
          BY <5>1
      <4> QED
        BY <3>3, <4>1, <4>2
    <3> HIDE DEF page
    <3> QED
      BY <3>1, <3>4 DEF RowsOf
  <2> QED
    BY <2>1, <2>2
<1> DEFINE got == op[r].got
           page == Page(r)
           all == got \o page
<1>4. /\ all \in Seq(Rows) /\ Len(all) = Len(got) + Len(page)
      /\ \A i \in 1 .. Len(all) : all[i] = IF i <= Len(got) THEN got[i] ELSE page[i - Len(got)]
  BY <1>1, <1>3, ConcatProperties
<1>5. RowsOf(all) \subseteq RowsOf(got) \cup RowsOf(page)
  <2>1. got \in Seq(Rows) /\ page \in Seq(Rows)
    BY <1>1, <1>3
  <2> HIDE DEF got, page
  <2>2. DOMAIN all = 1 .. Len(all) /\ DOMAIN got = 1 .. Len(got) /\ DOMAIN page = 1 .. Len(page)
        /\ Len(got) \in Nat /\ Len(page) \in Nat
    BY <1>4, <2>1
  <2> HIDE DEF all
  <2>3. \A i \in DOMAIN all : all[i] \in RowsOf(got) \cup RowsOf(page)
    <3> SUFFICES ASSUME NEW i \in DOMAIN all PROVE all[i] \in RowsOf(got) \cup RowsOf(page)
      OBVIOUS
    <3>1. CASE i <= Len(got)
      BY <1>4, <2>2, <3>1 DEF RowsOf
    <3>2. CASE i > Len(got)
      <4>1. i - Len(got) \in DOMAIN page /\ all[i] = page[i - Len(got)]
        BY <1>4, <2>2, <3>2
      <4> QED
        BY <4>1 DEF RowsOf
    <3> QED
      BY <2>2, <3>1, <3>2
  <2> QED
    BY <2>3 DEF RowsOf
<1>6. Listed(r) = all
  BY DEF Listed
<1>7. \A row \in RowsOf(all) : row.id < nextId
  BY <1>2, <1>3, <1>5
<1>8. ~paginated => all = rows
  BY <1>1, ConcatEmptySeq DEF Page
<1> HIDE DEF all
<1> QED
  BY <1>4, <1>6, <1>7, <1>8 DEF IdsOf

LEMMA ListPageInv ==
    ASSUME Inv, NEW r \in Resources, ListPage(r)
    PROVE  Inv'
<1> DEFINE got == Listed(r)
           handler == [op[r] EXCEPT !.got = got]
<1>1. /\ At(r, "list") /\ paginated /\ op' = [op EXCEPT ![r] = handler]
      /\ UNCHANGED <<paginated, config, state, rows, nextId, settled, edits, failures, changes>>
  BY DEF ListPage, LastPage, counters
<1>2. got \in Seq(Rows) /\ \A id \in IdsOf(got) : id < nextId
  BY ListedRows
<1>3. op[r] \in Ops /\ OpFits(op[r], state[r])
  BY Current
<1> HIDE DEF got
<1>4. /\ handler \in Ops /\ handler.kind = op[r].kind /\ handler.pc = op[r].pc
      /\ handler.id = op[r].id /\ handler.want = op[r].want /\ handler.got = got
  BY <1>2, <1>3 DEF Ops
<1> HIDE DEF handler
<1>5. OpFits(handler, state[r])
  <2>1. handler.kind # "none"
    BY <1>1, <1>4, Kinds
  <2> QED
    BY <1>1, <1>3, <1>4, <2>1 DEF OpFits
<1>6. state' = [state EXCEPT ![r] = state[r]] /\ state[r] \in Rows \cup {NoRow}
      /\ state[r].id < nextId /\ handler.id < nextId
  BY <1>1, <1>4, Current DEF Inv, TypeOK
<1>7. /\ rows' \in Seq(Rows) /\ Distinct(rows') /\ nextId' \in 1 .. MaxId + 1
      /\ nextId <= nextId' /\ \A i \in IdsOf(rows') : i < nextId'
      /\ edits' \in Nat /\ failures' \in Nat /\ changes' \in Nat
  BY <1>1, NewIdIsFree DEF Inv, TypeOK, FreshInv
<1>8. settled' \in BOOLEAN /\ (settled' => settled)
  BY <1>1, Zenon DEF Inv, TypeOK
<1>9. /\ handler.pc \in StepsOf(handler.kind)
      /\ handler.kind \in {"create", "read", "update"} => handler.want # NoScope
  BY <1>4 DEF Inv, TypeOK
<1> QED
  BY <1>1, <1>2, <1>4, <1>5, <1>6, <1>7, <1>8, <1>9, OneMoves

LEMMA ListFailsInv ==
    ASSUME Inv, NEW r \in Resources, ListFails(r)
    PROVE  Inv'
<1> DEFINE row == IF op[r].kind = "create" THEN Planned(r) ELSE state[r]
<1>1. /\ At(r, "list") /\ op' = [op EXCEPT ![r] = NoOp]
      /\ UNCHANGED <<paginated, config, rows, nextId, settled>>
  BY DEF ListFails, End
<1>2. /\ state[r] \in Rows \cup {NoRow} /\ op[r].id \in 0 .. MaxId /\ op[r].id < nextId
      /\ state[r].id < nextId
      /\ op[r].kind = "create" => op[r].id # 0 /\ op[r].want \in Scopes
  BY <1>1, Current DEF OpFits, At
<1>3. op[r].kind = "create" => Planned(r) \in Rows /\ Planned(r).id = op[r].id
  <2>1. op[r].kind = "create" => op[r].id \in 1 .. MaxId
    BY <1>2, RbacAccessAssumption
  <2> QED
    BY <1>2, <2>1 DEF Planned, Rows
<1>4. state' = [state EXCEPT ![r] = row]
  BY DEF ListFails, Inv, TypeOK
<1>5. /\ row \in Rows \cup {NoRow} /\ row.id < nextId
      /\ op[r].kind = "create" => row.id = op[r].id
      /\ op[r].kind # "create" => row = state[r]
  BY <1>2, <1>3
<1>6. edits' \in Nat /\ failures' \in Nat /\ changes' \in Nat
  BY FailingType DEF ListFails, Inv
<1>7. settled' \in BOOLEAN /\ (settled' => settled)
  BY <1>1, Zenon DEF Inv, TypeOK
<1> HIDE DEF row
<1>8. settled /\ ~paginated =>
        row = NoRow \/ (row.id \in {state[r].id, op[r].id} /\ row.id \in IdsOf(rows))
  BY <1>2, <1>5 DEF Inv, OwnInv
<1> QED
  BY <1>1, <1>4, <1>5, <1>6, <1>7, <1>8, EndsInv

(* What the last step of a handler stores.                                 *)
LEMMA StoredRow ==
    ASSUME Inv, NEW r \in Resources, At(r, "list")
    PROVE  LET found == Find(Listed(r), op[r].id, op[r].want)
               row == IF found = NoRow /\ op[r].kind \in {"create", "update"}
                      THEN Planned(r)
                      ELSE found
           IN  /\ row \in Rows \cup {NoRow} /\ row.id < nextId
               /\ ~paginated /\ op[r].id \in IdsOf(rows) => row.id = op[r].id
               /\ ~paginated /\ row = NoRow => ~HasScope(rows, op[r].want)
               /\ ~paginated /\ op[r].kind = "import" /\ row # NoRow => row.id \in IdsOf(rows)
               /\ ~paginated /\ op[r].kind = "import" /\ op[r].id \notin IdsOf(rows) =>
                     row = NoRow
<1> DEFINE all == Listed(r)
           found == Find(all, op[r].id, op[r].want)
           row == IF found = NoRow /\ op[r].kind \in {"create", "update"}
                  THEN Planned(r)
                  ELSE found
<1>1. /\ all \in Seq(Rows) /\ \A id \in IdsOf(all) : id < nextId
      /\ ~paginated => all = rows
  BY ListedRows
<1>2. /\ op[r].id \in 0 .. MaxId /\ op[r].id < nextId /\ 0 < nextId
      /\ op[r].kind \in {"create", "update"} => op[r].id \in 1 .. MaxId /\ op[r].want \in Scopes
      /\ op[r].kind = "import" => op[r].want = NoScope
  <2>1. /\ op[r].id \in 0 .. MaxId /\ op[r].id < nextId /\ nextId \in 1 .. MaxId + 1
        /\ state[r] \in Rows \cup {NoRow} /\ OpFits(op[r], state[r])
        /\ op[r].want \in Scopes \cup {NoScope}
        /\ op[r].kind = "create" => op[r].want \in Scopes
    BY Current DEF Inv, TypeOK
  <2>2. op[r].kind = "update" => op[r].want \in Scopes /\ op[r].id # 0
    BY <2>1, RowType DEF OpFits, Inv, TypeOK
  <2>3. op[r].kind = "create" => op[r].id # 0
    BY <2>1 DEF OpFits, At
  <2>4. op[r].id # 0 => op[r].id \in 1 .. MaxId
    BY <2>1, RbacAccessAssumption
  <2> QED
    BY <2>1, <2>2, <2>3, <2>4, RbacAccessAssumption DEF OpFits
<1>3. op[r].kind \in {"create", "update"} => Planned(r) \in Rows /\ Planned(r).id = op[r].id
  BY <1>2 DEF Planned, Rows
<1>5. /\ op[r].id \in IdsOf(all) => found \in Rows /\ found.id = op[r].id
      /\ found \in Rows \cup {NoRow}
      /\ found = NoRow => op[r].id \notin IdsOf(all) /\ ~HasScope(all, op[r].want)
      /\ op[r].id \notin IdsOf(all) /\ ~HasScope(all, op[r].want) => found = NoRow
      /\ found # NoRow => found.id \in IdsOf(all)
  BY <1>1, FindSound
<1>6. \A scopeless \in Seq(Rows) : ~HasScope(scopeless, NoScope)
  BY ListType, RowType DEF HasScope
<1> HIDE DEF all, found
<1>7. row.id < nextId /\ row \in Rows \cup {NoRow}
  BY <1>1, <1>2, <1>3, <1>5, RowType
<1>8. row = NoRow => found = NoRow
  BY <1>3, RowType
<1>9. op[r].id \in IdsOf(all) => row = found
  BY <1>5, RowType
<1>10. op[r].kind = "import" => row = found
  OBVIOUS
<1> HIDE DEF row
<1>11. /\ ~paginated /\ op[r].id \in IdsOf(rows) => row.id = op[r].id
       /\ ~paginated /\ row = NoRow => ~HasScope(rows, op[r].want)
  BY <1>1, <1>5, <1>8, <1>9
<1>12. ASSUME ~paginated, op[r].kind = "import"
       PROVE  /\ row # NoRow => row.id \in IdsOf(rows)
              /\ op[r].id \notin IdsOf(rows) => row = NoRow
  BY <1>1, <1>2, <1>5, <1>6, <1>10, <1>12
<1> QED
  BY <1>7, <1>11, <1>12 DEF row, found, all

LEMMA StoreFoundInv ==
    ASSUME Inv, NEW r \in Resources, StoreFound(r)
    PROVE  Inv'
<1> DEFINE found == Find(Listed(r), op[r].id, op[r].want)
           row == IF found = NoRow /\ op[r].kind \in {"create", "update"}
                  THEN Planned(r)
                  ELSE found
<1>1. /\ At(r, "list") /\ op' = [op EXCEPT ![r] = NoOp]
      /\ UNCHANGED <<paginated, config, rows, nextId, settled, edits, failures, changes>>
      /\ state' = [state EXCEPT ![r] = row]
  BY DEF StoreFound, End, counters
<1>2. /\ row \in Rows \cup {NoRow} /\ row.id < nextId
      /\ ~paginated /\ op[r].id \in IdsOf(rows) => row.id = op[r].id
      /\ ~paginated /\ op[r].kind = "import" /\ op[r].id \notin IdsOf(rows) => row = NoRow
  BY <1>1, StoredRow
<1>3. edits' \in Nat /\ failures' \in Nat /\ changes' \in Nat
  BY <1>1 DEF Inv, TypeOK
<1>4. settled' \in BOOLEAN /\ (settled' => settled)
  BY <1>1, Zenon DEF Inv, TypeOK
<1> HIDE DEF row
<1>5. op[r].kind # "import" => op[r].id # 0
  <2>1. /\ OpFits(op[r], state[r]) /\ state[r] \in Rows \cup {NoRow}
        /\ op[r].kind \in {"create", "update", "read", "import"}
    BY <1>1, Current, Kinds
  <2> QED
    BY <1>1, <2>1, RowType DEF OpFits, At
<1>6. settled /\ ~paginated =>
        row = NoRow \/ (row.id \in {state[r].id, op[r].id} /\ row.id \in IdsOf(rows))
  BY <1>2, <1>5 DEF Inv, OwnInv
<1> QED
  BY <1>1, <1>2, <1>3, <1>4, <1>6, EndsInv

-----------------------------------------------------------------------------
LEMMA InitInv == Init => Inv
<1> SUFFICES ASSUME Init PROVE Inv
  OBVIOUS
<1> USE DEF Init
<1>1. rows \in Seq(Rows) /\ DOMAIN rows = {} /\ IdsOf(rows) = {}
  <2>1. rows = << >>
    OBVIOUS
  <2>2. << >> \in Seq(Rows) /\ DOMAIN << >> = {}
    OBVIOUS
  <2> QED
    BY <2>1, <2>2, OpType
<1>2. \A r \in Resources :
         /\ op[r] = NoOp /\ op[r] \in Ops /\ op[r].kind = "none" /\ op[r].pc = "" /\ op[r].id = 0
         /\ op[r].got = << >> /\ IdsOf(op[r].got) = {}
         /\ state[r] = NoRow /\ state[r].id = 0
  BY OpType, RowType
<1>3. StepsOf("none") = {""}
  BY DEF StepsOf
<1>4. settled \in BOOLEAN /\ paginated \in BOOLEAN
  BY Zenon
<1>5. nextId \in 1 .. MaxId + 1
  BY RbacAccessAssumption
<1>6. /\ config \in [Resources -> Scopes \cup {NoScope}]
      /\ state \in [Resources -> Rows \cup {NoRow}] /\ op \in [Resources -> Ops]
  BY OpType
<1>7. TypeOK
  BY <1>1, <1>2, <1>3, <1>4, <1>5, <1>6 DEF TypeOK
<1>8. OpInv
  BY <1>2 DEF OpInv, OpFits
<1>9. FreshInv /\ GotInv
  <2>1. \A r \in Resources : state[r].id < nextId /\ op[r].id < nextId
    <3>1. nextId = 1 /\ 0 < 1
      OBVIOUS
    <3> HIDE DEF Init
    <3> QED
      BY <1>2, <3>1
  <2> QED
    BY <1>1, <1>2, <2>1, Zenon DEF FreshInv, GotInv
<1>10. OwnInv
  BY <1>2 DEF OwnInv, Owned
<1> QED
  BY <1>7, <1>8, <1>9, <1>10 DEF Inv

LEMMA NextInv ==
    ASSUME Inv, [Next]_vars
    PROVE  Inv'
<1>1. ASSUME NEW r \in Resources, Handler(r) PROVE Inv'
  BY <1>1, CreateAccessInv, UpdateAccessInv, DeleteAccessInv, ListPageInv, ListFailsInv,
     StoreFoundInv DEF Handler
<1>2. ASSUME NEW r \in Resources,
             Apply(r) \/ BeginRead(r) \/ \E id \in 1 .. MaxId : Import(r, id)
      PROVE  Inv'
  BY <1>2, BeginsInv
<1>3. ASSUME NEW r \in Resources, NEW scope \in Scopes \cup {NoScope}, EditConfig(r, scope)
      PROVE  Inv'
  BY <1>3, EditConfigInv
<1>4. ASSUME NEW id \in 1 .. MaxId, DeleteOutside(id) \/ Recreate(id) PROVE Inv'
  BY <1>4, DeleteOutsideInv, RecreateInv
<1>5. CASE UNCHANGED vars
  BY <1>5 DEF vars, Inv, TypeOK, OpInv, OpFits, FreshInv, GotInv, OwnInv, Owned
<1> QED
  BY <1>1, <1>2, <1>3, <1>4, <1>5 DEF Next

(* The invariant holds in every state of every behaviour.                  *)
THEOREM Invariance == Spec => []Inv
<1>1. Inv /\ [Next]_vars => Inv'
  BY NextInv
<1> QED
  BY <1>1, InitInv, PTL DEF Spec

(* The state keeps its shape; no two rows of the service have the same id. *)
THEOREM TypeCorrect == Spec => []TypeOK
<1>1. Inv => TypeOK
  BY DEF Inv
<1> QED
  BY <1>1, Invariance, PTL

(* No interleaving of their own handlers makes resources with the same     *)
(* owner, role and scope share a row.                                      *)
THEOREM TwinsStayApart == Spec => []TwinsKeepTheirRows
<1>1. Inv => TwinsKeepTheirRows
  <2> SUFFICES ASSUME Inv, settled, ~paginated, NEW r \in Resources, NEW q \in Resources,
                      r # q, state[r] # NoRow
               PROVE  state[r].id # state[q].id
    BY DEF TwinsKeepTheirRows
  <2>1. state[r].id # 0
    BY Current, RowType
  <2> QED
    BY <2>1 DEF Inv, OwnInv, Owned
<1> QED
  BY <1>1, Invariance, PTL

-----------------------------------------------------------------------------
(* Which step of a handler that lists changes what is tracked.             *)
LEMMA WhatIsStored ==
    ASSUME Inv, Next, NEW r \in Resources, At(r, "list"), state'[r] # state[r]
    PROVE  \/ ListFails(r) /\ state'[r] = Planned(r)
           \/ StoreFound(r)
<1>1. PICK q \in Resources :
        \/ \E outcome \in Outcomes : DeleteAccess(q, outcome)
        \/ ListFails(q)
        \/ StoreFound(q)
  BY DEF Next, Handler, Apply, BeginCreate, BeginRead, BeginUpdate, BeginDelete, Import,
         EditConfig, CreateAccess, UpdateAccess, ListPage, DeleteOutside, Recreate, Outside
<1>2. q = r
  BY <1>1 DEF DeleteAccess, ListFails, StoreFound, Inv, TypeOK
<1>3. ~\E outcome \in Outcomes : DeleteAccess(r, outcome)
  BY DEF DeleteAccess, At
<1>4. ListFails(r) => state'[r] = Planned(r)
  BY DEF ListFails, Inv, TypeOK
<1> QED
  BY <1>1, <1>2, <1>3, <1>4

(* A resource of user access leaves its row, for another one or for none,  *)
(* only when the row is not on the service.                                *)
THEOREM FallbackOnlyWhenGone == Spec => SnapshotFallbackOnlyWhenGone
<1>1. ASSUME Inv, Next, NEW r \in Resources, ~paginated, Abandons(r)
      PROVE  op[r].id \notin IdsOf(rows)
  <2>1. At(r, "list") /\ state'[r] # state[r] /\ state'[r].id # op[r].id
    BY <1>1 DEF Abandons
  <2>2. CASE ListFails(r) /\ state'[r] = Planned(r)
    BY <2>1, <2>2 DEF Planned
  <2>3. CASE StoreFound(r)
    <3> DEFINE found == Find(Listed(r), op[r].id, op[r].want)
               row == IF found = NoRow /\ op[r].kind \in {"create", "update"}
                      THEN Planned(r)
                      ELSE found
    <3>1. state'[r] = row
      BY <1>1, <2>3 DEF StoreFound, Inv, TypeOK
    <3>2. op[r].id \in IdsOf(rows) => row.id = op[r].id
      BY <1>1, <2>1, StoredRow
    <3> QED
      BY <2>1, <3>1, <3>2
  <2> QED
    BY <1>1, <2>1, <2>2, <2>3, WhatIsStored
<1>2. Inv /\ [Next]_vars =>
        [\A r \in Resources : ~paginated /\ Abandons(r) => op[r].id \notin IdsOf(rows)]_vars
  BY <1>1
<1> QED
  BY <1>2, Invariance, PTL DEF Spec, SnapshotFallbackOnlyWhenGone

(* A resource of user access is removed from the state, to be created      *)
(* again, only when no row of its scope is left either.                    *)
THEOREM RecreatedWhenLost == Spec => RecreatedOnlyWhenLost
<1>1. ASSUME Inv, Next, NEW r \in Resources, ~paginated, Abandons(r), state'[r] = NoRow
      PROVE  ~HasScope(rows, op[r].want)
  <2>1. At(r, "list") /\ state'[r] # state[r] /\ state'[r].id # op[r].id
    BY <1>1 DEF Abandons
  <2>2. CASE ListFails(r) /\ state'[r] = Planned(r)
    BY <2>1, <2>2 DEF Planned
  <2>3. CASE StoreFound(r)
    <3> DEFINE found == Find(Listed(r), op[r].id, op[r].want)
               row == IF found = NoRow /\ op[r].kind \in {"create", "update"}
                      THEN Planned(r)
                      ELSE found
    <3>1. state'[r] = row
      BY <1>1, <2>3 DEF StoreFound, Inv, TypeOK
    <3>2. row = NoRow => ~HasScope(rows, op[r].want)
      BY <1>1, <2>1, StoredRow
    <3> QED
      BY <1>1, <3>1, <3>2
  <2> QED
    BY <1>1, <2>1, <2>2, <2>3, WhatIsStored
<1>2. Inv /\ [Next]_vars =>
        [\A r \in Resources :
           ~paginated /\ Abandons(r) /\ state'[r] = NoRow => ~HasScope(rows, op[r].want)]_vars
  BY <1>1
<1> QED
  BY <1>2, Invariance, PTL DEF Spec, RecreatedOnlyWhenLost
===============================================================================
