------------------------ MODULE ResourceLifecycleProofs ------------------------
(***************************************************************************)
(* Proofs about the plainly managed resource kinds: for any kinds with     *)
(* profiles of the assumed shape, any number of objects, values, edits,    *)
(* failures and changes in the console.                                    *)
(*                                                                         *)
(* The properties are about moments between handlers.  The invariant says  *)
(* what is true inside one, by the calls that are left: what the service   *)
(* has, what was read, and what will be stored.                            *)
(***************************************************************************)
EXTENDS ResourceLifecycle, SequenceTheorems, TLAPS

(* The values agree where there is no doubt that they should.              *)
Same(doubtful, value, object) ==
    /\ "main" \notin doubtful => value.main = object.main
    /\ "optional" \notin doubtful /\ kind \notin PartialUpdates =>
          value.optional = object.optional

(* The calls of an update that has its PUT before it.                      *)
BeforePut == Updates \ {<< >>}
AfterPut == {<<"get">>, <<"lookup">>}
Reading == Refreshes \cup {<<"lookup">>}
Adopting == {<<"get", "get">>, <<"get", "head", "get">>, <<"get", "get", "lookup">>}

Blank == [optional |-> Unset, main |-> Unset]

CreateOp ==
    /\ state = NoObject
    /\ op.plan \in Configs
    /\ \/ /\ op.todo \in Creations /\ op.id = 0 /\ op.got = None /\ nextId <= MaxId
          /\ kind \notin ReadsBack => op.todo[Len(op.todo)] = "post"
       \/ /\ op.todo \in AfterPut /\ op.id \in 1 .. MaxId /\ op.got = op.plan
          /\ kind \in ReadsBack

ReadOp ==
    /\ state # NoObject /\ op.id = state.id /\ op.plan = state.value
    /\ op.todo \in Reading
    /\ IF op.todo = <<"lookup">> THEN op.got \in Configs ELSE op.got = None

ImportOp ==
    /\ state = NoObject /\ op.id \in 1 .. MaxId /\ op.plan = Blank
    /\ op.todo \in Reading \cup Adopting
    /\ op.todo = <<"lookup">> => op.got \in Configs

UpdateOp ==
    /\ state # NoObject /\ op.id = state.id /\ op.plan \in Configs
    /\ \/ /\ op.todo \in BeforePut
          /\ kind \in Arranges /\ op.got = None => Head(op.todo) = "get"
       \/ /\ op.todo \in AfterPut /\ op.got \in Configs /\ op.got.main = op.plan.main
          /\ kind \notin PartialUpdates => op.got = op.plan

DeleteOp ==
    state # NoObject /\ op.id = state.id /\ op.todo = <<"delete">> /\ op.got = None

OpInv ==
    /\ op.kind = "none" => op = NoOp
    /\ op.kind = "crashed" => op = [NoOp EXCEPT !.kind = "crashed"]
    /\ op.kind = "create" => CreateOp
    /\ op.kind = "read" => ReadOp
    /\ op.kind = "import" => ImportOp
    /\ op.kind = "update" => UpdateOp
    /\ op.kind = "delete" => DeleteOp

(* The handler has read, or written, what it has not stored yet.           *)
Ahead ==
    \/ op.kind = "read" /\ op.todo = <<"lookup">>
    \/ op.kind = "update" /\ op.todo \in AfterPut

StateInv ==
    state # NoObject /\ Exists(state.id) /\ ~Ahead => Same(suspect, state.value, remote[state.id])

WrittenInv ==
    op.kind \in {"create", "update"} /\ op.todo \in AfterPut /\ Exists(op.id) =>
        Same(suspect, op.plan, remote[op.id])

ReadInv ==
    op.kind \in {"read", "import"} /\ op.todo = <<"lookup">> /\ Exists(op.id) =>
        Same(suspect, Refreshed(op.plan, op.got), remote[op.id])

(* An update that is to write the console's part has read it.              *)
LayoutInv ==
    /\ LayoutKept
    /\ op.kind = "update" /\ kind \in Arranges /\ op.todo \in BeforePut /\ op.got # None =>
          raced \/ op.layout = layout

Inv ==
    /\ TypeOK
    /\ OpInv
    /\ StateInv
    /\ WrittenInv
    /\ ReadInv
    /\ LayoutInv
    /\ CrashesOnlyKnown

-----------------------------------------------------------------------------
(* Lists of calls.                                                         *)
LEMMA Tuples ==
    /\ \A a : <<a>> # << >> /\ Head(<<a>>) = a /\ Tail(<<a>>) = << >> /\ Len(<<a>>) = 1
    /\ \A a, b : /\ <<a, b>> # << >> /\ Head(<<a, b>>) = a /\ Tail(<<a, b>>) = <<b>>
                 /\ Len(<<a, b>>) = 2
    /\ \A a, b, c : /\ <<a, b, c>> # << >> /\ Head(<<a, b, c>>) = a
                    /\ Tail(<<a, b, c>>) = <<b, c>> /\ Len(<<a, b, c>>) = 3
OBVIOUS

LEMMA Different ==
    /\ \A a, b : <<a>> = <<b>> => a = b
    /\ \A a, b, c : <<a>> # <<b, c>>
    /\ \A a, b, c, d : <<a>> # <<b, c, d>>
OBVIOUS

LEMMA CallLists ==
    /\ Creations \subseteq Seq(Calls) /\ Reading \subseteq Seq(Calls)
    /\ Adopting \subseteq Seq(Calls) /\ BeforePut \subseteq Seq(Calls)
    /\ AfterPut \subseteq Seq(Calls) /\ << >> \in Seq(Calls) /\ <<"delete">> \in Seq(Calls)
<1>1. "get" \in Calls /\ "put" \in Calls /\ "post" \in Calls /\ "lookup" \in Calls
      /\ "head" \in Calls /\ "delete" \in Calls
  BY DEF Calls
<1>2. /\ \A a \in Calls : <<a>> \in Seq(Calls)
      /\ \A a, b \in Calls : <<a, b>> \in Seq(Calls)
      /\ \A a, b, c \in Calls : <<a, b, c>> \in Seq(Calls)
      /\ << >> \in Seq(Calls)
  OBVIOUS
<1> QED
  BY <1>1, <1>2 DEF Creations, Reading, Refreshes, Adopting, BeforePut, Updates, AfterPut

LEMMA Joined ==
    ASSUME NEW adopt \in Adoptions, NEW read \in Refreshes
    PROVE  adopt \o read \in (Refreshes \cup Adopting)
<1>1. read \in Seq(Calls) /\ <<"get">> \in Seq(Calls)
  BY CallLists DEF Reading, AfterPut
<1>2. CASE adopt = << >>
  <2>1. adopt \o read = read
    BY <1>1, <1>2, ConcatEmptySeq
  <2> QED
    BY <2>1
<1>3. CASE adopt = <<"get">>
  <2> DEFINE joined == <<"get">> \o read
  <2>1. /\ joined \in Seq(Calls) /\ Len(joined) = 1 + Len(read)
        /\ \A i \in 1 .. 1 + Len(read) :
              joined[i] = IF i <= 1 THEN <<"get">>[i] ELSE read[i - 1]
    BY <1>1, ConcatProperties, Tuples
  <2> HIDE DEF joined
  <2>2. CASE read = <<"get">>
    <3>1. Len(joined) = 2 /\ joined[1] = "get" /\ joined[2] = "get"
      BY <2>1, <2>2
    <3>2. <<"get", "get">> \in Seq(Calls) /\ Len(<<"get", "get">>) = 2
      BY CallLists DEF Adopting
    <3>3. \A i \in 1 .. 2 : joined[i] = <<"get", "get">>[i]
      BY <3>1
    <3>4. joined = <<"get", "get">>
      <4> DEFINE list == <<"get", "get">>
      <4>1. /\ list \in Seq(Calls) /\ Len(joined) = Len(list)
            /\ \A i \in 1 .. Len(joined) : joined[i] = list[i]
        BY <3>1, <3>2, <3>3
      <4> HIDE DEF list
      <4>2. joined = list
        BY <2>1, <4>1, SeqEqual
      <4> QED
        BY <4>2 DEF list
    <3> QED
      BY <3>4, <1>3 DEF joined, Adopting
  <2>3. CASE read = <<"head", "get">>
    <3>1. Len(joined) = 3 /\ joined[1] = "get" /\ joined[2] = "head" /\ joined[3] = "get"
      BY <2>1, <2>3
    <3>2. <<"get", "head", "get">> \in Seq(Calls) /\ Len(<<"get", "head", "get">>) = 3
      BY CallLists DEF Adopting
    <3>3. \A i \in 1 .. 3 : joined[i] = <<"get", "head", "get">>[i]
      BY <3>1
    <3>4. joined = <<"get", "head", "get">>
      <4> DEFINE list == <<"get", "head", "get">>
      <4>1. /\ list \in Seq(Calls) /\ Len(joined) = Len(list)
            /\ \A i \in 1 .. Len(joined) : joined[i] = list[i]
        BY <3>1, <3>2, <3>3
      <4> HIDE DEF list
      <4>2. joined = list
        BY <2>1, <4>1, SeqEqual
      <4> QED
        BY <4>2 DEF list
    <3> QED
      BY <3>4, <1>3 DEF joined, Adopting
  <2>4. CASE read = <<"get", "lookup">>
    <3>1. Len(joined) = 3 /\ joined[1] = "get" /\ joined[2] = "get" /\ joined[3] = "lookup"
      BY <2>1, <2>4
    <3>2. <<"get", "get", "lookup">> \in Seq(Calls) /\ Len(<<"get", "get", "lookup">>) = 3
      BY CallLists DEF Adopting
    <3>3. \A i \in 1 .. 3 : joined[i] = <<"get", "get", "lookup">>[i]
      BY <3>1
    <3>4. joined = <<"get", "get", "lookup">>
      <4> DEFINE list == <<"get", "get", "lookup">>
      <4>1. /\ list \in Seq(Calls) /\ Len(joined) = Len(list)
            /\ \A i \in 1 .. Len(joined) : joined[i] = list[i]
        BY <3>1, <3>2, <3>3
      <4> HIDE DEF list
      <4>2. joined = list
        BY <2>1, <4>1, SeqEqual
      <4> QED
        BY <4>2 DEF list
    <3> QED
      BY <3>4, <1>3 DEF joined, Adopting
  <2> QED
    BY <2>2, <2>3, <2>4 DEF Refreshes
<1> QED
  BY <1>2, <1>3 DEF Adoptions

(* What is left after the first call of each handler.                      *)
LEMMA CreateCalls ==
    ASSUME NEW todo \in Creations
    PROVE  /\ todo # << >> /\ Head(todo) \in {"post", "lookup"}
           /\ Head(todo) = "lookup" => Len(todo) = 2 /\ Tail(todo) = <<"post">>
           /\ Head(todo) = "post" /\ Len(todo) = 1 => todo[Len(todo)] = "post"
           /\ Head(todo) = "post" /\ Len(todo) # 1 =>
                 Tail(todo) \in AfterPut /\ todo[Len(todo)] # "post"
           /\ todo \notin AfterPut
<1>1. CASE todo = <<"post">>
  <2>1. /\ todo # << >> /\ Head(todo) = "post" /\ Tail(todo) = << >>
        /\ Len(todo) = 1 /\ todo[Len(todo)] = "post"
    BY <1>1
  <2> QED
    BY <1>1, <2>1, Tuples, Different DEF AfterPut
<1>2. CASE todo = <<"post", "get">>
  <2>1. /\ todo # << >> /\ Head(todo) = "post" /\ Tail(todo) = <<"get">>
        /\ Len(todo) = 2 /\ todo[Len(todo)] = "get"
    BY <1>2
  <2> QED
    BY <1>2, <2>1, Tuples, Different DEF AfterPut
<1>3. CASE todo = <<"post", "lookup">>
  <2>1. /\ todo # << >> /\ Head(todo) = "post" /\ Tail(todo) = <<"lookup">>
        /\ Len(todo) = 2 /\ todo[Len(todo)] = "lookup"
    BY <1>3
  <2> QED
    BY <1>3, <2>1, Tuples, Different DEF AfterPut
<1>4. CASE todo = <<"lookup", "post">>
  <2>1. /\ todo # << >> /\ Head(todo) = "lookup" /\ Tail(todo) = <<"post">>
        /\ Len(todo) = 2 /\ todo[Len(todo)] = "post"
    BY <1>4
  <2> QED
    BY <1>4, <2>1, Tuples, Different DEF AfterPut
<1> QED
  BY <1>1, <1>2, <1>3, <1>4 DEF Creations

LEMMA AfterCalls ==
    ASSUME NEW todo \in AfterPut
    PROVE  /\ todo # << >> /\ Len(todo) = 1 /\ Head(todo) \in {"get", "lookup"}
           /\ Head(todo) = "lookup" => todo = <<"lookup">>
           /\ Head(todo) = "get" => todo = <<"get">>
<1>1. CASE todo = <<"get">>
  <2>1. /\ todo # << >> /\ Head(todo) = "get" /\ Tail(todo) = << >>
        /\ Len(todo) = 1 /\ todo[Len(todo)] = "get"
    BY <1>1
  <2> QED
    BY <1>1, <2>1, Tuples, Different DEF AfterPut
<1>2. CASE todo = <<"lookup">>
  <2>1. /\ todo # << >> /\ Head(todo) = "lookup" /\ Tail(todo) = << >>
        /\ Len(todo) = 1 /\ todo[Len(todo)] = "lookup"
    BY <1>2
  <2> QED
    BY <1>2, <2>1, Tuples, Different DEF AfterPut
<1> QED
  BY <1>1, <1>2 DEF AfterPut

LEMMA ReadCalls ==
    ASSUME NEW todo \in Reading
    PROVE  /\ todo # << >> /\ Head(todo) \in {"head", "get", "lookup"}
           /\ Head(todo) = "head" => Len(todo) = 2 /\ Tail(todo) = <<"get">>
           /\ Head(todo) = "get" /\ Len(todo) # 1 => Tail(todo) = <<"lookup">>
           /\ Head(todo) = "lookup" => todo = <<"lookup">> /\ Len(todo) = 1
           /\ Head(todo) # "lookup" => todo # <<"lookup">>
<1>1. CASE todo = <<"get">>
  <2>1. /\ todo # << >> /\ Head(todo) = "get" /\ Tail(todo) = << >>
        /\ Len(todo) = 1 /\ todo[Len(todo)] = "get"
    BY <1>1
  <2> QED
    BY <1>1, <2>1, Tuples, Different DEF Reading
<1>2. CASE todo = <<"head", "get">>
  <2>1. /\ todo # << >> /\ Head(todo) = "head" /\ Tail(todo) = <<"get">>
        /\ Len(todo) = 2 /\ todo[Len(todo)] = "get"
    BY <1>2
  <2> QED
    BY <1>2, <2>1, Tuples, Different DEF Reading
<1>3. CASE todo = <<"get", "lookup">>
  <2>1. /\ todo # << >> /\ Head(todo) = "get" /\ Tail(todo) = <<"lookup">>
        /\ Len(todo) = 2 /\ todo[Len(todo)] = "lookup"
    BY <1>3
  <2> QED
    BY <1>3, <2>1, Tuples, Different DEF Reading
<1>4. CASE todo = <<"lookup">>
  <2>1. /\ todo # << >> /\ Head(todo) = "lookup" /\ Tail(todo) = << >>
        /\ Len(todo) = 1 /\ todo[Len(todo)] = "lookup"
    BY <1>4
  <2> QED
    BY <1>4, <2>1, Tuples, Different DEF Reading
<1> QED
  BY <1>1, <1>2, <1>3, <1>4 DEF Reading, Refreshes

LEMMA AdoptCalls ==
    ASSUME NEW todo \in Adopting
    PROVE  /\ todo # << >> /\ Head(todo) = "get" /\ Len(todo) # 1
           /\ Tail(todo) \in Reading /\ Tail(todo) # <<"lookup">> /\ todo # <<"lookup">>
<1>1. CASE todo = <<"get", "get">>
  <2>1. /\ todo # << >> /\ Head(todo) = "get" /\ Tail(todo) = <<"get">>
        /\ Len(todo) = 2 /\ todo[Len(todo)] = "get"
    BY <1>1
  <2> QED
    BY <1>1, <2>1, Tuples, Different DEF Reading, Refreshes
<1>2. CASE todo = <<"get", "head", "get">>
  <2>1. /\ todo # << >> /\ Head(todo) = "get" /\ Tail(todo) = <<"head", "get">>
        /\ Len(todo) = 3 /\ todo[Len(todo)] = "get"
    BY <1>2
  <2> QED
    BY <1>2, <2>1, Tuples, Different DEF Reading, Refreshes
<1>3. CASE todo = <<"get", "get", "lookup">>
  <2>1. /\ todo # << >> /\ Head(todo) = "get" /\ Tail(todo) = <<"get", "lookup">>
        /\ Len(todo) = 3 /\ todo[Len(todo)] = "lookup"
    BY <1>3
  <2> QED
    BY <1>3, <2>1, Tuples, Different DEF Reading, Refreshes
<1> QED
  BY <1>1, <1>2, <1>3 DEF Adopting

LEMMA UpdateCalls ==
    ASSUME NEW todo \in BeforePut
    PROVE  /\ todo # << >> /\ Head(todo) \in {"get", "lookup", "put"}
           /\ Head(todo) \in {"get", "lookup"} => Len(todo) # 1 /\ Tail(todo) \in BeforePut
           /\ Head(todo) = "get" => Head(Tail(todo)) = "put"
           /\ Head(todo) = "put" /\ Len(todo) # 1 => Tail(todo) \in AfterPut
           /\ todo \notin AfterPut
<1>1. CASE todo = <<"put">>
  <2>1. /\ todo # << >> /\ Head(todo) = "put" /\ Tail(todo) = << >>
        /\ Len(todo) = 1 /\ todo[Len(todo)] = "put"
    BY <1>1
  <2> QED
    BY <1>1, <2>1, Tuples, Different DEF BeforePut, Updates, AfterPut
<1>2. CASE todo = <<"put", "get">>
  <2>1. /\ todo # << >> /\ Head(todo) = "put" /\ Tail(todo) = <<"get">>
        /\ Len(todo) = 2 /\ todo[Len(todo)] = "get"
    BY <1>2
  <2> QED
    BY <1>2, <2>1, Tuples, Different DEF BeforePut, Updates, AfterPut
<1>3. CASE todo = <<"put", "lookup">>
  <2>1. /\ todo # << >> /\ Head(todo) = "put" /\ Tail(todo) = <<"lookup">>
        /\ Len(todo) = 2 /\ todo[Len(todo)] = "lookup"
    BY <1>3
  <2> QED
    BY <1>3, <2>1, Tuples, Different DEF BeforePut, Updates, AfterPut
<1>4. CASE todo = <<"get", "put">>
  <2>1. /\ todo # << >> /\ Head(todo) = "get" /\ Tail(todo) = <<"put">>
        /\ Len(todo) = 2 /\ todo[Len(todo)] = "put"
    BY <1>4
  <2> QED
    BY <1>4, <2>1, Tuples, Different DEF BeforePut, Updates, AfterPut
<1>5. CASE todo = <<"get", "put", "get">>
  <2>1. /\ todo # << >> /\ Head(todo) = "get" /\ Tail(todo) = <<"put", "get">>
        /\ Len(todo) = 3 /\ todo[Len(todo)] = "get"
    BY <1>5
  <2> QED
    BY <1>5, <2>1, Tuples, Different DEF BeforePut, Updates, AfterPut
<1>6. CASE todo = <<"lookup", "put", "get">>
  <2>1. /\ todo # << >> /\ Head(todo) = "lookup" /\ Tail(todo) = <<"put", "get">>
        /\ Len(todo) = 3 /\ todo[Len(todo)] = "get"
    BY <1>6
  <2> QED
    BY <1>6, <2>1, Tuples, Different DEF BeforePut, Updates, AfterPut
<1> QED
  BY <1>1, <1>2, <1>3, <1>4, <1>5, <1>6 DEF BeforePut, Updates

-----------------------------------------------------------------------------
(* What is assumed of the kind of a run.                                   *)
LEMMA Profile ==
    ASSUME TypeOK
    PROVE  /\ resource.create \in Creations /\ resource.read \in Refreshes
           /\ resource.update \in Updates /\ resource.adopt \in Adoptions
           /\ resource.absent["create"] \in {"error", "panic", "kept"}
           /\ resource.absent["update"] \in {"error", "panic", "kept"}
           /\ resource.absent["read"] \in {"error", "panic", "removed"}
           /\ resource.absent["import"] \in {"error", "panic", "removed"}
           /\ resource.hides \in {"nothing", "kept", "never"}
           /\ resource.sticky \in BOOLEAN
           /\ client.omits \in {"nothing", "unset", "always"}
           /\ client.named \in BOOLEAN
<1>1. resource \in ResourceProfiles /\ client \in ClientProfiles
  BY ResourceLifecycleAssumption DEF TypeOK, resource, client
<1> QED
  BY <1>1 DEF ResourceProfiles, ClientProfiles

LEMMA Classified ==
    ASSUME TypeOK
    PROVE  /\ kind \notin Brittle =>
                /\ client.head.panic = {} /\ client.get.panic = {}
                /\ \A handler \in Handlers : resource.absent[handler] # "panic"
           /\ kind \notin TrustsErrors =>
                \A reader \in {client.head, client.get, client.delete} : ~Trusting(reader)
           /\ kind \notin ReadsBack => resource.create[Len(resource.create)] = "post"
           /\ kind \notin Unreturned => resource.hides = "nothing"
           /\ kind \notin Sticky => ~resource.sticky
           /\ kind \notin PartialUpdates => client.omits = "nothing"
           /\ kind \in Arranges =>
                /\ resource.update # << >> /\ Head(resource.update) = "get"
                /\ resource.absent["update"] # "kept"
           /\ resource.update = << >> => resource.replaces = "everything"
<1>1. kind \in Kinds
  BY DEF TypeOK
<1> QED
  BY <1>1, KindsAssumption DEF resource, client

LEMMA ResultsOf ==
    ASSUME NEW reader \in Readers, NEW answer
    PROVE  /\ "found" \in Results(reader, answer) => answer = "found"
           /\ "gone" \in Results(reader, answer) =>
                 answer # "found" /\ answer \in reader.gone \cup reader.unclear
           /\ "panic" \in Results(reader, answer) => answer \in reader.panic
           /\ Results(reader, answer) \cap {"found", "gone"} # {} =>
                 "found" \in Results(reader, answer) \/ "gone" \in Results(reader, answer)
<1>1. CASE answer = "found"
  <2>1. Results(reader, answer) = {"found"}
    <3>1. answer \notin reader.gone /\ answer \notin reader.panic /\ answer \notin reader.unclear
      BY <1>1 DEF Readers, Denials
    <3> QED
      BY <1>1, <3>1 DEF Results
  <2> QED
    BY <1>1, <2>1
<1>2. CASE answer # "found" /\ answer \in reader.gone
  BY <1>2 DEF Results
<1>3. CASE answer # "found" /\ answer \notin reader.gone
  BY <1>3 DEF Results
<1> QED
  BY <1>1, <1>2, <1>3

-----------------------------------------------------------------------------
(* What is written, and what is stored of an answer.                       *)
LEMMA ValueOf ==
    /\ Configs \subseteq Values /\ None \notin Values /\ None \notin Configs /\ Blank \in Values
    /\ \A value \in Values : value.optional \in {Given, Unset} /\ value.main \in Mains \cup {Unset}
    /\ \A value \in Configs : value.main \in Mains /\ value.main # Unset
BY ResourceLifecycleAssumption DEF Configs, Values, Blank

LEMMA WrittenOf ==
    ASSUME TypeOK, NEW old \in Configs, NEW plan \in Configs
    PROVE  /\ Written(old, plan) \in Configs /\ Written(old, plan).main = plan.main
           /\ kind \notin PartialUpdates => Written(old, plan) = plan
<1>1. /\ plan.optional \in {Given, Unset} /\ plan.main \in Mains
      /\ old.optional \in {Given, Unset}
      /\ plan = [optional |-> plan.optional, main |-> plan.main]
  BY DEF Configs
<1>2. \A o \in {Given, Unset} :
         [plan EXCEPT !.optional = o] \in Configs /\ [plan EXCEPT !.optional = o].main = plan.main
  BY <1>1 DEF Configs
<1>3. (IF merges THEN old.optional ELSE Unset) \in {Given, Unset}
  BY <1>1
<1>4. kind \notin PartialUpdates => client.omits = "nothing"
  BY Classified
<1> QED
  BY <1>2, <1>3, <1>4 DEF Written

LEMMA RefreshedOf ==
    ASSUME TypeOK, NEW old \in Values, NEW new \in Values
    PROVE  /\ Refreshed(old, new) \in Values
           /\ Refreshed(old, new).main \in {old.main, new.main}
           /\ Refreshed(old, new).optional \in {old.optional, new.optional}
           /\ kind \notin Unreturned => Refreshed(old, new).main = new.main
           /\ kind \notin Sticky \/ old.optional = Unset =>
                 Refreshed(old, new).optional = new.optional
<1> DEFINE o == IF resource.sticky /\ new.optional = Unset THEN old.optional ELSE new.optional
           m == CASE resource.hides = "nothing" -> new.main
                  [] resource.hides = "kept" /\ old.main = Unset -> new.main
                  [] OTHER -> old.main
<1>1. /\ old.optional \in {Given, Unset} /\ new.optional \in {Given, Unset}
      /\ old.main \in Mains \cup {Unset} /\ new.main \in Mains \cup {Unset}
  BY ValueOf
<1>2. o \in {old.optional, new.optional} /\ m \in {old.main, new.main}
  <2>1. m \in {old.main, new.main}
    <3>1. CASE resource.hides = "nothing"
      BY <3>1
    <3>2. CASE resource.hides # "nothing" /\ resource.hides = "kept" /\ old.main = Unset
      BY <3>2
    <3>3. CASE resource.hides # "nothing" /\ ~(resource.hides = "kept" /\ old.main = Unset)
      BY <3>3
    <3> QED
      BY <3>1, <3>2, <3>3
  <2> QED
    BY <2>1
<1>3. kind \notin Unreturned => m = new.main
  BY Classified
<1>4. kind \notin Sticky \/ old.optional = Unset => o = new.optional
  BY Classified
<1>5. Refreshed(old, new) = [optional |-> o, main |-> m]
  BY DEF Refreshed
<1> HIDE DEF o, m
<1> QED
  BY <1>1, <1>2, <1>3, <1>4, <1>5 DEF Values

LEMMA RefreshedSelf ==
    ASSUME TypeOK, NEW value \in Values
    PROVE  Refreshed(value, value) = value
<1>1. /\ Refreshed(value, value) \in Values
      /\ Refreshed(value, value).main = value.main
      /\ Refreshed(value, value).optional = value.optional
  BY RefreshedOf
<1> QED
  BY <1>1 DEF Values

(* A Read stores what it is certain of; what it does not show stays in     *)
(* doubt.                                                                  *)
LEMMA RefreshedSame ==
    ASSUME TypeOK, NEW old \in Values, NEW new \in Values, NEW doubtful, Same(doubtful, old, new)
    PROVE  /\ Same(doubtful, Refreshed(old, new), new)
           /\ Same(doubtful \ Shown, Refreshed(old, new), new)
<1>1. /\ Refreshed(old, new).main \in {old.main, new.main}
      /\ Refreshed(old, new).optional \in {old.optional, new.optional}
      /\ kind \notin Unreturned => Refreshed(old, new).main = new.main
      /\ kind \notin Sticky => Refreshed(old, new).optional = new.optional
  BY RefreshedOf
<1> QED
  BY <1>1 DEF Same, Shown, Attributes

LEMMA RefreshedBlank ==
    ASSUME TypeOK, NEW new \in Values
    PROVE  Same(Attributes \ Shown, Refreshed(Blank, new), new)
<1>1. Blank \in Values /\ Blank.optional = Unset
  BY ValueOf DEF Blank
<1>2. /\ kind \notin Unreturned => Refreshed(Blank, new).main = new.main
      /\ Refreshed(Blank, new).optional = new.optional
  BY <1>1, RefreshedOf
<1> QED
  BY <1>2 DEF Same, Shown, Attributes

(* What a create or an update stores of an answer.                         *)
LEMMA ResultOf ==
    ASSUME TypeOK, op.plan \in Configs, NEW got \in Values, NEW doubtful, NEW object,
           got.main = op.plan.main \/ got = object,
           kind \notin PartialUpdates => got = op.plan \/ got = object,
           Same(doubtful, op.plan, object),
           op.kind \in {"create", "update"}
    PROVE  Result(got) \in Values /\ Same(doubtful, Result(got), object)
<1>1. op.plan \in Values
  BY ValueOf
<1>2. CASE op.kind \notin resource.echoes
  BY <1>1, <1>2 DEF Result
<1>3. CASE op.kind \in resource.echoes
  <2>1. Result(got) = Refreshed(op.plan, got)
    BY <1>3 DEF Result
  <2>2. /\ Refreshed(op.plan, got) \in Values
        /\ Refreshed(op.plan, got).main \in {op.plan.main, got.main}
        /\ Refreshed(op.plan, got).optional \in {op.plan.optional, got.optional}
    BY <1>1, RefreshedOf
  <2> QED
    BY <2>1, <2>2 DEF Same
<1> QED
  BY <1>2, <1>3

-----------------------------------------------------------------------------
(* The parts of a state that a handler is in, and of one between handlers. *)
LEMMA Ended ==
    ASSUME TypeOK', op' \in {NoOp, [NoOp EXCEPT !.kind = "crashed"]}, CrashesOnlyKnown',
           state' # NoObject /\ Exists(state.id)' => Same(suspect, state.value, remote[state.id])',
           LayoutKept'
    PROVE  Inv'
<1>1. op'.kind \in {"none", "crashed"} /\ op'.todo = << >>
  BY DEF NoOp
<1>2. op'.kind = "none" => op' = NoOp
  BY DEF NoOp
<1>3. op'.kind = "crashed" => op' = [NoOp EXCEPT !.kind = "crashed"]
  BY DEF NoOp
<1>4. OpInv'
  BY <1>1, <1>2, <1>3 DEF OpInv, NoOp
<1> QED
  BY <1>1, <1>4 DEF Inv, StateInv, WrittenInv, ReadInv, LayoutInv

LEMMA InCreate ==
    ASSUME TypeOK', op'.kind = "create", CreateOp', WrittenInv', LayoutKept'
    PROVE  Inv'
BY DEF Inv, OpInv, CreateOp, StateInv, ReadInv, LayoutInv, CrashesOnlyKnown

LEMMA InRead ==
    ASSUME TypeOK', op'.kind = "read", ReadOp', StateInv', ReadInv', LayoutKept'
    PROVE  Inv'
BY DEF Inv, OpInv, WrittenInv, LayoutInv, CrashesOnlyKnown

LEMMA InImport ==
    ASSUME TypeOK', op'.kind = "import", ImportOp', ReadInv', LayoutKept'
    PROVE  Inv'
BY DEF Inv, OpInv, ImportOp, StateInv, WrittenInv, LayoutInv, CrashesOnlyKnown

LEMMA InUpdate ==
    ASSUME TypeOK', op'.kind = "update", UpdateOp', StateInv', WrittenInv', LayoutInv'
    PROVE  Inv'
BY DEF Inv, OpInv, ReadInv, CrashesOnlyKnown

LEMMA InDelete ==
    ASSUME TypeOK', op'.kind = "delete", DeleteOp', StateInv', LayoutKept'
    PROVE  Inv'
BY DEF Inv, OpInv, WrittenInv, ReadInv, LayoutInv, CrashesOnlyKnown

(* The record of the handler.                                              *)
LEMMA Handled ==
    ASSUME TypeOK
    PROVE  /\ op.kind \in Handlers \cup {"none", "delete", "crashed"} /\ op.todo \in Seq(Calls)
           /\ op.id \in 0 .. MaxId /\ op.plan \in Values \cup {None}
           /\ op.got \in Values \cup {None} /\ op.layout \in {0, 1}
BY DEF TypeOK, Ops

LEMMA Resting ==
    /\ NoOp \in Ops /\ [NoOp EXCEPT !.kind = "crashed"] \in Ops
    /\ NoOp.kind = "none" /\ NoOp.todo = << >> /\ NoOp.id = 0 /\ NoOp.got = None
<1>1. 0 \in 0 .. MaxId
  BY ResourceLifecycleAssumption
<1> QED
  BY <1>1, CallLists DEF NoOp, Ops

LEMMA Beginning ==
    ASSUME NEW handler \in Handlers \cup {"delete"}, NEW todo \in Seq(Calls), NEW id \in 0 .. MaxId,
           NEW plan \in Values \cup {None}, Begin(handler, todo, id, plan)
    PROVE  /\ op' \in Ops
           /\ op'.kind = handler /\ op'.todo = todo /\ op'.id = id /\ op'.plan = plan
           /\ op'.got = None
BY DEF Begin, NoOp, Ops

LEMMA Going ==
    ASSUME TypeOK, op.todo # << >>, Len(op.todo) # 1,
           NEW id \in 0 .. MaxId, NEW got \in Values \cup {None}, NEW seen \in {0, 1},
           Goes(id, got, seen)
    PROVE  /\ op' \in Ops
           /\ op'.kind = op.kind /\ op'.todo = Tail(op.todo) /\ op'.id = id /\ op'.plan = op.plan
           /\ op'.got = got /\ op'.layout = seen
           /\ state' = state
<1>1. /\ op.kind \in Handlers \cup {"none", "delete", "crashed"} /\ Tail(op.todo) \in Seq(Calls)
      /\ op.id \in 0 .. MaxId /\ op.plan \in Values \cup {None}
  BY Handled
<1>2. op' = [op EXCEPT !.todo = Tail(op.todo), !.id = id, !.got = got, !.layout = seen]
      /\ state' = state
  BY DEF Goes
<1>3. op' = [kind |-> op.kind, todo |-> Tail(op.todo), id |-> id, plan |-> op.plan, got |-> got,
             layout |-> seen]
  BY <1>2 DEF TypeOK, Ops
<1> HIDE DEF Goes
<1> QED
  BY <1>1, <1>2, <1>3 DEF Ops

LEMMA Storing ==
    ASSUME Len(op.todo) = 1, NEW id \in 1 .. MaxId, NEW got, NEW seen, Goes(id, got, seen),
           Result(got) \in Values
    PROVE  /\ op' = NoOp /\ op' \in Ops /\ op'.kind = "none"
           /\ state'.id = id /\ state'.value = Result(got)
           /\ state' \in [id : 1 .. MaxId, value : Values]
BY Resting DEF Goes

(* No call is due between handlers.                                        *)
LEMMA Active ==
    ASSUME Inv, NEW call, Due(call)
    PROVE  /\ op.kind \in Handlers \cup {"delete"} /\ op.todo # << >> /\ Head(op.todo) = call
           /\ ~Idle /\ op.kind \notin {"none", "crashed"}
<1>1. op.kind \notin {"none", "crashed"}
  BY Resting DEF Inv, OpInv, Due, NoOp
<1> QED
  BY <1>1, Handled DEF Inv, Due, Idle

(* What Terraform tracks.                                                  *)
LEMMA Stored ==
    ASSUME TypeOK, state # NoObject
    PROVE  state.id \in 1 .. MaxId /\ state.value \in Values
BY DEF TypeOK

-----------------------------------------------------------------------------
(* The handlers begin.                                                     *)
LEMMA InitInv ==
    ASSUME Init
    PROVE  Inv
<1>1. NoOp \in Ops /\ op = NoOp /\ op.kind = "none" /\ NoOp.kind = "none" /\ state = NoObject
  BY Resting DEF Init
<1>2. absence \in Denials
  <2>1. Clients[kind].get.gone \subseteq Denials
    BY ResourceLifecycleAssumption DEF Init, ClientProfiles, Readers
  <2> QED
    BY <2>1 DEF Init, Absences, Denials, Answers, Failures
<1>3. \A first \in {None} \cup [optional : {Given}, main : Mains] : first \in Configs \cup {None}
  BY DEF Configs
<1>4. remote \in [1 .. MaxId -> Configs \cup {None}] /\ nextId \in 1 .. MaxId + 1
  BY <1>3, ResourceLifecycleAssumption DEF Init
<1>5. TypeOK
  BY <1>1, <1>2, <1>4 DEF Init, TypeOK
<1>6. OpInv /\ StateInv /\ WrittenInv /\ ReadInv
  BY <1>1 DEF OpInv, StateInv, WrittenInv, ReadInv
<1>7. LayoutInv /\ CrashesOnlyKnown
  BY <1>1 DEF Init, LayoutInv, LayoutKept, CrashesOnlyKnown
<1> QED
  BY <1>5, <1>6, <1>7 DEF Inv

LEMMA PlannedOf ==
    ASSUME TypeOK, config # None
    PROVE  Planned \in Configs
<1>1. config \in Configs
  BY DEF TypeOK
<1>2. CASE resource.computed /\ config.optional = Unset /\ state # NoObject
  <2>1. state.value.optional \in {Given, Unset}
    BY <1>2, Stored, ValueOf
  <2>2. Planned = [config EXCEPT !.optional = state.value.optional]
    BY <1>2 DEF Planned
  <2> QED
    BY <1>1, <2>1, <2>2 DEF Configs
<1>3. CASE ~(resource.computed /\ config.optional = Unset /\ state # NoObject)
  BY <1>1, <1>3 DEF Planned
<1> QED
  BY <1>2, <1>3

LEMMA EditConfigInv ==
    ASSUME Inv, NEW new \in Configs \cup {None}, EditConfig(new)
    PROVE  Inv'
<1>1. TypeOK'
  BY DEF Inv, TypeOK, EditConfig, settings, console
<1>2. op' = NoOp /\ op = NoOp
  BY DEF Inv, OpInv, Idle, EditConfig
<1>3. ~Ahead
  BY <1>2, Resting DEF Ahead
<1>4. UNCHANGED <<kind, state, remote, suspect, layout, arranged, raced>>
  BY DEF EditConfig, settings, console
<1>5. state' # NoObject /\ Exists(state.id)' => Same(suspect, state.value, remote[state.id])'
  BY <1>3, <1>4 DEF Inv, StateInv, Exists, Same
<1>6. LayoutKept' /\ CrashesOnlyKnown'
  BY <1>2, <1>4, Resting DEF Inv, LayoutInv, LayoutKept, CrashesOnlyKnown
<1> QED
  BY <1>1, <1>2, <1>5, <1>6, Ended

LEMMA BeginCreateInv ==
    ASSUME Inv, BeginCreate
    PROVE  Inv'
<1>1. TypeOK /\ Planned \in Configs /\ Planned \in Values /\ resource.create \in Creations
  BY PlannedOf, Profile, ValueOf DEF Inv, BeginCreate
<1>2. /\ op' \in Ops /\ op'.kind = "create" /\ op'.todo = resource.create /\ op'.id = 0
      /\ op'.plan = Planned /\ op'.got = None
  BY <1>1, Beginning, CallLists, ResourceLifecycleAssumption DEF BeginCreate, Handlers
<1>3. UNCHANGED <<kind, state, nextId, layout, arranged, raced>> /\ state = NoObject /\ nextId <= MaxId
  BY DEF BeginCreate, settings, console
<1>4. TypeOK'
  BY <1>1, <1>2 DEF TypeOK, BeginCreate, settings, console, counters
<1>5. CreateOp'
  BY <1>1, <1>2, <1>3, Classified DEF CreateOp
<1>6. WrittenInv'
  BY <1>1, <1>2, CreateCalls DEF WrittenInv
<1>7. LayoutKept'
  BY <1>3 DEF Inv, LayoutInv, LayoutKept
<1> QED
  BY <1>2, <1>4, <1>5, <1>6, <1>7, InCreate

LEMMA BeginReadInv ==
    ASSUME Inv, BeginRead
    PROVE  Inv'
<1>1. TypeOK /\ state.id \in 1 .. MaxId /\ state.value \in Values /\ resource.read \in Refreshes
  BY Stored, Profile DEF Inv, BeginRead
<1>2. /\ op' \in Ops /\ op'.kind = "read" /\ op'.todo = resource.read /\ op'.id = state.id
      /\ op'.plan = state.value /\ op'.got = None
  BY <1>1, Beginning, CallLists DEF BeginRead, Handlers, Reading
<1>3. /\ UNCHANGED <<kind, state, remote, suspect, layout, arranged, raced>>
      /\ state # NoObject /\ op.kind = "none"
  BY DEF BeginRead, settings, console, Idle
<1>4. TypeOK'
  BY <1>1, <1>2 DEF TypeOK, BeginRead, settings, console, counters
<1>5. resource.read \in Reading /\ resource.read # <<"lookup">>
  BY <1>1, Different DEF Reading, Refreshes
<1>6. ReadOp' /\ ReadInv'
  BY <1>2, <1>3, <1>5 DEF ReadOp, ReadInv
<1>7. StateInv'
  BY <1>3 DEF Inv, StateInv, Ahead, Exists, Same
<1>8. LayoutKept'
  BY <1>3 DEF Inv, LayoutInv, LayoutKept
<1> QED
  BY <1>2, <1>4, <1>6, <1>7, <1>8, InRead

LEMMA BeginUpdateInv ==
    ASSUME Inv, BeginUpdate
    PROVE  Inv'
<1>1. TypeOK /\ Planned \in Configs /\ Planned \in Values /\ state.id \in 1 .. MaxId
  BY PlannedOf, Stored, ValueOf DEF Inv, BeginUpdate
<1>2. resource.update \in BeforePut
  <2>1. resource.update # << >>
    BY <1>1, Classified DEF BeginUpdate, MustReplace
  <2> QED
    BY <1>1, <2>1, Profile DEF BeforePut
<1>3. /\ op' \in Ops /\ op'.kind = "update" /\ op'.todo = resource.update /\ op'.id = state.id
      /\ op'.plan = Planned /\ op'.got = None
  BY <1>1, <1>2, Beginning, CallLists DEF BeginUpdate, Handlers
<1>4. /\ UNCHANGED <<kind, state, remote, suspect, layout, arranged, raced>>
      /\ state # NoObject /\ op.kind = "none"
  BY DEF BeginUpdate, settings, console, Idle
<1>5. TypeOK'
  BY <1>1, <1>3 DEF TypeOK, BeginUpdate, settings, console, counters
<1>6. kind \in Arranges => Head(resource.update) = "get"
  BY <1>1, Classified
<1>7. UpdateOp'
  BY <1>1, <1>2, <1>3, <1>4, <1>6 DEF UpdateOp
<1>8. WrittenInv'
  BY <1>2, <1>3, UpdateCalls DEF WrittenInv
<1>9. StateInv'
  BY <1>4 DEF Inv, StateInv, Ahead, Exists, Same
<1>10. LayoutInv'
  BY <1>3, <1>4 DEF Inv, LayoutInv, LayoutKept
<1> QED
  BY <1>3, <1>5, <1>7, <1>8, <1>9, <1>10, InUpdate

LEMMA BeginDeleteInv ==
    ASSUME Inv, BeginDelete
    PROVE  Inv'
<1>1. TypeOK /\ state.id \in 1 .. MaxId
  BY Stored DEF Inv, BeginDelete
<1>2. /\ op' \in Ops /\ op'.kind = "delete" /\ op'.todo = <<"delete">> /\ op'.id = state.id
      /\ op'.got = None
  <2>1. Begin("delete", <<"delete">>, state.id, None)
    BY DEF BeginDelete
  <2>2. <<"delete">> \in Seq(Calls) /\ state.id \in 0 .. MaxId /\ None \in Values \cup {None}
    BY <1>1, CallLists
  <2> DEFINE todo == <<"delete">>
  <2> HIDE DEF todo
  <2>3. todo \in Seq(Calls) /\ Begin("delete", todo, state.id, None)
    BY <2>1, <2>2 DEF todo
  <2>4. /\ op' \in Ops /\ op'.kind = "delete" /\ op'.todo = todo /\ op'.id = state.id
        /\ op'.got = None
    BY <2>2, <2>3, Beginning
  <2> QED
    BY <2>4 DEF todo
<1>3. /\ UNCHANGED <<kind, state, remote, suspect, layout, arranged, raced>>
      /\ state # NoObject /\ op.kind = "none"
  BY DEF BeginDelete, settings, console, Idle
<1>4. TypeOK'
  BY <1>1, <1>2 DEF TypeOK, BeginDelete, settings, console, counters
<1>5. DeleteOp'
  BY <1>2, <1>3 DEF DeleteOp
<1>6. StateInv'
  BY <1>3 DEF Inv, StateInv, Ahead, Exists, Same
<1>7. LayoutKept'
  BY <1>3 DEF Inv, LayoutInv, LayoutKept
<1> QED
  BY <1>2, <1>4, <1>5, <1>6, <1>7, InDelete

LEMMA ImportInv ==
    ASSUME Inv, NEW id \in 1 .. MaxId, Import(id)
    PROVE  Inv'
<1> DEFINE calls == resource.adopt \o resource.read
<1>1. TypeOK /\ calls \in Refreshes \cup Adopting /\ Blank \in Values
  BY Profile, Joined, ValueOf DEF Inv
<1> HIDE DEF calls
<1>2. calls \in Reading \cup Adopting /\ calls # <<"lookup">>
  BY <1>1, AdoptCalls, Different DEF Reading, Refreshes
<1>3. Begin("import", calls, id, Blank)
  BY DEF Import, calls, Blank
<1>4. /\ op' \in Ops /\ op'.kind = "import" /\ op'.todo = calls /\ op'.id = id
      /\ op'.plan = Blank /\ op'.got = None
  BY <1>1, <1>2, <1>3, Beginning, CallLists DEF Handlers
<1>5. UNCHANGED <<kind, state, layout, arranged, raced>> /\ state = NoObject
  BY DEF Import, settings, console
<1>6. TypeOK'
  BY <1>1, <1>4 DEF TypeOK, Import, settings, console
<1>7. ImportOp' /\ ReadInv'
  BY <1>1, <1>2, <1>4, <1>5 DEF ImportOp, ReadInv
<1>8. LayoutKept'
  BY <1>5 DEF Inv, LayoutInv, LayoutKept
<1> QED
  BY <1>4, <1>6, <1>7, <1>8, InImport

-----------------------------------------------------------------------------
(* The handlers end.                                                       *)

(* What a step does to everything but the tracked object and the handler.  *)
Rest ==
    /\ UNCHANGED <<kind, absence, merges, config>>
    /\ remote' \in [1 .. MaxId -> Configs \cup {None}] /\ nextId' \in 1 .. MaxId + 1
    /\ layout' \in {0, 1} /\ arranged' \in {0, 1} /\ raced' \in BOOLEAN
    /\ suspect' \subseteq Attributes
    /\ edits' \in Nat /\ failures' \in Nat /\ changes' \in Nat

LEMMA RestTyped ==
    ASSUME TypeOK, Rest, op' \in Ops, state' \in {NoObject} \cup [id : 1 .. MaxId, value : Values]
    PROVE  TypeOK'
BY DEF TypeOK, Rest

LEMMA Counting ==
    ASSUME TypeOK, NEW failed, Failing(failed)
    PROVE  edits' \in Nat /\ failures' \in Nat /\ changes' \in Nat
BY DEF TypeOK, Failing

LEMMA Doubts ==
    ASSUME TypeOK
    PROVE  /\ suspect \subseteq Attributes /\ InDoubt \subseteq Attributes
           /\ Cleared \subseteq Attributes
<1>1. suspect \subseteq Attributes
  BY DEF TypeOK
<1>2. InDoubt \subseteq Attributes
  BY <1>1 DEF InDoubt
<1>3. Cleared \in {suspect \ Shown, Attributes \ Shown, suspect}
  BY DEF Cleared
<1> QED
  BY <1>1, <1>2, <1>3

(* A handler that has written, and has a call left.                        *)
LEMMA AfterOp ==
    ASSUME Inv, op.kind \in {"create", "update"}, op.todo \in AfterPut
    PROVE  /\ op.id \in 1 .. MaxId /\ op.plan \in Configs
           /\ op.got \in Configs /\ op.got.main = op.plan.main
           /\ kind \notin PartialUpdates => op.got = op.plan
           /\ op.kind = "create" => kind \in ReadsBack
           /\ op.kind = "update" => state # NoObject /\ op.id = state.id
<1>1. /\ op.kind = "create" => CreateOp
      /\ op.kind = "update" => UpdateOp
      /\ TypeOK
  BY DEF Inv, OpInv
<1>2. op.todo \notin Creations /\ op.todo \notin BeforePut
  BY CreateCalls, UpdateCalls
<1>3. CASE op.kind = "create"
  BY <1>1, <1>2, <1>3 DEF CreateOp
<1>4. CASE op.kind = "update"
  <2>1. state.id \in 1 .. MaxId
    BY <1>1, <1>4, Stored DEF UpdateOp
  <2> QED
    BY <1>1, <1>2, <1>4, <2>1 DEF UpdateOp
<1> QED
  BY <1>3, <1>4

LEMMA Aborted ==
    ASSUME Inv, Rest, op.kind \notin {"none", "crashed"}, Fails \/ (Crashes /\ kind \in Brittle),
           UNCHANGED <<remote, layout, arranged, raced>>
    PROVE  Inv'
<1>1. TypeOK /\ kind' = kind /\ state' = state /\ suspect' = InDoubt
  BY DEF Inv, Rest, Fails, Crashes
<1>2. op' \in {NoOp, [NoOp EXCEPT !.kind = "crashed"]} /\ CrashesOnlyKnown'
  <2>1. CASE Fails
    BY <2>1, Resting DEF Fails, CrashesOnlyKnown
  <2>2. CASE Crashes /\ kind \in Brittle
    BY <1>1, <2>2 DEF Crashes, CrashesOnlyKnown
  <2> QED
    BY <2>1, <2>2
<1>3. op' \in Ops
  BY <1>2, Resting
<1>4. TypeOK'
  BY <1>1, <1>3, RestTyped DEF TypeOK
<1>5. op.got = None => ~Ahead
  <2>1. op.kind = "read" /\ op.todo = <<"lookup">> => op.got \in Configs
    BY DEF Inv, OpInv, ReadOp
  <2>2. op.kind = "update" /\ op.todo \in AfterPut => op.got \in Configs
    BY AfterOp
  <2> QED
    BY <2>1, <2>2, ValueOf DEF Ahead
<1>6. state # NoObject /\ Exists(state.id) => Same(InDoubt, state.value, remote[state.id])
  <2>1. CASE op.got = None
    BY <1>5, <2>1 DEF Inv, StateInv, InDoubt
  <2>2. CASE op.got # None
    BY <2>2 DEF Same, InDoubt, Attributes
  <2> QED
    BY <2>1, <2>2
<1>7. state' # NoObject /\ Exists(state.id)' => Same(suspect, state.value, remote[state.id])'
  BY <1>1, <1>6 DEF Same, Exists
<1>8. LayoutKept'
  BY DEF Inv, LayoutInv, LayoutKept
<1> QED
  BY <1>2, <1>4, <1>7, <1>8, Ended

LEMMA Removed ==
    ASSUME Inv, Rest, Removes, UNCHANGED <<layout, arranged, raced>>
    PROVE  Inv'
<1>1. TypeOK /\ op' = NoOp /\ op' \in Ops /\ op'.kind = "none" /\ state' = NoObject
  BY Resting DEF Inv, Removes
<1>2. TypeOK'
  BY <1>1, RestTyped
<1>3. CrashesOnlyKnown' /\ LayoutKept'
  BY <1>1 DEF CrashesOnlyKnown, Inv, LayoutInv, LayoutKept
<1> QED
  BY <1>1, <1>2, <1>3, Ended

LEMMA StoringInv ==
    ASSUME Inv, Rest, Len(op.todo) = 1, NEW id \in 1 .. MaxId, NEW got, NEW seen,
           Goes(id, got, seen), Result(got) \in Values,
           remote'[id] # None => Same(suspect', Result(got), remote'[id]), LayoutKept'
    PROVE  Inv'
<1>1. /\ TypeOK /\ kind' = kind /\ op' = NoOp /\ op' \in Ops /\ op'.kind = "none"
      /\ state'.id = id /\ state'.value = Result(got)
      /\ state' \in [id : 1 .. MaxId, value : Values]
  BY Storing DEF Inv, Rest
<1>2. TypeOK'
  BY <1>1, RestTyped
<1>3. CrashesOnlyKnown'
  BY <1>1 DEF CrashesOnlyKnown
<1>4. Exists(state.id)' => Same(suspect, state.value, remote[state.id])'
  BY <1>1 DEF Same, Exists
<1> QED
  BY <1>1, <1>2, <1>3, <1>4, Ended

(* The last call of a handler that has written.                            *)
LEMMA Confirming ==
    ASSUME Inv, Rest, op.kind \in {"create", "update"}, op.todo \in AfterPut, NEW got, NEW seen,
           got \in {op.plan, op.got} \/ (Exists(op.id) /\ got = remote[op.id]),
           Goes(op.id, got, seen), UNCHANGED <<remote, layout, arranged, raced, suspect>>
    PROVE  Inv'
<1>1. TypeOK /\ Len(op.todo) = 1 /\ op.plan \in Configs /\ op.plan \in Values
  BY AfterOp, AfterCalls, ValueOf DEF Inv
<1>2. /\ op.id \in 1 .. MaxId /\ op.got \in Configs /\ op.got.main = op.plan.main
      /\ kind \notin PartialUpdates => op.got = op.plan
  BY AfterOp
<1>3. remote[op.id] \in Configs \cup {None}
  BY <1>1, <1>2 DEF TypeOK
<1>4. /\ got \in Values
      /\ got.main = op.plan.main \/ got = remote[op.id]
      /\ kind \notin PartialUpdates => got = op.plan \/ got = remote[op.id]
  BY <1>1, <1>2, <1>3, ValueOf DEF Exists
<1>5. Exists(op.id) =>
          Result(got) \in Values /\ Same(suspect, Result(got), remote[op.id])
  <2>1. ASSUME Exists(op.id)
        PROVE  Same(suspect, op.plan, remote[op.id])
    BY <2>1 DEF Inv, WrittenInv
  <2> QED
    BY <1>1, <1>4, <2>1, ResultOf
<1>6. ~Exists(op.id) => Result(got) \in Values
  <2>1. ~Exists(op.id) => got.main = op.plan.main /\ (kind \notin PartialUpdates => got = op.plan)
    BY <1>2 DEF Exists
  <2>2. Same(suspect, op.plan, op.plan)
    BY DEF Same
  <2> QED
    BY <1>1, <1>4, <2>1, <2>2, ResultOf
<1>7. LayoutKept'
  BY DEF Inv, LayoutInv, LayoutKept
<1> QED
  BY <1>1, <1>2, <1>5, <1>6, <1>7, StoringInv DEF Exists

-----------------------------------------------------------------------------
(* The calls.                                                              *)

(* The calls that are left, in each handler.                               *)
LEMMA TodoOf ==
    ASSUME Inv, NEW call, Due(call)
    PROVE  /\ op.kind = "create" => op.todo \in Creations \cup AfterPut
           /\ op.kind = "read" => op.todo \in Reading
           /\ op.kind = "import" => op.todo \in Reading \cup Adopting
           /\ op.kind = "update" => op.todo \in BeforePut \cup AfterPut
           /\ op.kind = "delete" => call = "delete"
           /\ op.kind \in {"create", "read", "import", "update", "delete"}
           /\ op.todo # << >> /\ Head(op.todo) = call
<1>1. op.kind \in Handlers \cup {"delete"} /\ op.todo # << >> /\ Head(op.todo) = call
  BY Active
<1>2. /\ op.kind = "create" => CreateOp
      /\ op.kind = "read" => ReadOp
      /\ op.kind = "import" => ImportOp
      /\ op.kind = "update" => UpdateOp
      /\ op.kind = "delete" => DeleteOp
  BY DEF Inv, OpInv
<1>3. op.kind = "delete" => call = "delete"
  BY <1>1, <1>2, Tuples DEF DeleteOp
<1> QED
  BY <1>1, <1>2, <1>3 DEF CreateOp, ReadOp, ImportOp, UpdateOp, Handlers

(* Which handlers make a call.                                             *)
LEMMA WhoCalls ==
    ASSUME Inv
    PROVE  /\ Due("post") => op.kind = "create" /\ op.todo \in Creations
           /\ Due("put") => op.kind = "update" /\ op.todo \in BeforePut
           /\ Due("head") => op.kind \in {"read", "import"} /\ op.todo \in Reading
           /\ Due("delete") => op.kind = "delete"
           /\ Due("get") \/ Due("lookup") => op.kind \in {"create", "read", "import", "update"}
           /\ Due("get") /\ op.kind = "create" => op.todo \in AfterPut
<1>1. \A todo \in Creations : Head(todo) \in {"post", "lookup"}
  BY CreateCalls
<1>2. \A todo \in Reading : Head(todo) \in {"head", "get", "lookup"}
  BY ReadCalls
<1>3. \A todo \in Adopting : Head(todo) = "get"
  BY AdoptCalls
<1>4. \A todo \in BeforePut : Head(todo) \in {"get", "lookup", "put"}
  BY UpdateCalls
<1>5. \A todo \in AfterPut : Head(todo) \in {"get", "lookup"}
  BY AfterCalls
<1>6. ASSUME Due("post") PROVE op.kind = "create" /\ op.todo \in Creations
  BY <1>1, <1>2, <1>3, <1>4, <1>5, <1>6, TodoOf
<1>7. ASSUME Due("put") PROVE op.kind = "update" /\ op.todo \in BeforePut
  BY <1>1, <1>2, <1>3, <1>4, <1>5, <1>7, TodoOf
<1>8. ASSUME Due("head") PROVE op.kind \in {"read", "import"} /\ op.todo \in Reading
  BY <1>1, <1>2, <1>3, <1>4, <1>5, <1>8, TodoOf
<1>9. ASSUME Due("delete") PROVE op.kind = "delete"
  BY <1>1, <1>2, <1>3, <1>4, <1>5, <1>9, TodoOf
<1>10. ASSUME Due("get") PROVE op.kind \in {"create", "read", "import", "update"}
                               /\ (op.kind = "create" => op.todo \in AfterPut)
  BY <1>1, <1>2, <1>3, <1>4, <1>5, <1>10, TodoOf
<1>11. ASSUME Due("lookup") PROVE op.kind \in {"create", "read", "import", "update"}
  BY <1>1, <1>2, <1>3, <1>4, <1>5, <1>11, TodoOf
<1> QED
  BY <1>6, <1>7, <1>8, <1>9, <1>10, <1>11

(* The tracked object is as it is known while a handler has not written    *)
(* or read.                                                                *)
LEMMA Aligned ==
    ASSUME Inv, state # NoObject, Exists(state.id), op.kind = "update" => op.todo \in BeforePut,
           op.kind = "read" => op.todo # <<"lookup">>
    PROVE  Same(suspect, state.value, remote[state.id])
BY UpdateCalls DEF Inv, StateInv, Ahead

LEMMA LookUpInv ==
    ASSUME Inv, NEW failed \in BOOLEAN, LookUp(failed)
    PROVE  Inv'
<1>1. /\ TypeOK /\ Due("lookup") /\ Failing(failed)
      /\ UNCHANGED <<kind, absence, merges, config, remote, nextId, layout, arranged, raced>>
  BY DEF Inv, LookUp, settings, console
<1>2. /\ op.todo # << >> /\ Head(op.todo) = "lookup"
      /\ op.kind \in {"create", "read", "import", "update"} /\ op.kind \notin {"none", "crashed"}
  BY <1>1, TodoOf, WhoCalls
<1>3. suspect' \subseteq Attributes
  BY <1>1, Doubts DEF LookUp, Fails
<1>4. Rest
  BY <1>1, <1>3, Counting DEF Rest, TypeOK
<1>5. CASE Fails
  BY <1>1, <1>2, <1>4, <1>5, Aborted
<1>6. CASE Goes(op.id, op.got, op.layout) /\ UNCHANGED suspect
  <2>1. CASE op.kind \in {"create", "update"} /\ op.todo \in AfterPut
    BY <1>1, <1>4, <1>6, <2>1, Confirming
  <2>2. CASE op.kind \in {"read", "import"}
    <3>1. op.todo = <<"lookup">> /\ Len(op.todo) = 1 /\ op.got \in Configs
      <4>1. op.todo = <<"lookup">> /\ Len(op.todo) = 1
        BY <1>1, <1>2, <2>2, TodoOf, ReadCalls, AdoptCalls
      <4>2. (op.kind = "read" => ReadOp) /\ (op.kind = "import" => ImportOp)
        BY DEF Inv, OpInv
      <4> QED
        BY <2>2, <4>1, <4>2 DEF ReadOp, ImportOp
    <3>2. op.id \in 1 .. MaxId /\ op.plan \in Values
      <4>1. (op.kind = "read" => ReadOp) /\ (op.kind = "import" => ImportOp)
        BY DEF Inv, OpInv
      <4> QED
        BY <1>1, <2>2, <4>1, Stored, ValueOf DEF ReadOp, ImportOp
    <3>3. Result(op.got) = Refreshed(op.plan, op.got) /\ Result(op.got) \in Values
      BY <1>1, <2>2, <3>1, <3>2, RefreshedOf, ValueOf DEF Result
    <3>4. Exists(op.id) => Same(suspect, Result(op.got), remote[op.id])
      BY <2>2, <3>1, <3>3 DEF Inv, ReadInv
    <3>5. LayoutKept'
      BY <1>1 DEF Inv, LayoutInv, LayoutKept
    <3> QED
      BY <1>1, <1>4, <1>6, <3>1, <3>2, <3>3, <3>4, <3>5, StoringInv DEF Exists
  <2>3. CASE op.kind = "create" /\ op.todo \in Creations
    <3>1. CreateOp /\ op.todo \notin AfterPut
      BY <2>3, CreateCalls DEF Inv, OpInv
    <3>2. op.id = 0 /\ op.got = None /\ nextId <= MaxId /\ op.plan \in Configs /\ state = NoObject
      BY <3>1 DEF CreateOp
    <3>3. Len(op.todo) = 2 /\ Tail(op.todo) = <<"post">>
      BY <1>2, <2>3, CreateCalls
    <3>4. /\ op' \in Ops /\ op'.kind = "create" /\ op'.todo = <<"post">> /\ op'.id = 0
          /\ op'.plan = op.plan /\ op'.got = None /\ state' = state
      <4>1. 0 \in 0 .. MaxId /\ op.layout \in {0, 1} /\ None \in Values \cup {None}
        BY <1>1, Handled, ResourceLifecycleAssumption
      <4>2. Goes(0, None, op.layout) /\ Len(op.todo) # 1
        BY <1>6, <3>2, <3>3
      <4> QED
        BY <1>1, <1>2, <2>3, <3>3, <4>1, <4>2, Going
    <3>5. TypeOK'
      BY <1>1, <1>4, <3>4, RestTyped DEF TypeOK
    <3>6. <<"post">> \in Creations /\ <<"post">>[Len(<<"post">>)] = "post" /\ <<"post">> \notin AfterPut
      BY Different DEF Creations, AfterPut
    <3>7. CreateOp' /\ WrittenInv'
      <4>1. op'.todo \in Creations /\ op'.todo[Len(op'.todo)] = "post" /\ op'.todo \notin AfterPut
        BY <3>4, <3>6
      <4> QED
        BY <1>1, <3>2, <3>4, <4>1 DEF CreateOp, WrittenInv
    <3>8. LayoutKept'
      BY <1>1 DEF Inv, LayoutInv, LayoutKept
    <3> QED
      BY <3>4, <3>5, <3>7, <3>8, InCreate
  <2>4. CASE op.kind = "update" /\ op.todo \in BeforePut
    <3>1. UpdateOp /\ op.todo \notin AfterPut
      BY <2>4, UpdateCalls DEF Inv, OpInv
    <3>2. /\ state # NoObject /\ op.id = state.id /\ op.plan \in Configs
          /\ kind \in Arranges => op.got # None
      <4>1. Head(op.todo) # "get"
        BY <1>2
      <4> QED
        BY <3>1, <4>1 DEF UpdateOp
    <3>3. Len(op.todo) # 1 /\ Tail(op.todo) \in BeforePut /\ Tail(op.todo) \notin AfterPut
      BY <1>2, <2>4, UpdateCalls
    <3>4. /\ op' \in Ops /\ op'.kind = "update" /\ op'.todo = Tail(op.todo) /\ op'.id = op.id
          /\ op'.plan = op.plan /\ op'.got = op.got /\ op'.layout = op.layout /\ state' = state
      <4>1. op.id \in 0 .. MaxId /\ op.layout \in {0, 1} /\ op.got \in Values \cup {None}
        BY <1>1, Handled
      <4> QED
        BY <1>1, <1>2, <1>6, <2>4, <3>3, <4>1, Going
    <3>5. TypeOK'
      BY <1>1, <1>4, <3>4, RestTyped DEF TypeOK
    <3>6. UpdateOp'
      BY <1>1, <3>2, <3>3, <3>4 DEF UpdateOp
    <3>7. WrittenInv'
      BY <3>3, <3>4 DEF WrittenInv
    <3>8. StateInv'
      <4>1. Exists(state.id) => Same(suspect, state.value, remote[state.id])
        BY <2>4, <3>2, Aligned
      <4> QED
        BY <1>1, <1>6, <3>4, <4>1 DEF StateInv, Same, Exists
    <3>9. LayoutInv'
      BY <1>1, <2>4, <3>4 DEF Inv, LayoutInv, LayoutKept
    <3> QED
      BY <3>4, <3>5, <3>6, <3>7, <3>8, <3>9, InUpdate
  <2> QED
    BY <1>1, <1>2, <2>1, <2>2, <2>3, <2>4, TodoOf
<1> QED
  BY <1>5, <1>6 DEF LookUp

LEMMA Posting ==
    ASSUME Inv, Due("post")
    PROVE  /\ TypeOK /\ CreateOp /\ op.kind = "create" /\ op.todo \in Creations
           /\ op.todo # << >> /\ Head(op.todo) = "post" /\ state = NoObject
           /\ NewId \in 1 .. MaxId /\ op.plan \in Configs /\ op.plan \in Values
           /\ kind \notin ReadsBack => op.todo[Len(op.todo)] = "post"
           /\ nextId <= MaxId
<1>1. TypeOK /\ op.kind = "create" /\ op.todo \in Creations /\ CreateOp
      /\ op.todo # << >> /\ Head(op.todo) = "post"
  BY WhoCalls, TodoOf DEF Inv, OpInv
<1>2. op.todo \notin AfterPut
  BY <1>1, CreateCalls
<1>3. nextId <= MaxId /\ nextId \in 1 .. MaxId + 1 /\ 1 \in 1 .. MaxId /\ MaxId \in Nat
  BY <1>1, <1>2, ResourceLifecycleAssumption DEF CreateOp, TypeOK
<1>4. NewId \in 1 .. MaxId
  BY <1>3 DEF NewId
<1> QED
  BY <1>1, <1>2, <1>3, <1>4, ValueOf DEF CreateOp

LEMMA PostEffectOf ==
    ASSUME Inv, Due("post"), PostEffect
    PROVE  /\ remote' \in [1 .. MaxId -> Configs \cup {None}] /\ nextId' \in 1 .. MaxId + 1
           /\ remote'[NewId] = op.plan
           /\ \A id \in 1 .. MaxId : id # NewId => remote'[id] = remote[id]
<1>1. /\ NewId \in 1 .. MaxId /\ op.plan \in Configs /\ TypeOK
      /\ nextId <= MaxId /\ nextId \in 1 .. MaxId + 1 /\ MaxId \in Nat
  BY Posting, ResourceLifecycleAssumption DEF TypeOK
<1>2. nextId' \in {nextId, nextId + 1} /\ remote' = [remote EXCEPT ![NewId] = op.plan]
  BY DEF PostEffect
<1>3. nextId' \in 1 .. MaxId + 1
  BY <1>1, <1>2
<1> QED
  BY <1>1, <1>2, <1>3 DEF TypeOK

LEMMA PostInv ==
    ASSUME Inv, Post
    PROVE  Inv'
<1>1. /\ TypeOK /\ Due("post") /\ PostEffect /\ Goes(NewId, op.plan, op.layout) /\ suspect' = {}
      /\ UNCHANGED <<kind, absence, merges, config, layout, arranged, raced, edits, failures, changes>>
  BY DEF Inv, Post, settings, console, counters
<1>2. /\ op.kind = "create" /\ op.todo \in Creations /\ op.todo # << >> /\ Head(op.todo) = "post"
      /\ state = NoObject /\ NewId \in 1 .. MaxId /\ op.plan \in Configs /\ op.plan \in Values
      /\ kind \notin ReadsBack => op.todo[Len(op.todo)] = "post"
  BY <1>1, Posting
<1>3. /\ remote' \in [1 .. MaxId -> Configs \cup {None}] /\ nextId' \in 1 .. MaxId + 1
      /\ remote'[NewId] = op.plan
  BY <1>1, PostEffectOf
<1>4. Rest
  BY <1>1, <1>3 DEF Rest, TypeOK
<1>5. LayoutKept'
  BY <1>1 DEF Inv, LayoutInv, LayoutKept
<1>6. Same({}, op.plan, op.plan)
  BY DEF Same
<1>7. CASE Len(op.todo) = 1
  <2>1. Result(op.plan) \in Values /\ Same({}, Result(op.plan), op.plan)
    BY <1>1, <1>2, <1>6, ResultOf
  <2> QED
    BY <1>1, <1>2, <1>3, <1>4, <1>5, <1>7, <2>1, StoringInv
<1>8. CASE Len(op.todo) # 1
  <2>1. Tail(op.todo) \in AfterPut /\ op.todo[Len(op.todo)] # "post"
    BY <1>2, <1>8, CreateCalls
  <2>2. kind \in ReadsBack
    BY <1>2, <2>1
  <2>3. /\ op' \in Ops /\ op'.kind = "create" /\ op'.todo = Tail(op.todo) /\ op'.id = NewId
        /\ op'.plan = op.plan /\ op'.got = op.plan /\ state' = state
    <3>1. NewId \in 0 .. MaxId /\ op.layout \in {0, 1} /\ op.plan \in Values \cup {None}
      BY <1>1, <1>2, Handled
    <3> QED
      BY <1>1, <1>2, <1>8, <3>1, Going
  <2>4. TypeOK'
    BY <1>1, <1>4, <2>3, RestTyped DEF TypeOK
  <2>5. CreateOp'
    BY <1>1, <1>2, <2>1, <2>2, <2>3 DEF CreateOp
  <2>6. WrittenInv'
    BY <1>1, <1>3, <2>3 DEF WrittenInv, Same
  <2> QED
    BY <1>5, <2>3, <2>4, <2>5, <2>6, InCreate
<1> QED
  BY <1>7, <1>8

LEMMA PostFailsInv ==
    ASSUME Inv, NEW effect \in BOOLEAN, PostFails(effect)
    PROVE  Inv'
<1>1. /\ TypeOK /\ Due("post") /\ Fails /\ Failing(effect \/ ~Taken)
      /\ UNCHANGED <<kind, absence, merges, config, layout, arranged, raced>>
  BY DEF Inv, PostFails, settings, console
<1>2. remote' \in [1 .. MaxId -> Configs \cup {None}] /\ nextId' \in 1 .. MaxId + 1
  <2>1. CASE PostEffect
    BY <1>1, <2>1, PostEffectOf
  <2>2. CASE UNCHANGED <<remote, nextId>>
    BY <1>1, <2>2 DEF TypeOK
  <2> QED
    BY <2>1, <2>2 DEF PostFails
<1>3. /\ op' = NoOp /\ op' \in Ops /\ op'.kind = "none" /\ suspect' \subseteq Attributes
      /\ state' = state /\ state = NoObject
  BY <1>1, Posting, Doubts, Resting DEF Fails
<1>4. Rest
  BY <1>1, <1>2, <1>3, Counting DEF Rest, TypeOK
<1>5. TypeOK'
  BY <1>1, <1>3, <1>4, RestTyped
<1>6. LayoutKept' /\ CrashesOnlyKnown'
  BY <1>1, <1>3 DEF Inv, LayoutInv, LayoutKept, CrashesOnlyKnown
<1> QED
  BY <1>3, <1>5, <1>6, Ended

LEMMA Putting ==
    ASSUME Inv, Due("put")
    PROVE  /\ TypeOK /\ op.kind = "update" /\ op.todo \in BeforePut /\ op.todo \notin AfterPut
           /\ op.todo # << >> /\ Head(op.todo) = "put" /\ state # NoObject
           /\ op.id = state.id /\ op.id \in 1 .. MaxId /\ op.plan \in Configs
           /\ op.layout \in {0, 1}
           /\ kind \in Arranges => raced \/ op.layout = layout
<1>1. /\ TypeOK /\ op.kind = "update" /\ op.todo \in BeforePut
      /\ op.todo # << >> /\ Head(op.todo) = "put"
  BY WhoCalls, TodoOf DEF Inv
<1>2. UpdateOp /\ op.todo \notin AfterPut
  BY <1>1, UpdateCalls DEF Inv, OpInv
<1>3. /\ state # NoObject /\ op.id = state.id /\ op.plan \in Configs
      /\ kind \in Arranges => op.got # None
  BY <1>1, <1>2 DEF UpdateOp
<1>4. kind \in Arranges => raced \/ op.layout = layout
  BY <1>1, <1>3 DEF Inv, LayoutInv
<1> QED
  BY <1>1, <1>2, <1>3, <1>4, Stored, Handled

LEMMA PutEffectOf ==
    ASSUME Inv, Due("put"), PutEffect
    PROVE  /\ remote' \in [1 .. MaxId -> Configs \cup {None}]
           /\ layout' \in {0, 1} /\ arranged' = arranged /\ raced' = raced /\ LayoutKept'
           /\ remote'[op.id] = Written(remote[op.id], op.plan)
           /\ remote'[op.id] \in Configs /\ remote'[op.id].main = op.plan.main
           /\ kind \notin PartialUpdates => remote'[op.id] = op.plan
<1>1. /\ TypeOK /\ op.id \in 1 .. MaxId /\ op.plan \in Configs /\ op.layout \in {0, 1}
      /\ kind \in Arranges => raced \/ op.layout = layout
  BY Putting
<1>2. remote[op.id] \in Configs
  BY <1>1 DEF TypeOK, PutEffect, Exists
<1> DEFINE new == Written(remote[op.id], op.plan)
<1>3. /\ new \in Configs /\ new.main = op.plan.main
      /\ kind \notin PartialUpdates => new = op.plan
  BY <1>1, <1>2, WrittenOf
<1>4. remote' = [remote EXCEPT ![op.id] = new]
  BY DEF PutEffect
<1> HIDE DEF new
<1>5. remote' \in [1 .. MaxId -> Configs \cup {None}] /\ remote'[op.id] = new
  BY <1>1, <1>3, <1>4 DEF TypeOK
<1>6. /\ arranged' = arranged /\ raced' = raced
      /\ layout' = (IF kind \in Arranges THEN op.layout ELSE layout)
  BY DEF PutEffect
<1>7. layout' \in {0, 1}
  BY <1>1, <1>6 DEF TypeOK
<1>8. LayoutKept'
  BY <1>1, <1>6 DEF Inv, LayoutInv, LayoutKept
<1> QED
  BY <1>3, <1>5, <1>6, <1>7, <1>8 DEF new

LEMMA PutInv ==
    ASSUME Inv, Put
    PROVE  Inv'
<1> DEFINE new == Written(remote[op.id], op.plan)
<1>1. /\ TypeOK /\ Due("put") /\ PutEffect /\ Goes(op.id, new, op.layout) /\ suspect' = {}
      /\ UNCHANGED <<kind, absence, merges, config, nextId, edits, failures, changes>>
  BY DEF Inv, Put, settings, counters
<1>2. /\ op.kind = "update" /\ op.todo \in BeforePut /\ op.todo # << >> /\ Head(op.todo) = "put"
      /\ state # NoObject /\ op.id = state.id /\ op.id \in 1 .. MaxId /\ op.plan \in Configs
      /\ op.layout \in {0, 1}
  BY <1>1, Putting
<1>3. /\ remote' \in [1 .. MaxId -> Configs \cup {None}]
      /\ layout' \in {0, 1} /\ arranged' = arranged /\ raced' = raced /\ LayoutKept'
      /\ remote'[op.id] = new /\ new \in Configs /\ new.main = op.plan.main
      /\ kind \notin PartialUpdates => new = op.plan
  BY <1>1, PutEffectOf
<1>4. new \in Values /\ Same({}, op.plan, new)
  BY <1>3, ValueOf DEF Same
<1> HIDE DEF new
<1>5. Rest
  BY <1>1, <1>3 DEF Rest, TypeOK
<1>6. CASE Len(op.todo) = 1
  <2>1. Result(new) \in Values /\ Same({}, Result(new), new)
    BY <1>1, <1>2, <1>3, <1>4, ResultOf
  <2> QED
    BY <1>1, <1>2, <1>3, <1>5, <1>6, <2>1, StoringInv
<1>7. CASE Len(op.todo) # 1
  <2>1. Tail(op.todo) \in AfterPut /\ Tail(op.todo) \notin BeforePut
    BY <1>2, <1>7, UpdateCalls
  <2>2. /\ op' \in Ops /\ op'.kind = "update" /\ op'.todo = Tail(op.todo) /\ op'.id = op.id
        /\ op'.plan = op.plan /\ op'.got = new /\ state' = state
    <3>1. op.id \in 0 .. MaxId /\ new \in Values \cup {None}
      BY <1>2, <1>4
    <3> QED
      BY <1>1, <1>2, <1>7, <3>1, Going
  <2>3. TypeOK'
    BY <1>1, <1>5, <2>2, RestTyped DEF TypeOK
  <2>4. UpdateOp'
    BY <1>1, <1>2, <1>3, <2>1, <2>2 DEF UpdateOp
  <2>5. StateInv'
    BY <2>1, <2>2 DEF StateInv, Ahead
  <2>6. WrittenInv'
    BY <1>1, <1>3, <1>4, <2>2 DEF WrittenInv, Same
  <2>7. LayoutInv'
    BY <1>3, <2>1, <2>2 DEF LayoutInv
  <2> QED
    BY <2>2, <2>3, <2>4, <2>5, <2>6, <2>7, InUpdate
<1> QED
  BY <1>6, <1>7

LEMMA PutFailsInv ==
    ASSUME Inv, NEW effect \in BOOLEAN, PutFails(effect)
    PROVE  Inv'
<1>1. /\ TypeOK /\ Due("put") /\ op' = NoOp /\ state' = state /\ Failing(effect \/ Exists(op.id))
      /\ UNCHANGED <<kind, absence, merges, config, nextId>>
  BY DEF Inv, PutFails, settings
<1>2. op' \in Ops /\ op'.kind = "none"
  BY <1>1, Resting
<1>3. CASE effect /\ PutEffect /\ suspect' = Attributes
  <2>1. /\ remote' \in [1 .. MaxId -> Configs \cup {None}] /\ LayoutKept'
        /\ layout' \in {0, 1} /\ arranged' = arranged /\ raced' = raced
    BY <1>1, <1>3, PutEffectOf
  <2>2. Rest
    BY <1>1, <1>3, <2>1, Counting DEF Rest, TypeOK
  <2>3. TypeOK'
    BY <1>1, <1>2, <2>2, RestTyped DEF TypeOK
  <2>4. Same(suspect, state.value, remote[state.id])'
    BY <1>3 DEF Same, Attributes
  <2> QED
    BY <1>1, <1>2, <2>1, <2>3, <2>4, Ended DEF CrashesOnlyKnown
<1>4. CASE UNCHANGED <<remote, layout, arranged, raced, suspect>>
  <2>1. Rest
    BY <1>1, <1>4, Counting DEF Rest, TypeOK
  <2>2. TypeOK'
    BY <1>1, <1>2, <2>1, RestTyped DEF TypeOK
  <2>3. state # NoObject /\ Exists(state.id) => Same(suspect, state.value, remote[state.id])
    BY <1>1, Putting, Aligned
  <2>4. state' # NoObject /\ Exists(state.id)' => Same(suspect, state.value, remote[state.id])'
    BY <1>1, <1>4, <2>3 DEF Same, Exists
  <2>5. LayoutKept' /\ CrashesOnlyKnown'
    BY <1>2, <1>4 DEF Inv, LayoutInv, LayoutKept, CrashesOnlyKnown
  <2> QED
    BY <1>1, <1>2, <2>2, <2>4, <2>5, Ended
<1> QED
  BY <1>3, <1>4 DEF PutFails, console

LEMMA ProbeInv ==
    ASSUME Inv, NEW answer \in Answers, Probe(answer)
    PROVE  Inv'
<1>1. /\ TypeOK /\ Due("head") /\ \E failed \in BOOLEAN : Failing(failed)
      /\ UNCHANGED <<kind, absence, merges, config, remote, nextId, layout, arranged, raced>>
  BY DEF Inv, Probe, settings, console
<1>2. /\ op.kind \in {"read", "import"} /\ op.todo \in Reading
      /\ op.todo # << >> /\ Head(op.todo) = "head"
  BY <1>1, WhoCalls, TodoOf
<1>3. suspect' \subseteq Attributes
  BY <1>1, Doubts DEF Probe, Fails, Crashes, Removes
<1>4. Rest
  BY <1>1, <1>3, Counting DEF Rest, TypeOK
<1>5. CASE Goes(op.id, op.got, op.layout) /\ UNCHANGED suspect
  <2>1. Len(op.todo) # 1 /\ Tail(op.todo) = <<"get">> /\ op.todo # <<"lookup">>
    <3>1. Len(op.todo) = 2 /\ Tail(op.todo) = <<"get">>
      BY <1>2, ReadCalls
    <3>2. op.todo # <<"lookup">>
      BY <1>2, Tuples
    <3> QED
      BY <3>1, <3>2
  <2>2. <<"get">> \in Reading /\ <<"get">> # <<"lookup">>
    BY Different DEF Reading, Refreshes
  <2>3. /\ op' \in Ops /\ op'.kind = op.kind /\ op'.todo = <<"get">> /\ op'.id = op.id
        /\ op'.plan = op.plan /\ op'.got = op.got /\ state' = state
    <3>1. op.id \in 0 .. MaxId /\ op.got \in Values \cup {None} /\ op.layout \in {0, 1}
      BY <1>1, Handled
    <3> QED
      BY <1>1, <1>2, <1>5, <2>1, <3>1, Going
  <2>4. TypeOK'
    BY <1>1, <1>4, <2>3, RestTyped DEF TypeOK
  <2>5. op'.todo \in Reading /\ op'.todo # <<"lookup">>
    BY <2>2, <2>3
  <2>6. ReadInv' /\ LayoutKept'
    BY <1>1, <2>5 DEF ReadInv, Inv, LayoutInv, LayoutKept
  <2>7. CASE op.kind = "read"
    <3>1. ReadOp
      BY <2>7 DEF Inv, OpInv
    <3>2. ReadOp'
      BY <2>1, <2>3, <2>5, <3>1 DEF ReadOp
    <3>3. Exists(state.id) => Same(suspect, state.value, remote[state.id])
      BY <2>1, <2>7, <3>1, Aligned DEF ReadOp
    <3>4. StateInv'
      BY <1>1, <1>5, <2>3, <3>3 DEF StateInv, Same, Exists
    <3> QED
      BY <2>3, <2>4, <2>6, <2>7, <3>2, <3>4, InRead
  <2>8. CASE op.kind = "import"
    <3>1. ImportOp
      BY <2>8 DEF Inv, OpInv
    <3>2. ImportOp'
      BY <2>3, <2>5, <3>1 DEF ImportOp
    <3> QED
      BY <2>3, <2>4, <2>6, <2>8, <3>2, InImport
  <2> QED
    BY <1>2, <2>7, <2>8
<1>6. CASE Removes
  BY <1>1, <1>4, <1>6, Removed
<1>7. CASE Fails
  BY <1>1, <1>2, <1>4, <1>7, Aborted
<1>8. CASE "panic" \in Results(client.head, answer) /\ Crashes
  <2>1. client.head \in Readers
    BY <1>1, ResourceLifecycleAssumption DEF client, ClientProfiles, TypeOK
  <2>2. kind \in Brittle
    BY <1>1, <1>8, <2>1, ResultsOf, Classified
  <2> QED
    BY <1>1, <1>2, <1>4, <1>8, <2>2, Aborted
<1> QED
  BY <1>5, <1>6, <1>7, <1>8 DEF Probe

(* An object that is found is one that exists.                             *)
LEMMA FoundExists ==
    ASSUME TypeOK, NEW due, due = IF Exists(op.id) THEN "found" ELSE absence,
           NEW answer \in Failures \cup {due}, "found" \in Results(client.get, answer)
    PROVE  Exists(op.id)
<1>1. client.get \in Readers
  BY ResourceLifecycleAssumption DEF client, ClientProfiles, TypeOK
<1>2. answer = "found" /\ answer \notin Failures
  BY <1>1, ResultsOf DEF Failures
<1> QED
  BY <1>2 DEF TypeOK, Denials

(* A handler reads the object.                                             *)
LEMMA Seen ==
    ASSUME Inv, Rest, Due("get"), Exists(op.id), NEW object, object = remote[op.id],
           Goes(op.id, object, layout), suspect' = Cleared,
           UNCHANGED <<remote, nextId, layout, arranged, raced>>
    PROVE  Inv'
<1>1. /\ TypeOK /\ op.todo # << >> /\ Head(op.todo) = "get"
      /\ op.kind \in {"create", "read", "import", "update"} /\ kind' = kind
      /\ op.kind = "create" => op.todo \in AfterPut
      /\ op.kind = "read" => op.todo \in Reading
      /\ op.kind = "import" => op.todo \in Reading \cup Adopting
      /\ op.kind = "update" => op.todo \in BeforePut \cup AfterPut
      /\ layout \in {0, 1}
  BY WhoCalls, TodoOf DEF Inv, Rest, TypeOK
<1>2. LayoutKept'
  BY DEF Inv, LayoutInv, LayoutKept
<1>3. CASE op.kind \in {"create", "update"} /\ op.todo \in AfterPut
  <2>1. suspect' = suspect
    BY <1>3 DEF Cleared
  <2> QED
    BY <1>3, <2>1, Confirming
<1>4. CASE op.kind \in {"read", "import"}
  <2>1. /\ op.kind = "read" => ReadOp
        /\ op.kind = "import" => ImportOp
    BY DEF Inv, OpInv
  <2>2. op.id \in 1 .. MaxId /\ op.plan \in Values
    BY <1>1, <1>4, <2>1, Stored, ValueOf DEF ReadOp, ImportOp
  <2>3. object \in Configs /\ object \in Values
    BY <1>1, <2>2, ValueOf DEF TypeOK, Exists
  <2>4. op.todo # <<"lookup">>
    BY <1>1, Tuples
  <2>5. Same(suspect', Refreshed(op.plan, object), object)
    <3>1. CASE op.kind = "read"
      <4>1. Same(suspect, op.plan, object)
        BY <2>1, <2>4, <3>1, Aligned DEF ReadOp
      <4>2. suspect' = suspect \ Shown
        BY <3>1 DEF Cleared
      <4> QED
        BY <1>1, <2>2, <2>3, <4>1, <4>2, RefreshedSame
    <3>2. CASE op.kind = "import"
      <4>1. op.plan = Blank /\ suspect' = Attributes \ Shown
        BY <2>1, <3>2 DEF ImportOp, Cleared
      <4> QED
        BY <1>1, <2>3, <4>1, RefreshedBlank
    <3> QED
      BY <1>4, <3>1, <3>2
  <2>6. Result(object) = Refreshed(op.plan, object) /\ Result(object) \in Values
    BY <1>1, <1>4, <2>2, <2>3, RefreshedOf DEF Result
  <2>7. CASE Len(op.todo) = 1
    BY <1>2, <2>2, <2>5, <2>6, <2>7, StoringInv
  <2>8. CASE Len(op.todo) # 1
    <3>1. /\ op' \in Ops /\ op'.kind = op.kind /\ op'.todo = Tail(op.todo) /\ op'.id = op.id
          /\ op'.plan = op.plan /\ op'.got = object /\ state' = state
      <4>1. op.id \in 0 .. MaxId /\ object \in Values \cup {None}
        BY <2>2, <2>3
      <4> QED
        BY <1>1, <2>8, <4>1, Going
    <3>2. TypeOK'
      BY <1>1, <3>1, RestTyped DEF TypeOK
    <3>3. Tail(op.todo) \in Reading
      BY <1>1, <1>4, <2>8, ReadCalls, AdoptCalls DEF Reading
    <3>4. ReadInv'
      BY <1>1, <2>5, <3>1 DEF ReadInv, Refreshed, resource, Same
    <3>5. CASE op.kind = "read"
      <4>1. Tail(op.todo) = <<"lookup">>
        BY <1>1, <2>8, <3>5, ReadCalls
      <4>2. ReadOp'
        BY <2>1, <2>3, <3>1, <3>3, <3>5, <4>1 DEF ReadOp
      <4>3. StateInv'
        BY <3>1, <3>5, <4>1 DEF StateInv, Ahead
      <4> QED
        BY <1>2, <3>1, <3>2, <3>4, <3>5, <4>2, <4>3, InRead
    <3>6. CASE op.kind = "import"
      <4>1. ImportOp'
        BY <2>1, <2>2, <2>3, <3>1, <3>3, <3>6 DEF ImportOp
      <4> QED
        BY <1>2, <3>1, <3>2, <3>4, <3>6, <4>1, InImport
    <3> QED
      BY <1>4, <3>5, <3>6
  <2> QED
    BY <2>7, <2>8
<1>5. CASE op.kind = "update" /\ op.todo \in BeforePut
  <2>1. UpdateOp /\ op.todo \notin AfterPut
    BY <1>5, UpdateCalls DEF Inv, OpInv
  <2>2. state # NoObject /\ op.id = state.id /\ op.plan \in Configs /\ op.id \in 1 .. MaxId
    BY <1>1, <2>1, Stored DEF UpdateOp
  <2>3. object \in Configs /\ object \in Values /\ object # None
    BY <1>1, <2>2, ValueOf DEF TypeOK, Exists
  <2>4. Len(op.todo) # 1 /\ Tail(op.todo) \in BeforePut /\ Tail(op.todo) \notin AfterPut
    BY <1>1, <1>5, UpdateCalls
  <2>5. /\ op' \in Ops /\ op'.kind = "update" /\ op'.todo = Tail(op.todo) /\ op'.id = op.id
        /\ op'.plan = op.plan /\ op'.got = object /\ op'.layout = layout /\ state' = state
    <3>1. op.id \in 0 .. MaxId /\ object \in Values \cup {None}
      BY <2>2, <2>3
    <3> QED
      BY <1>1, <1>5, <2>4, <3>1, Going
  <2>6. TypeOK'
    BY <1>1, <2>5, RestTyped DEF TypeOK
  <2>7. UpdateOp'
    BY <2>2, <2>3, <2>4, <2>5 DEF UpdateOp
  <2>8. WrittenInv'
    BY <2>4, <2>5 DEF WrittenInv
  <2>9. StateInv'
    <3>1. Exists(state.id) => Same(suspect, state.value, remote[state.id])
      BY <1>5, <2>2, Aligned
    <3>2. suspect' = suspect
      BY <1>5 DEF Cleared
    <3> QED
      BY <1>1, <2>5, <3>1, <3>2 DEF StateInv, Same, Exists
  <2>10. LayoutInv'
    BY <1>2, <2>5 DEF LayoutInv
  <2> QED
    BY <2>5, <2>6, <2>7, <2>8, <2>9, <2>10, InUpdate
<1> QED
  BY <1>1, <1>3, <1>4, <1>5

LEMMA GetAbsentInv ==
    ASSUME Inv, Rest, Due("get"), GetAbsent,
           UNCHANGED <<remote, nextId, layout, arranged, raced>>
    PROVE  Inv'
<1>1. /\ TypeOK /\ op.todo # << >> /\ Head(op.todo) = "get"
      /\ op.kind \in {"create", "read", "import", "update"} /\ kind' = kind
      /\ op.kind = "create" => op.todo \in AfterPut
      /\ op.kind = "update" => op.todo \in BeforePut \cup AfterPut
      /\ op.layout \in {0, 1}
  BY WhoCalls, TodoOf, Handled DEF Inv, Rest
<1>2. \E handler \in Handlers : AbsentFor = resource.absent[handler]
  BY <1>1 DEF AbsentFor, Handlers
<1>3. op.kind \in {"read", "import"} => AbsentFor # "kept"
  BY <1>1, Profile DEF AbsentFor
<1>4. CASE Removes
  BY <1>4, Removed
<1>5. CASE Fails
  BY <1>1, <1>5, Aborted
<1>6. CASE AbsentFor = "panic" /\ Crashes
  <2>1. kind \in Brittle
    BY <1>1, <1>2, <1>6, Classified
  <2> QED
    BY <1>1, <1>6, <2>1, Aborted
<1>7. CASE /\ AbsentFor = "kept" /\ op.kind \in {"create", "update"}
           /\ Goes(op.id, op.plan, op.layout) /\ UNCHANGED suspect
  <2>1. CASE op.todo \in AfterPut
    BY <1>7, <2>1, Confirming
  <2>2. CASE op.kind = "update" /\ op.todo \in BeforePut
    <3>1. UpdateOp /\ op.todo \notin AfterPut
      BY <2>2, UpdateCalls DEF Inv, OpInv
    <3>2. state # NoObject /\ op.id = state.id /\ op.plan \in Configs /\ op.id \in 1 .. MaxId
      BY <1>1, <3>1, Stored DEF UpdateOp
    <3>3. op.plan \in Values /\ op.plan # None
      BY <3>2, ValueOf
    <3>4. kind \notin Arranges
      BY <1>1, <1>7, <2>2, Classified DEF AbsentFor
    <3>5. Len(op.todo) # 1 /\ Tail(op.todo) \in BeforePut /\ Tail(op.todo) \notin AfterPut
      BY <1>1, <2>2, UpdateCalls
    <3>6. /\ op' \in Ops /\ op'.kind = "update" /\ op'.todo = Tail(op.todo) /\ op'.id = op.id
          /\ op'.plan = op.plan /\ op'.got = op.plan /\ state' = state
      <4>1. op.id \in 0 .. MaxId /\ op.plan \in Values \cup {None}
        BY <3>2, <3>3
      <4> QED
        BY <1>1, <1>7, <2>2, <3>5, <4>1, Going
    <3>7. TypeOK'
      BY <1>1, <3>6, RestTyped DEF TypeOK
    <3>8. UpdateOp'
      BY <3>2, <3>3, <3>5, <3>6 DEF UpdateOp
    <3>9. WrittenInv'
      BY <3>5, <3>6 DEF WrittenInv
    <3>10. StateInv'
      <4>1. Exists(state.id) => Same(suspect, state.value, remote[state.id])
        BY <2>2, <3>2, Aligned
      <4> QED
        BY <1>1, <1>7, <3>6, <4>1 DEF StateInv, Same, Exists
    <3>11. LayoutInv'
      BY <1>1, <3>4 DEF Inv, LayoutInv, LayoutKept
    <3> QED
      BY <3>6, <3>7, <3>8, <3>9, <3>10, <3>11, InUpdate
  <2> QED
    BY <1>1, <1>7, <2>1, <2>2
<1> QED
  BY <1>1, <1>3, <1>4, <1>5, <1>6, <1>7 DEF GetAbsent

LEMMA GetInv ==
    ASSUME Inv, NEW answer \in Answers, Get(answer)
    PROVE  Inv'
<1> DEFINE due == IF Exists(op.id) THEN "found" ELSE absence
<1>1. /\ TypeOK /\ Due("get") /\ answer \in Failures \cup {due} /\ Failing(answer # due)
      /\ UNCHANGED <<kind, absence, merges, config, remote, nextId, layout, arranged, raced>>
  BY DEF Inv, Get, settings, console
<1>2. op.kind \notin {"none", "crashed"}
  BY <1>1, WhoCalls
<1>3. suspect' \subseteq Attributes
  BY <1>1, Doubts DEF Get, GetAbsent, Fails, Crashes, Removes
<1>4. Rest
  <2>1. edits' \in Nat /\ failures' \in Nat /\ changes' \in Nat
    BY <1>1, Counting
  <2> QED
    BY <1>1, <1>3, <2>1 DEF Rest, TypeOK
<1>5. client.get \in Readers
  BY <1>1, ResourceLifecycleAssumption DEF client, ClientProfiles, TypeOK
<1>6. CASE "found" \in Results(client.get, answer) /\ Goes(op.id, remote[op.id], layout)
           /\ suspect' = Cleared
  <2>1. Exists(op.id)
    BY <1>1, <1>6, FoundExists
  <2> QED
    BY <1>1, <1>4, <1>6, <2>1, Seen
<1>7. CASE GetAbsent
  BY <1>1, <1>4, <1>7, GetAbsentInv
<1>8. CASE Fails
  BY <1>1, <1>2, <1>4, <1>8, Aborted
<1>9. CASE "panic" \in Results(client.get, answer) /\ Crashes
  <2>1. kind \in Brittle
    BY <1>1, <1>5, <1>9, ResultsOf, Classified
  <2> QED
    BY <1>1, <1>2, <1>4, <1>9, <2>1, Aborted
<1> QED
  BY <1>6, <1>7, <1>8, <1>9 DEF Get

LEMMA DestroyInv ==
    ASSUME Inv, NEW answer \in Answers, NEW effect \in BOOLEAN, Destroy(answer, effect)
    PROVE  Inv'
<1>1. /\ TypeOK /\ Due("delete") /\ \E failed \in BOOLEAN : Failing(failed)
      /\ UNCHANGED <<kind, absence, merges, config, nextId, layout, arranged, raced>>
  BY DEF Inv, Destroy, settings, console
<1>2. op.kind = "delete"
  BY <1>1, WhoCalls
<1>3. DeleteOp
  BY <1>2 DEF Inv, OpInv
<1>4. /\ state # NoObject /\ op.id = state.id /\ state.id \in 1 .. MaxId /\ op.got = None
      /\ InDoubt = suspect
  BY <1>1, <1>3, Stored DEF DeleteOp, InDoubt
<1>5. remote' \in {remote, [remote EXCEPT ![op.id] = None]}
  BY DEF Destroy
<1>6. remote' \in [1 .. MaxId -> Configs \cup {None}] /\ remote'[state.id] \in {remote[state.id], None}
  BY <1>1, <1>4, <1>5 DEF TypeOK
<1>7. suspect' \subseteq Attributes
  BY <1>1, Doubts DEF Destroy, Fails, Removes
<1>8. Rest
  BY <1>1, <1>6, <1>7, Counting DEF Rest, TypeOK
<1>9. CASE Removes
  BY <1>1, <1>8, <1>9, Removed
<1>10. CASE Fails
  <2>1. op' = NoOp /\ op' \in Ops /\ op'.kind = "none" /\ state' = state /\ suspect' = suspect
    BY <1>4, <1>10, Resting DEF Fails
  <2>2. TypeOK'
    BY <1>1, <1>8, <2>1, RestTyped DEF TypeOK
  <2>3. Exists(state.id) => Same(suspect, state.value, remote[state.id])
    BY <1>2, <1>4, Aligned
  <2>4. Exists(state.id)' => Same(suspect, state.value, remote[state.id])'
    BY <1>1, <1>6, <2>1, <2>3 DEF Exists, Same
  <2>5. LayoutKept' /\ CrashesOnlyKnown'
    BY <1>1, <2>1 DEF Inv, LayoutInv, LayoutKept, CrashesOnlyKnown
  <2> QED
    BY <2>1, <2>2, <2>4, <2>5, Ended
<1> QED
  BY <1>9, <1>10 DEF Destroy

LEMMA RestartInv ==
    ASSUME Inv, Restart
    PROVE  Inv'
<1>1. /\ TypeOK /\ op.kind = "crashed" /\ op' = NoOp /\ op' \in Ops /\ op'.kind = "none"
      /\ UNCHANGED <<kind, state, remote, suspect, layout, arranged, raced>>
  BY Resting DEF Inv, Restart, settings, console
<1>2. Rest
  BY <1>1 DEF Restart, settings, console, counters, Rest, TypeOK
<1>3. TypeOK'
  BY <1>1, <1>2, RestTyped DEF TypeOK
<1>4. state # NoObject /\ Exists(state.id) => Same(suspect, state.value, remote[state.id])
  BY <1>1, Aligned
<1>5. state' # NoObject /\ Exists(state.id)' => Same(suspect, state.value, remote[state.id])'
  BY <1>1, <1>4 DEF Exists, Same
<1>6. LayoutKept' /\ CrashesOnlyKnown'
  BY <1>1 DEF Inv, LayoutInv, LayoutKept, CrashesOnlyKnown
<1> QED
  BY <1>1, <1>3, <1>5, <1>6, Ended

-----------------------------------------------------------------------------
(* The console.                                                            *)
LEMMA Undisturbed ==
    ASSUME Inv, TypeOK', UNCHANGED <<kind, op, state, nextId>>, LayoutInv',
           \A id \in 1 .. MaxId : remote'[id] # None =>
              /\ remote[id] # None
              /\ \A value \in Values : Same(suspect, value, remote[id]) =>
                                          Same(suspect', value, remote'[id])
    PROVE  Inv'
<1>1. OpInv' /\ CrashesOnlyKnown' /\ TypeOK
  BY DEF Inv, OpInv, CreateOp, ReadOp, ImportOp, UpdateOp, DeleteOp, CrashesOnlyKnown
<1>2. StateInv'
  <2>1. SUFFICES ASSUME state # NoObject, remote'[state.id] # None, ~Ahead
                 PROVE  Same(suspect', state.value, remote'[state.id])
    BY DEF StateInv, Ahead, Exists, Same
  <2>2. state.id \in 1 .. MaxId /\ state.value \in Values
    BY <1>1, <2>1, Stored
  <2>3. Same(suspect, state.value, remote[state.id])
    BY <2>1, <2>2 DEF Inv, StateInv, Exists
  <2> QED
    BY <2>1, <2>2, <2>3
<1>3. WrittenInv'
  <2>1. SUFFICES ASSUME op.kind \in {"create", "update"}, op.todo \in AfterPut,
                        remote'[op.id] # None
                 PROVE  Same(suspect', op.plan, remote'[op.id])
    BY DEF WrittenInv, Exists, Same
  <2>2. op.id \in 1 .. MaxId /\ op.plan \in Values
    BY <2>1, AfterOp, ValueOf
  <2>3. Same(suspect, op.plan, remote[op.id])
    BY <2>1, <2>2 DEF Inv, WrittenInv, Exists
  <2> QED
    BY <2>1, <2>2, <2>3
<1>4. ReadInv'
  <2> DEFINE value == Refreshed(op.plan, op.got)
  <2>1. SUFFICES ASSUME op.kind \in {"read", "import"}, op.todo = <<"lookup">>,
                        remote'[op.id] # None
                 PROVE  Same(suspect', value, remote'[op.id])
    BY DEF ReadInv, Exists, Same, Refreshed, resource
  <2>2. (op.kind = "read" => ReadOp) /\ (op.kind = "import" => ImportOp)
    BY DEF Inv, OpInv
  <2>3. op.id \in 1 .. MaxId /\ op.plan \in Values /\ op.got \in Values
    BY <1>1, <2>1, <2>2, Stored, ValueOf DEF ReadOp, ImportOp
  <2>4. value \in Values
    BY <1>1, <2>3, RefreshedOf
  <2>5. Same(suspect, value, remote[op.id])
    BY <2>1, <2>3 DEF Inv, ReadInv, Exists
  <2> HIDE DEF value
  <2> QED
    BY <2>1, <2>3, <2>4, <2>5
<1> QED
  BY <1>1, <1>2, <1>3, <1>4 DEF Inv

LEMMA KnownIds ==
    ASSUME TypeOK, NEW id \in Known
    PROVE  id \in 1 .. MaxId
<1>1. state.id \in 0 .. MaxId /\ op.id \in 0 .. MaxId /\ MaxId \in Nat
  BY Handled, Stored, ResourceLifecycleAssumption DEF NoObject
<1> QED
  BY <1>1 DEF Known

LEMMA LayoutSame ==
    ASSUME Inv, UNCHANGED <<kind, op, layout, arranged, raced>>
    PROVE  LayoutInv'
BY DEF Inv, LayoutInv, LayoutKept

LEMMA ChangeOutsideInv ==
    ASSUME Inv, NEW id \in Known, NEW attribute \in Attributes,
           NEW value \in IF attribute = "main" THEN Mains ELSE {Given, Unset},
           ChangeOutside(id, attribute, value)
    PROVE  Inv'
<1>1. /\ TypeOK /\ id \in 1 .. MaxId /\ remote[id] \in Configs
      /\ UNCHANGED <<kind, absence, merges, config, state, nextId, op, layout, arranged, raced>>
      /\ edits' \in Nat /\ failures' \in Nat /\ changes' \in Nat
      /\ suspect' = suspect \cup {attribute} /\ suspect' \subseteq Attributes
  BY KnownIds DEF Inv, TypeOK, ChangeOutside, Outside, settings, console, Exists
<1> DEFINE object == remote[id]
           new == [object EXCEPT ![attribute] = value]
<1>2. remote' = [remote EXCEPT ![id] = new]
  BY DEF ChangeOutside
<1>3. /\ new \in Configs
      /\ attribute = "main" => new.optional = object.optional
      /\ attribute = "optional" => new.main = object.main
  <2>1. object = [optional |-> object.optional, main |-> object.main]
        /\ object.optional \in {Given, Unset} /\ object.main \in Mains
    BY <1>1 DEF Configs
  <2>2. CASE attribute = "main"
    <3>1. new = [optional |-> object.optional, main |-> value] /\ value \in Mains
      BY <2>1, <2>2
    <3> QED
      BY <2>1, <2>2, <3>1 DEF Configs
  <2>3. CASE attribute = "optional"
    <3>1. new = [optional |-> value, main |-> object.main] /\ value \in {Given, Unset}
      BY <2>1, <2>3
    <3> QED
      BY <2>1, <2>3, <3>1 DEF Configs
  <2> QED
    BY <2>2, <2>3 DEF Attributes
<1>4. \A known \in Values : Same(suspect, known, object) => Same(suspect', known, new)
  BY <1>1, <1>3 DEF Same, Attributes
<1> HIDE DEF new
<1>5. remote' \in [1 .. MaxId -> Configs \cup {None}]
  BY <1>1, <1>2, <1>3 DEF TypeOK
<1>6. TypeOK'
  BY <1>1, <1>5 DEF TypeOK
<1>7. \A other \in 1 .. MaxId : remote'[other] # None =>
          /\ remote[other] # None
          /\ \A known \in Values : Same(suspect, known, remote[other]) =>
                                      Same(suspect', known, remote'[other])
  <2>1. TAKE other \in 1 .. MaxId
  <2>2. CASE other = id
    BY <1>1, <1>2, <1>4, <2>2, ValueOf DEF TypeOK
  <2>3. CASE other # id
    <3>1. remote'[other] = remote[other]
      BY <1>1, <1>2, <2>3 DEF TypeOK
    <3> QED
      BY <1>1, <3>1 DEF Same
  <2> QED
    BY <2>2, <2>3
<1>8. LayoutInv'
  BY <1>1, LayoutSame
<1> QED
  BY <1>1, <1>6, <1>7, <1>8, Undisturbed

LEMMA DeleteOutsideInv ==
    ASSUME Inv, NEW id \in Known, DeleteOutside(id)
    PROVE  Inv'
<1>1. /\ TypeOK /\ id \in 1 .. MaxId /\ remote' = [remote EXCEPT ![id] = None]
      /\ UNCHANGED <<kind, absence, merges, config, state, nextId, op, layout, arranged, raced, suspect>>
      /\ edits' \in Nat /\ failures' \in Nat /\ changes' \in Nat
  BY KnownIds DEF Inv, TypeOK, DeleteOutside, Outside, settings, console
<1>2. TypeOK'
  BY <1>1 DEF TypeOK
<1>3. \A other \in 1 .. MaxId : remote'[other] # None => remote'[other] = remote[other]
  BY <1>1 DEF TypeOK
<1>4. LayoutInv'
  BY <1>1, LayoutSame
<1> QED
  BY <1>1, <1>2, <1>3, <1>4, Undisturbed

LEMMA RearrangeInv ==
    ASSUME Inv, Rearrange
    PROVE  Inv'
<1>1. /\ TypeOK /\ layout' \in {0, 1} /\ arranged' = layout'
      /\ raced' = (op.kind = "update" /\ op.got # None)
      /\ UNCHANGED <<kind, absence, merges, config, state, nextId, op, remote, suspect>>
      /\ edits' \in Nat /\ failures' \in Nat /\ changes' \in Nat
  BY DEF Inv, TypeOK, Rearrange, Outside, settings
<1>2. TypeOK'
  BY <1>1 DEF TypeOK
<1>3. LayoutInv'
  BY <1>1 DEF LayoutInv, LayoutKept
<1> QED
  BY <1>1, <1>2, <1>3, Undisturbed

-----------------------------------------------------------------------------
LEMMA NextInv ==
    ASSUME Inv, [Next]_vars
    PROVE  Inv'
<1>1. CASE Apply
  BY <1>1, BeginCreateInv, BeginUpdateInv, BeginDeleteInv DEF Apply
<1>2. CASE BeginRead
  BY <1>2, BeginReadInv
<1>3. CASE Handler
  BY <1>3, LookUpInv, PostInv, PutInv, PostFailsInv, PutFailsInv, ProbeInv, GetInv, DestroyInv,
     RestartInv DEF Handler
<1>4. CASE Environment
  <2>1. ASSUME NEW new \in Configs \cup {None}, EditConfig(new)
        PROVE  Inv'
    BY <2>1, EditConfigInv
  <2>2. ASSUME NEW id \in 1 .. MaxId, Import(id)
        PROVE  Inv'
    BY <2>2, ImportInv
  <2>3. ASSUME NEW id \in Known, NEW value \in {Given, Unset}, ChangeOutside(id, "optional", value)
        PROVE  Inv'
    BY <2>3, ChangeOutsideInv DEF Attributes
  <2>4. ASSUME NEW id \in Known, NEW value \in Mains, ChangeOutside(id, "main", value)
        PROVE  Inv'
    BY <2>4, ChangeOutsideInv DEF Attributes
  <2>5. ASSUME NEW id \in Known, DeleteOutside(id)
        PROVE  Inv'
    BY <2>5, DeleteOutsideInv
  <2> QED
    BY <1>4, <2>1, <2>2, <2>3, <2>4, <2>5, RearrangeInv DEF Environment
<1>5. CASE UNCHANGED vars
  <2>1. /\ UNCHANGED <<kind, op, state, nextId, remote, suspect, layout, arranged, raced>>
        /\ TypeOK /\ TypeOK'
    BY <1>5 DEF Inv, vars, TypeOK
  <2>2. LayoutInv'
    BY <2>1, LayoutSame
  <2>3. \A id \in 1 .. MaxId : remote'[id] # None =>
            /\ remote[id] # None
            /\ \A value \in Values : Same(suspect, value, remote[id]) =>
                                        Same(suspect', value, remote'[id])
    BY <2>1
  <2> QED
    BY <2>1, <2>2, <2>3, Undisturbed
<1> QED
  BY <1>1, <1>2, <1>3, <1>4, <1>5 DEF Next

(* The invariant holds in every state of the specification.                *)
THEOREM Invariance == Spec => []Inv
<1>1. Init => Inv
  BY InitInv
<1>2. Inv /\ [Next]_vars => Inv'
  BY NextInv
<1> QED
  BY <1>1, <1>2, PTL DEF Spec

(* Every variable keeps its type: what a handler stores is an object with  *)
(* an id that the service has given.                                       *)
THEOREM TypeCorrect == Spec => []TypeOK
<1>1. Inv => TypeOK
  BY DEF Inv
<1> QED
  BY <1>1, Invariance, PTL

(* A handler panics in no other kind than the Brittle ones.                *)
THEOREM CrashesOnly == Spec => []CrashesOnlyKnown
<1>1. Inv => CrashesOnlyKnown
  BY DEF Inv
<1> QED
  BY <1>1, Invariance, PTL

(* Between two handlers what is tracked is what the service has, but for   *)
(* the attributes in doubt.                                                *)
THEOREM Exactness == Spec => []StateIsExact
<1>1. Inv => StateIsExact
  <2>1. Idle => ~Ahead
    BY DEF Idle, Ahead
  <2> QED
    BY <2>1 DEF Inv, StateInv, Same, StateIsExact
<1> QED
  BY <1>1, Invariance, PTL

(* An update that was not raced leaves the console's part of an object as  *)
(* the console has it.                                                     *)
THEOREM LayoutIsKept == Spec => []LayoutKept
<1>1. Inv => LayoutKept
  BY DEF Inv, LayoutInv
<1> QED
  BY <1>1, Invariance, PTL

-----------------------------------------------------------------------------
(* No object is lost.                                                      *)
LEMMA GoesTo ==
    ASSUME NEW id, NEW got, NEW seen, Goes(id, got, seen)
    PROVE  \/ state' = state /\ Len(op.todo) # 1
           \/ state'.id = id /\ state'.value = Result(got) /\ op' = NoOp /\ Len(op.todo) = 1
BY DEF Goes

LEMMA StateMoves ==
    ASSUME Inv, [Next]_vars
    PROVE  \/ state' = state
           \/ \E failed \in BOOLEAN : LookUp(failed)
           \/ Post
           \/ Put
           \/ \E answer \in Answers : Probe(answer) \/ Get(answer)
           \/ \E answer \in Answers, effect \in BOOLEAN : Destroy(answer, effect)
<1>1. CASE Apply
  BY <1>1 DEF Apply, BeginCreate, BeginUpdate, BeginDelete
<1>2. CASE BeginRead
  BY <1>2 DEF BeginRead
<1>3. CASE Handler
  BY <1>3 DEF Handler, PostFails, Fails, PutFails, Restart
<1>4. CASE Environment
  BY <1>4 DEF Environment, EditConfig, Import, ChangeOutside, DeleteOutside, Rearrange, Outside
<1>5. CASE UNCHANGED vars
  BY <1>5 DEF vars
<1> QED
  BY <1>1, <1>2, <1>3, <1>4, <1>5 DEF Next

(* A handler of a tracked object has its id.                               *)
LEMMA Handles ==
    ASSUME Inv, NEW call, Due(call), state # NoObject
    PROVE  op.id = state.id /\ op.kind \in {"read", "update", "delete"}
<1>1. op.kind \in {"create", "read", "import", "update", "delete"}
  BY TodoOf
<1>2. /\ op.kind = "create" => CreateOp
      /\ op.kind = "read" => ReadOp
      /\ op.kind = "import" => ImportOp
      /\ op.kind = "update" => UpdateOp
      /\ op.kind = "delete" => DeleteOp
  BY DEF Inv, OpInv
<1> QED
  BY <1>1, <1>2 DEF CreateOp, ReadOp, ImportOp, UpdateOp, DeleteOp

LEMMA ReadersOf ==
    ASSUME TypeOK
    PROVE  client.head \in Readers /\ client.get \in Readers /\ client.delete \in Readers
BY ResourceLifecycleAssumption DEF client, ClientProfiles, TypeOK

(* An object that exists is taken for gone only where errors are trusted.  *)
LEMMA TakenForGone ==
    ASSUME TypeOK, NEW reader \in {client.head, client.get, client.delete},
           NEW answer \in Failures \cup {"found"}, "gone" \in Results(reader, answer)
    PROVE  kind \in TrustsErrors
<1>1. answer # "found" /\ answer \in reader.gone \cup reader.unclear
  BY ReadersOf, ResultsOf
<1>2. Trusting(reader)
  BY <1>1 DEF Trusting
<1> QED
  BY <1>2, Classified

LEMMA StaysTracked ==
    ASSUME Inv, [Next]_vars, state # NoObject, Exists(state.id), remote'[state.id] # None
    PROVE  state'.id = state.id \/ kind \in TrustsErrors
<1>1. TypeOK /\ state.id \in 1 .. MaxId
  BY Stored DEF Inv
<1>2. ASSUME NEW failed \in BOOLEAN, LookUp(failed)
      PROVE  state'.id = state.id
  <2>1. op.id = state.id
    BY <1>2, Handles DEF LookUp
  <2> QED
    BY <1>2, <2>1, GoesTo DEF LookUp, Fails
<1>3. ~Post
  BY Posting DEF Post
<1>4. ASSUME Put
      PROVE  state'.id = state.id
  <2>1. op.id = state.id
    BY <1>4, Handles DEF Put
  <2> QED
    BY <1>4, <2>1, GoesTo DEF Put
<1>5. ASSUME NEW answer \in Answers, Probe(answer)
      PROVE  state'.id = state.id \/ kind \in TrustsErrors
  <2>1. op.id = state.id
    BY <1>5, Handles DEF Probe
  <2>2. answer \in Failures \cup {"found"}
    BY <1>5, <2>1 DEF Probe
  <2>3. CASE "gone" \in Results(client.head, answer)
    BY <1>1, <2>2, <2>3, TakenForGone
  <2>4. CASE Goes(op.id, op.got, op.layout) \/ Fails \/ Crashes
    BY <2>1, <2>4, GoesTo DEF Fails, Crashes
  <2> QED
    BY <1>5, <2>3, <2>4 DEF Probe
<1>6. ASSUME NEW answer \in Answers, Get(answer)
      PROVE  state'.id = state.id \/ kind \in TrustsErrors
  <2>1. op.id = state.id
    BY <1>6, Handles DEF Get
  <2>2. answer \in Failures \cup {"found"}
    BY <1>6, <2>1 DEF Get
  <2>3. CASE "gone" \in Results(client.get, answer)
    BY <1>1, <2>2, <2>3, TakenForGone
  <2>4. CASE Goes(op.id, remote[op.id], layout) \/ Fails \/ Crashes
    BY <2>1, <2>4, GoesTo DEF Fails, Crashes
  <2> QED
    BY <1>6, <2>3, <2>4 DEF Get
<1>7. ASSUME NEW answer \in Answers, NEW effect \in BOOLEAN, Destroy(answer, effect)
      PROVE  state'.id = state.id \/ kind \in TrustsErrors
  <2>1. op.id = state.id
    BY <1>7, Handles DEF Destroy
  <2>2. answer \in Failures \cup {"found"} /\ (answer = "found" => effect)
    BY <1>7, <2>1 DEF Destroy
  <2>3. ~effect
    <3>1. effect => remote' = [remote EXCEPT ![state.id] = None]
      BY <1>7, <2>1 DEF Destroy
    <3> QED
      BY <1>1, <3>1 DEF TypeOK
  <2>4. CASE "gone" \in Results(client.delete, answer)
    BY <1>1, <2>2, <2>4, TakenForGone
  <2>5. "found" \notin Results(client.delete, answer)
    BY <1>1, <2>2, <2>3, ReadersOf, ResultsOf
  <2>6. CASE Fails
    BY <2>6 DEF Fails
  <2> QED
    BY <1>7, <2>4, <2>5, <2>6 DEF Destroy
<1>8. CASE state' = state
  BY <1>8
<1> QED
  BY <1>2, <1>3, <1>4, <1>5, <1>6, <1>7, <1>8, StateMoves

(* What a step does to the objects of the service.                         *)
LEMMA ObjectsMove ==
    ASSUME Inv, [Next]_vars, NEW id \in 1 .. MaxId, remote[id] = None, remote'[id] # None
    PROVE  Post \/ \E effect \in BOOLEAN : PostFails(effect)
<1>1. TypeOK
  BY DEF Inv
<1>2. remote' # remote
  OBVIOUS
<1>3. ~PutEffect
  BY <1>1 DEF PutEffect, Exists, TypeOK
<1>4. ASSUME NEW other, remote' = [remote EXCEPT ![other] = None]
      PROVE  FALSE
  BY <1>1, <1>4 DEF TypeOK
<1>5. ASSUME NEW other, NEW attribute, NEW value, ChangeOutside(other, attribute, value)
      PROVE  FALSE
  <2> DEFINE new == [remote[other] EXCEPT ![attribute] = value]
  <2>1. remote' = [remote EXCEPT ![other] = new] /\ remote[other] # None
    BY <1>5 DEF ChangeOutside, Exists
  <2> HIDE DEF new
  <2> QED
    BY <1>1, <2>1 DEF TypeOK
<1>6. CASE Apply
  BY <1>2, <1>6 DEF Apply, BeginCreate, BeginUpdate, BeginDelete
<1>7. CASE BeginRead
  BY <1>2, <1>7 DEF BeginRead
<1>8. CASE Handler
  <2>1. ASSUME NEW failed \in BOOLEAN, LookUp(failed) PROVE FALSE
    BY <1>2, <2>1 DEF LookUp
  <2>2. ~Put
    BY <1>3 DEF Put
  <2>3. ASSUME NEW effect \in BOOLEAN, PutFails(effect) PROVE FALSE
    BY <1>2, <1>3, <2>3 DEF PutFails
  <2>4. ASSUME NEW answer \in Answers, Probe(answer) \/ Get(answer) PROVE FALSE
    BY <1>2, <2>4 DEF Probe, Get
  <2>5. ASSUME NEW answer \in Answers, NEW effect \in BOOLEAN, Destroy(answer, effect) PROVE FALSE
    BY <1>2, <1>4, <2>5 DEF Destroy
  <2>6. ~Restart
    BY <1>2 DEF Restart
  <2> QED
    BY <1>8, <2>1, <2>2, <2>3, <2>4, <2>5, <2>6 DEF Handler
<1>9. CASE Environment
  <2>1. ASSUME NEW new, EditConfig(new) PROVE FALSE
    BY <1>2, <2>1 DEF EditConfig
  <2>2. ASSUME NEW other, Import(other) PROVE FALSE
    BY <1>2, <2>2 DEF Import
  <2>3. ASSUME NEW other, DeleteOutside(other) PROVE FALSE
    BY <1>4, <2>3 DEF DeleteOutside
  <2>4. ~Rearrange
    BY <1>2 DEF Rearrange
  <2> QED
    BY <1>5, <1>9, <2>1, <2>2, <2>3, <2>4 DEF Environment
<1>10. CASE UNCHANGED vars
  BY <1>2, <1>10 DEF vars
<1> QED
  BY <1>6, <1>7, <1>8, <1>9, <1>10 DEF Next

(* An object appears as the tracked one, as the one of the handler, or by  *)
(* a call whose answer is lost.                                            *)
LEMMA Appears ==
    ASSUME Inv, [Next]_vars, NEW id \in 1 .. MaxId, remote[id] = None, remote'[id] # None
    PROVE  Tracked(id)' \/ failures' > failures
<1>1. CASE Post
  <2>1. /\ Due("post") /\ PostEffect /\ Goes(NewId, op.plan, op.layout) /\ TypeOK
    BY <1>1 DEF Inv, Post
  <2>2. id = NewId
    BY <2>1, PostEffectOf
  <2>3. CASE Len(op.todo) = 1
    BY <2>1, <2>2, <2>3, GoesTo DEF Tracked
  <2>4. CASE Len(op.todo) # 1
    <3>1. /\ NewId \in 0 .. MaxId /\ op.layout \in {0, 1} /\ op.plan \in Values \cup {None}
          /\ op.todo # << >> /\ op.kind = "create"
      BY <2>1, Posting, Handled
    <3>2. op'.kind = "create" /\ op'.id = NewId
      BY <2>1, <2>4, <3>1, Going
    <3> QED
      BY <2>2, <3>2 DEF Tracked
  <2> QED
    BY <2>3, <2>4
<1>2. ASSUME NEW effect \in BOOLEAN, PostFails(effect)
      PROVE  failures' > failures
  <2>1. effect
    BY <1>2 DEF PostFails
  <2>2. failures' = failures + 1 /\ failures \in Nat
    BY <1>2, <2>1 DEF PostFails, Failing, Inv, TypeOK
  <2> QED
    BY <2>2
<1> QED
  BY <1>1, <1>2, ObjectsMove

(* No handler loses an object that exists, but for the kinds whose Create  *)
(* reads back and those that trust an error.                               *)
THEOREM ObjectsAreKept == Spec => NeverLost
<1> DEFINE Kept(id) ==
      /\ Tracked(id) /\ Exists(id) /\ Exists(id)' =>
           \/ Tracked(id)'
           \/ kind \in IF op.kind = "create" THEN ReadsBack ELSE TrustsErrors
      /\ ~Exists(id) /\ Exists(id)' => Tracked(id)' \/ failures' > failures
<1>1. ASSUME Inv, [Next]_vars, NEW id \in 1 .. MaxId
      PROVE  Kept(id)
  <2>1. ASSUME Tracked(id), Exists(id), Exists(id)', op.kind = "create"
        PROVE  kind \in ReadsBack
    <3>1. CreateOp /\ id # 0
      <4>1. CreateOp
        BY <1>1, <2>1 DEF Inv, OpInv
      <4>2. id # 0
        BY ResourceLifecycleAssumption
      <4> QED
        BY <4>1, <4>2
    <3>2. id = op.id
      BY <2>1, <3>1 DEF CreateOp, Tracked, NoObject
    <3> QED
      BY <3>1, <3>2 DEF CreateOp
  <2>2. ASSUME Tracked(id), Exists(id), Exists(id)', op.kind # "create"
        PROVE  Tracked(id)' \/ kind \in TrustsErrors
    <3>1. id = state.id /\ state # NoObject
      BY <2>2 DEF Tracked, NoObject
    <3>2. state'.id = state.id \/ kind \in TrustsErrors
      BY <1>1, <2>2, <3>1, StaysTracked DEF Exists
    <3> QED
      BY <3>1, <3>2 DEF Tracked
  <2>3. ASSUME ~Exists(id), Exists(id)'
        PROVE  Tracked(id)' \/ failures' > failures
    BY <1>1, <2>3, Appears DEF Exists
  <2> QED
    BY <2>1, <2>2, <2>3
<1>2. Inv /\ [Next]_vars => \A id \in 1 .. MaxId : Kept(id)
  BY <1>1
<1>3. Inv /\ [Next]_vars => [\A id \in 1 .. MaxId : Kept(id)]_vars
  BY <1>2
<1> QED
  BY <1>3, Invariance, PTL DEF Spec, NeverLost

-----------------------------------------------------------------------------
(* What is stored is what was planned.                                     *)
LEMMA ResultPlan ==
    ASSUME TypeOK, op.plan \in Configs, op.kind \in {"create", "update"}
    PROVE  Result(op.plan) = op.plan
BY RefreshedSelf, ValueOf DEF Result

LEMMA PlanStep ==
    ASSUME Inv, [Next]_vars, op.kind \in {"create", "update"}, op' = NoOp, state' # state,
           suspect' = {}, kind \notin PartialUpdates
    PROVE  state'.value = op.plan
<1>1. TypeOK
  BY DEF Inv
<1>2. ASSUME NEW failed \in BOOLEAN, LookUp(failed)
      PROVE  state'.value = op.plan
  <2>1. Goes(op.id, op.got, op.layout) /\ Due("lookup")
    BY <1>2 DEF LookUp, Fails
  <2>2. Len(op.todo) = 1 /\ state'.value = Result(op.got)
    BY <2>1, GoesTo
  <2>3. op.todo \in AfterPut
    <3>1. op.todo \in Creations \cup BeforePut \cup AfterPut /\ Head(op.todo) = "lookup"
      BY <2>1, TodoOf
    <3>2. op.todo \in Creations \cup BeforePut => Len(op.todo) # 1
      BY <3>1, CreateCalls, UpdateCalls
    <3> QED
      BY <2>2, <3>1, <3>2
  <2>4. op.plan \in Configs /\ op.got = op.plan
    BY <2>3, AfterOp
  <2> QED
    BY <1>1, <2>2, <2>4, ResultPlan
<1>3. ASSUME Post
      PROVE  state'.value = op.plan
  <2>1. Goes(NewId, op.plan, op.layout) /\ op.plan \in Configs
    BY <1>3, Posting DEF Post
  <2> QED
    BY <1>1, <2>1, GoesTo, ResultPlan
<1>4. ASSUME Put
      PROVE  state'.value = op.plan
  <2> DEFINE new == Written(remote[op.id], op.plan)
  <2>1. Goes(op.id, new, op.layout) /\ op.plan \in Configs /\ new = op.plan
    BY <1>4, Putting, PutEffectOf DEF Put
  <2> QED
    BY <1>1, <2>1, GoesTo, ResultPlan
<1>5. ASSUME NEW answer \in Answers, Get(answer)
      PROVE  state'.value = op.plan
  <2> DEFINE due == IF Exists(op.id) THEN "found" ELSE absence
  <2>1. Due("get") /\ op.plan \in Configs /\ answer \in Failures \cup {due}
    <3>1. (op.kind = "create" => CreateOp) /\ (op.kind = "update" => UpdateOp)
      BY DEF Inv, OpInv
    <3> QED
      BY <1>5, <3>1 DEF Get, CreateOp, UpdateOp
  <2>2. CASE "found" \in Results(client.get, answer) /\ Goes(op.id, remote[op.id], layout)
             /\ suspect' = Cleared
    <3>1. Exists(op.id)
      BY <1>1, <2>1, <2>2, FoundExists
    <3>2. Len(op.todo) = 1 /\ state'.value = Result(remote[op.id])
      BY <2>2, GoesTo
    <3>3. op.todo \in AfterPut
      <4>1. op.todo \in BeforePut \cup AfterPut /\ Head(op.todo) = "get"
        BY <2>1, TodoOf, WhoCalls
      <4>2. op.todo \in BeforePut => Len(op.todo) # 1
        BY <4>1, UpdateCalls
      <4> QED
        BY <3>2, <4>1, <4>2
    <3>4. op.id \in 1 .. MaxId
      BY <3>3, AfterOp
    <3>5. suspect = {} /\ Same(suspect, op.plan, remote[op.id])
      BY <2>2, <3>1, <3>3 DEF Inv, WrittenInv, Cleared
    <3>6. remote[op.id] = op.plan
      <4>1. remote[op.id] \in Configs
        BY <1>1, <3>1, <3>4 DEF TypeOK, Exists
      <4>2. remote[op.id].main = op.plan.main /\ remote[op.id].optional = op.plan.optional
        BY <3>5 DEF Same
      <4> QED
        BY <2>1, <4>1, <4>2 DEF Configs
    <3> QED
      BY <1>1, <2>1, <3>2, <3>6, ResultPlan
  <2>3. CASE GetAbsent
    <3>1. AbsentFor # "removed"
      BY <1>1, Profile DEF AbsentFor
    <3>2. Goes(op.id, op.plan, op.layout)
      BY <2>3, <3>1 DEF GetAbsent, Fails, Crashes
    <3> QED
      BY <1>1, <2>1, <3>2, GoesTo, ResultPlan
  <2>4. CASE Fails \/ Crashes
    BY <2>4 DEF Fails, Crashes
  <2> QED
    BY <1>5, <2>2, <2>3, <2>4 DEF Get
<1>6. ASSUME NEW answer \in Answers, Probe(answer)
      PROVE  FALSE
  BY <1>6, WhoCalls DEF Probe
<1>7. ASSUME NEW answer \in Answers, NEW effect \in BOOLEAN, Destroy(answer, effect)
      PROVE  FALSE
  BY <1>7, WhoCalls DEF Destroy
<1> QED
  BY <1>2, <1>3, <1>4, <1>5, <1>6, <1>7, StateMoves

(* A handler that ends well, undisturbed, stores the plan.                 *)
THEOREM PlanIsStored == Spec => StoresPlan
<1>1. Inv /\ [Next]_vars =>
        [/\ op.kind \in {"create", "update"} /\ op' = NoOp
         /\ state' # state /\ suspect' = {}
         /\ kind \notin PartialUpdates
         => state'.value = op.plan]_vars
  BY PlanStep
<1> QED
  BY <1>1, Invariance, PTL DEF Spec, StoresPlan
===============================================================================
