------------------------------ MODULE GroupProofs ------------------------------
(***************************************************************************)
(* Proofs about the retry engine, for every set of calls, every number of  *)
(* attempts and every duration type; then about the group resource, whose  *)
(* stragglers are the requests such a call may leave behind, for every set *)
(* of users, every set of attribute values and every number of             *)
(* incarnations.                                                           *)
(***************************************************************************)
EXTENDS ApiClient, Group, TLAPS

(* What the phases of the loop know about the attempt counter.             *)
LoopInv ==
    \A c \in Calls :
        /\ InPhase(c, "idle") => call[c].attempt = 0 /\ call[c].slept = 0
        /\ InPhase(c, "sleep") => call[c].attempt < MaxAttempts - 1
        /\ ~InPhase(c, "sleep") => call[c].attempt < MaxAttempts
        /\ InPhase(c, "done") = (call[c].result # "none")

(* A request exists only for an attempt the client has reached, and is     *)
(* handled at most once.                                                   *)
WireInv ==
    /\ wire \cap applied = {}
    /\ \A c \in Calls, a \in Attempts :
        <<c, a>> \in wire \cup applied =>
            /\ ~InPhase(c, "idle")
            /\ a <= call[c].attempt
            /\ InPhase(c, "loop") => a < call[c].attempt

(* A response on its way to the client is the answer to the attempt it is  *)
(* waiting for, so that attempt has left the wire.                         *)
ReplyInv ==
    \A c \in Calls :
        reply[c] # NoResponse =>
            /\ InPhase(c, "wait")
            /\ <<c, call[c].attempt>> \notin wire
            /\ reply[c].status = "ok" => <<c, call[c].attempt>> \in applied
            /\ reply[c].status = "rejected" => <<c, call[c].attempt>> \notin applied

(* The same facts after the call has returned the answer.                  *)
ResultInv ==
    \A c \in Calls :
        /\ call[c].result \in {"ok", "rejected"} => <<c, call[c].attempt>> \notin wire
        /\ call[c].result = "ok" => <<c, call[c].attempt>> \in applied
        /\ call[c].result = "rejected" => <<c, call[c].attempt>> \notin applied

ClientInv ==
    /\ ClientTypeOK
    /\ LoopInv
    /\ WireInv
    /\ ReplyInv
    /\ ResultInv
    /\ NeverExhausted
    /\ BackoffBounded

-----------------------------------------------------------------------------
(* A backoff pause is a natural number within the cap, for every attempt   *)
(* and every Retry-After header, also one that wraps around.               *)
LEMMA RetryDelayBound ==
    ASSUME NEW attempt \in Nat, NEW res \in Responses \cup {NoResponse}
    PROVE  /\ sleepCtx(retryDelay(attempt, res)) \in Nat
           /\ sleepCtx(retryDelay(attempt, res)) <= RetryAfterCap
<1>1. PowersOfTwo[AtMost(6, attempt)] \in Int
  <2>1. AtMost(6, attempt) \in 0 .. 6
    BY DEF AtMost
  <2> QED
    BY <2>1 DEF PowersOfTwo
<1>2. ASSUME NEW n \in Int
      PROVE  Wrap(n) \in Int
  <2>1. IntRange \div 2 \in Int
    BY DurationAssumption
  <2>2. (n + IntRange \div 2) % IntRange \in Int
    BY <2>1, DurationAssumption
  <2> QED
    BY <2>1, <2>2 DEF Wrap
<1>3. res.retryAfter * Second \in Int
  <2>1. res.retryAfter \in Nat
    <3>1. CASE res \in Responses
      BY <3>1, DurationAssumption DEF Responses
    <3>2. CASE res = NoResponse
      BY <3>2 DEF NoResponse
    <3> QED
      BY <3>1, <3>2
  <2> QED
    BY <2>1, DurationAssumption
<1>4. retryDelay(attempt, res) \in Int /\ retryDelay(attempt, res) <= RetryAfterCap
  <2>1. Wrap(res.retryAfter * Second) \in Int
    BY <1>2, <1>3
  <2> QED
    BY <1>1, <2>1, DurationAssumption DEF retryDelay, AtMost
<1> QED
  BY <1>4, DurationAssumption DEF sleepCtx

(* One more pause keeps the sum within the bound.                          *)
LEMMA OneMorePause ==
    ASSUME NEW n \in Nat, NEW s \in Nat, NEW d \in Nat,
           s <= n * RetryAfterCap, d <= RetryAfterCap
    PROVE  s + d <= (n + 1) * RetryAfterCap
<1>1. (n + 1) * RetryAfterCap = n * RetryAfterCap + RetryAfterCap
  BY DurationAssumption
<1>2. n * RetryAfterCap \in Nat
  BY DurationAssumption
<1> QED
  BY <1>1, <1>2, DurationAssumption

LEMMA ClientInitially == ClientInit => ClientInv
<1> SUFFICES ASSUME ClientInit
             PROVE  ClientInv
  OBVIOUS
<1>1. ClientTypeOK
  BY DurationAssumption DEF ClientInit, ClientTypeOK, Phases, Results
<1>2. LoopInv /\ NeverExhausted
  BY MaxAttemptsAssumption DEF ClientInit, LoopInv, NeverExhausted, InPhase
<1>3. WireInv /\ ReplyInv /\ ResultInv
  BY DEF ClientInit, WireInv, ReplyInv, ResultInv
<1>4. BackoffBounded
  <2>1. 0 * RetryAfterCap = 0
    BY DurationAssumption
  <2>2. \A c \in Calls : /\ call[c].phase = "idle"
                         /\ call[c].attempt = 0
                         /\ call[c].slept = 0
    BY DEF ClientInit
  <2>3. \A c \in Calls : Pauses(c) = 0
    <3> TAKE c \in Calls
    <3>1. ~InPhase(c, "sleep") /\ call[c].attempt = 0
      BY <2>2 DEF InPhase
    <3> QED
      BY <3>1 DEF Pauses
  <2>4. 0 < MaxAttempts /\ 0 <= 0
    BY MaxAttemptsAssumption
  <2> QED
    BY <2>1, <2>2, <2>3, <2>4 DEF BackoffBounded
<1> QED
  BY <1>1, <1>2, <1>3, <1>4 DEF ClientInv

(* The three ways in which a step touches the record of a call.            *)
LEMMA FinishStep ==
    ASSUME ClientInv, NEW c \in Calls, InPhase(c, "wait"),
           NEW r \in Results \ {"none", "exhausted"}, Finish(c, r),
           UNCHANGED <<wire, applied>>,
           r \in {"ok", "rejected"} => reply[c] # NoResponse /\ reply[c].status = r
    PROVE  ClientInv'
<1> USE DEF ClientInv, InPhase, Finish
<1>1. ClientTypeOK'
  BY DEF ClientTypeOK, Phases, Results
<1>2. LoopInv' /\ NeverExhausted'
  BY DEF ClientTypeOK, LoopInv, NeverExhausted
<1>3. WireInv'
  BY DEF ClientTypeOK, WireInv
<1>4. ReplyInv'
  BY DEF ClientTypeOK, ReplyInv
<1>5. ResultInv'
  BY DEF ClientTypeOK, ResultInv, ReplyInv
<1>6. BackoffBounded'
  BY DEF ClientTypeOK, BackoffBounded, Pauses
<1> QED
  BY <1>1, <1>2, <1>3, <1>4, <1>5, <1>6

LEMMA BackOffStep ==
    ASSUME ClientInv, NEW c \in Calls, InPhase(c, "wait"), ~LastAttempt(c),
           NEW res \in Responses \cup {NoResponse}, BackOff(c, res),
           UNCHANGED <<wire, applied>>
    PROVE  ClientInv'
<1> USE DEF ClientInv, InPhase, BackOff
<1> DEFINE d == sleepCtx(retryDelay(call[c].attempt, res))
<1>0. call[c].attempt \in Nat /\ call[c].slept \in Nat
  BY DEF ClientTypeOK
<1>1. d \in Nat /\ d <= RetryAfterCap
  BY <1>0, RetryDelayBound
<1> HIDE DEF d
<1>2. call' = [call EXCEPT ![c].phase = "sleep", ![c].slept = @ + d]
  BY DEF d
<1>3. ClientTypeOK'
  <2>1. call' \in [Calls -> [phase : Phases, attempt : Nat,
                             result : Results, slept : Nat]]
    <3>1. call[c].slept + d \in Nat
      BY <1>0, <1>1
    <3> QED
      BY <1>2, <3>1 DEF ClientTypeOK, Phases
  <2> QED
    BY <2>1 DEF ClientTypeOK
<1>4. LoopInv' /\ NeverExhausted'
  BY <1>2, MaxAttemptsAssumption DEF ClientTypeOK, LoopInv, NeverExhausted, LastAttempt
<1>5. WireInv'
  BY <1>2 DEF ClientTypeOK, WireInv
<1>6. ReplyInv'
  BY <1>2 DEF ClientTypeOK, ReplyInv
<1>7. ResultInv'
  BY <1>2 DEF ClientTypeOK, ResultInv
<1>8. BackoffBounded'
  <2>1. call[c].slept <= call[c].attempt * RetryAfterCap
    <3>1. Pauses(c) = call[c].attempt
      BY <1>0 DEF Pauses
    <3> QED
      BY <3>1 DEF BackoffBounded
  <2>2. call[c].slept + d <= (call[c].attempt + 1) * RetryAfterCap
    BY <1>0, <1>1, <2>1, OneMorePause
  <2>3. /\ call'[c].slept = call[c].slept + d
        /\ call'[c].attempt = call[c].attempt
        /\ call'[c].phase = "sleep"
    BY <1>2 DEF ClientTypeOK
  <2>4. Pauses(c)' = call[c].attempt + 1
    BY <2>3 DEF Pauses
  <2>5. call[c].attempt + 1 < MaxAttempts
    BY <1>0, MaxAttemptsAssumption DEF LastAttempt
  <2>6. \A e \in Calls \ {c} : call'[e] = call[e]
    BY <1>2 DEF ClientTypeOK
  <2>7. \A e \in Calls \ {c} : Pauses(e)' = Pauses(e)
    BY <2>6 DEF Pauses
  <2> QED
    BY <2>2, <2>3, <2>4, <2>5, <2>6, <2>7 DEF BackoffBounded
<1> QED
  BY <1>3, <1>4, <1>5, <1>6, <1>7, <1>8

LEMMA ClientStepKeeps == ClientInv /\ [ClientNext]_clientVars => ClientInv'
<1> SUFFICES ASSUME ClientInv, [ClientNext]_clientVars
             PROVE  ClientInv'
  OBVIOUS
<1>1. CASE UNCHANGED clientVars
  BY <1>1 DEF clientVars, ClientInv, ClientTypeOK, LoopInv, WireInv, ReplyInv, ResultInv,
              NeverExhausted, BackoffBounded, Pauses, InPhase
<1>2. ASSUME NEW c \in Calls, Issue(c)
      PROVE  ClientInv'
  <2> USE <1>2 DEF ClientInv, Issue, InPhase
  <2>1. ClientTypeOK'
    BY DEF ClientTypeOK, Phases
  <2>2. LoopInv' /\ NeverExhausted'
    BY MaxAttemptsAssumption DEF ClientTypeOK, LoopInv, NeverExhausted
  <2>3. WireInv' /\ ReplyInv' /\ ResultInv'
    BY DEF ClientTypeOK, LoopInv, WireInv, ReplyInv, ResultInv
  <2>4. BackoffBounded'
    BY DEF ClientTypeOK, BackoffBounded, Pauses
  <2> QED
    BY <2>1, <2>2, <2>3, <2>4
<1>3. ASSUME NEW c \in Calls, Execute(c)
      PROVE  ClientInv'
  <2> USE <1>3 DEF ClientInv, InPhase
  <2>1. /\ call[c].attempt \in Attempts
        /\ call' = [call EXCEPT ![c].phase = "wait"]
        /\ wire' = wire \cup {<<c, call[c].attempt>>}
        /\ UNCHANGED <<reply, applied>>
    BY MaxAttemptsAssumption DEF Execute, ClientTypeOK, LoopInv, Attempts
  <2>2. ClientTypeOK'
    BY <2>1 DEF ClientTypeOK, Phases, Requests
  <2>3. LoopInv' /\ NeverExhausted'
    BY <2>1 DEF Execute, ClientTypeOK, LoopInv, NeverExhausted
  <2>4. WireInv'
    BY <2>1 DEF Execute, ClientTypeOK, WireInv, Attempts
  <2>5. ReplyInv' /\ ResultInv'
    BY <2>1 DEF Execute, ClientTypeOK, LoopInv, ReplyInv, ResultInv
  <2>6. BackoffBounded'
    BY <2>1 DEF Execute, ClientTypeOK, BackoffBounded, Pauses
  <2> QED
    BY <2>2, <2>3, <2>4, <2>5, <2>6
<1>4. ASSUME NEW c \in Calls, NEW retriable \in BOOLEAN,
             TransportError(c, retriable)
      PROVE  ClientInv'
  BY <1>4, FinishStep, BackOffStep DEF TransportError, Results
<1>5. ASSUME NEW c \in Calls, ReceiveResponse(c)
      PROVE  ClientInv'
  <2>1. reply[c] \in Responses
    BY <1>5 DEF ReceiveResponse, ClientInv, ClientTypeOK
  <2> QED
    BY <1>5, <2>1, FinishStep, BackOffStep
       DEF ReceiveResponse, Results, Responses, Statuses
<1>6. ASSUME NEW c \in Calls, Wake(c)
      PROVE  ClientInv'
  <2> USE <1>6 DEF ClientInv, Wake, InPhase
  <2>1. ClientTypeOK'
    BY DEF ClientTypeOK, Phases
  <2>2. LoopInv' /\ NeverExhausted'
    BY MaxAttemptsAssumption DEF ClientTypeOK, LoopInv, NeverExhausted
  <2>3. WireInv' /\ ReplyInv' /\ ResultInv'
    BY DEF ClientTypeOK, LoopInv, WireInv, ReplyInv, ResultInv, Attempts
  <2>4. BackoffBounded'
    BY DEF ClientTypeOK, BackoffBounded, Pauses
  <2> QED
    BY <2>1, <2>2, <2>3, <2>4
<1>7. ASSUME NEW c \in Calls, NEW a \in Attempts, NEW res \in Responses,
             NEW effect \in BOOLEAN, Serve(c, a, res, effect)
      PROVE  ClientInv'
  <2> USE <1>7 DEF ClientInv, Serve, InPhase
  <2>1. ClientTypeOK'
    BY DEF ClientTypeOK, Requests
  <2>2. LoopInv' /\ NeverExhausted' /\ BackoffBounded'
    BY DEF LoopInv, NeverExhausted, BackoffBounded, Pauses
  <2>3. WireInv'
    BY DEF WireInv
  <2>4. ReplyInv'
    BY DEF ClientTypeOK, ReplyInv, WireInv
  <2>5. ResultInv'
    BY DEF ClientTypeOK, ResultInv
  <2> QED
    BY <2>1, <2>2, <2>3, <2>4, <2>5
<1>8. ASSUME NEW c \in Calls, NEW a \in Attempts, LoseRequest(c, a)
      PROVE  ClientInv'
  <2> USE <1>8 DEF ClientInv, LoseRequest, InPhase
  <2>1. ClientTypeOK' /\ LoopInv' /\ NeverExhausted' /\ BackoffBounded'
    BY DEF ClientTypeOK, LoopInv, NeverExhausted, BackoffBounded, Pauses
  <2>2. WireInv' /\ ReplyInv' /\ ResultInv'
    BY DEF WireInv, ReplyInv, ResultInv
  <2> QED
    BY <2>1, <2>2
<1> QED
  BY <1>1, <1>2, <1>3, <1>4, <1>5, <1>6, <1>7, <1>8
     DEF ClientNext, ClientStep, NetworkStep

-----------------------------------------------------------------------------
(* ClientInv holds of every reachable state.                                    *)
THEOREM ClientInvariance == ClientSpec => []ClientInv
<1>1. ClientInit => ClientInv
  BY ClientInitially
<1>2. ClientInv /\ [ClientNext]_clientVars => ClientInv'
  BY ClientStepKeeps
<1> QED
  BY <1>1, <1>2, PTL DEF ClientSpec

(* The state keeps its shape.                                              *)
THEOREM ClientTypeCorrect == ClientSpec => []ClientTypeOK
<1>1. ClientInv => ClientTypeOK
  BY DEF ClientInv
<1> QED
  BY <1>1, ClientInvariance, PTL

(* The error after the retry loop is dead code for any MaxAttempts.        *)
THEOREM ExhaustedIsUnreachable == ClientSpec => []NeverExhausted
<1>1. ClientInv => NeverExhausted
  BY DEF ClientInv
<1> QED
  BY <1>1, ClientInvariance, PTL

(* The pauses of a call are fewer than its attempts and each within the    *)
(* cap, whatever Retry-After says and however wide a duration is.          *)
THEOREM BackoffIsBounded == ClientSpec => []BackoffBounded
<1>1. ClientInv => BackoffBounded
  BY DEF ClientInv
<1> QED
  BY <1>1, ClientInvariance, PTL

(* An answer on the first attempt is the whole truth about the call.       *)
THEOREM FirstAnswerExact == ClientSpec => []FirstAnswerIsExact
<1>1. ClientInv => FirstAnswerIsExact
  <2> SUFFICES ASSUME ClientInv, NEW c \in Calls, InPhase(c, "done"), call[c].attempt = 0,
                      call[c].result \in {"ok", "rejected"}
               PROVE  /\ \A a \in Attempts : <<c, a>> \notin wire
                      /\ (call[c].result = "ok")
                           = (\E a \in Attempts : <<c, a>> \in applied)
    BY DEF FirstAnswerIsExact
  <2>1. \A a \in Attempts : <<c, a>> \in wire \cup applied => a = 0
    BY DEF ClientInv, WireInv, Attempts
  <2>2. 0 \in Attempts
    BY MaxAttemptsAssumption DEF Attempts
  <2> QED
    BY <2>1, <2>2 DEF ClientInv, ResultInv
<1> QED
  BY <1>1, ClientInvariance, PTL

-----------------------------------------------------------------------------
(* Every step of the retry engine is a step of RemoteCall or a stutter.    *)
LEMMA StepRefines == ClientInv /\ ClientInv' /\ [ClientNext]_clientVars => [Remote!Next]_Remote!vars
<1> DEFINE O == [c \in Calls |-> Outcome(c)]
<1> SUFFICES ASSUME ClientInv, ClientInv', [ClientNext]_clientVars
             PROVE  Remote!Next \/ (O' = O /\ applied' = applied)
  BY DEF Remote!vars
<1>1. ASSUME NEW c \in Calls, UNCHANGED applied,
             \A e \in Calls \ {c} : call'[e] = call[e],
             InPhase(c, "idle"), InPhase(c, "loop")'
      PROVE  Remote!Issue(c)
  BY <1>1 DEF Remote!Issue, Outcome, InPhase
<1>2. ASSUME NEW c \in Calls, UNCHANGED applied,
             \A e \in Calls \ {c} : call'[e] = call[e],
             call[c].phase \in {"loop", "wait", "sleep"},
             call'[c].phase \in {"loop", "wait", "sleep"}
      PROVE  O' = O /\ applied' = applied
  BY <1>2 DEF Outcome, InPhase
<1>3. ASSUME NEW c \in Calls, UNCHANGED applied,
             \A e \in Calls \ {c} : call'[e] = call[e],
             InPhase(c, "wait"), InPhase(c, "done")'
      PROVE  \E o \in Remote!Outcomes : Remote!Return(c, o)
  <2> DEFINE o == call'[c].result
  <2>1. o \in Remote!Outcomes
    BY <1>3 DEF ClientInv, ClientTypeOK, LoopInv, NeverExhausted, Results, Remote!Outcomes
  <2>2. o = "ok" => \E a \in Attempts : <<c, a>> \in applied
    BY <1>3 DEF ClientInv, ResultInv, ClientTypeOK, Requests
  <2>3. O[c] = "pending" /\ O' = [O EXCEPT ![c] = o]
    BY <1>3 DEF Outcome, InPhase
  <2> QED
    BY <1>3, <2>1, <2>2, <2>3 DEF Remote!Return
<1>4. CASE UNCHANGED clientVars
  BY <1>4 DEF clientVars, Outcome, InPhase
<1>5. ASSUME NEW c \in Calls, Issue(c)
      PROVE  Remote!Issue(c)
  BY <1>1, <1>5 DEF Issue, ClientInv, ClientTypeOK, InPhase
<1>6. ASSUME NEW c \in Calls, Execute(c)
      PROVE  O' = O /\ applied' = applied
  <2>1. call[c].attempt < MaxAttempts
    BY <1>6 DEF ClientInv, LoopInv, Execute, InPhase
  <2> QED
    BY <1>2, <1>6, <2>1 DEF Execute, ClientInv, ClientTypeOK, InPhase
<1>7. ASSUME NEW c \in Calls, InPhase(c, "wait"), UNCHANGED applied,
             NEW r, Finish(c, r)
      PROVE  \E o \in Remote!Outcomes : Remote!Return(c, o)
  BY <1>3, <1>7 DEF Finish, ClientInv, ClientTypeOK, InPhase
<1>8. ASSUME NEW c \in Calls, InPhase(c, "wait"), UNCHANGED applied,
             NEW res, BackOff(c, res)
      PROVE  O' = O /\ applied' = applied
  BY <1>2, <1>8 DEF BackOff, ClientInv, ClientTypeOK, InPhase
<1>9. ASSUME NEW c \in Calls, Wake(c)
      PROVE  O' = O /\ applied' = applied
  BY <1>2, <1>9 DEF Wake, ClientInv, ClientTypeOK, InPhase
<1>10. ASSUME NEW c \in Calls, NEW a \in Attempts, NEW res \in Responses,
              NEW effect \in BOOLEAN, Serve(c, a, res, effect)
       PROVE  Remote!TakeEffect(c, a) \/ (O' = O /\ applied' = applied)
  <2>1. O' = O
    BY <1>10 DEF Serve, Outcome, InPhase
  <2>2. O[c] # "idle"
    BY <1>10 DEF Serve, ClientInv, WireInv, LoopInv, ClientTypeOK, Results, Outcome, InPhase
  <2>3. <<c, a>> \notin applied
    BY <1>10 DEF Serve, ClientInv, WireInv
  <2> QED
    BY <1>10, <2>1, <2>2, <2>3 DEF Serve, Remote!TakeEffect
<1>11. ASSUME NEW c \in Calls, NEW a \in Attempts, LoseRequest(c, a)
       PROVE  O' = O /\ applied' = applied
  BY <1>11 DEF LoseRequest, Outcome, InPhase
<1>12. ASSUME NEW c \in Calls, ClientStep(c)
       PROVE  Remote!Next \/ (O' = O /\ applied' = applied)
  BY <1>6, <1>7, <1>8, <1>9, <1>12
     DEF ClientStep, TransportError, ReceiveResponse, Remote!Next
<1>13. ASSUME NEW c \in Calls, NetworkStep(c)
       PROVE  Remote!Next \/ (O' = O /\ applied' = applied)
  BY <1>10, <1>11, <1>13 DEF NetworkStep, Remote!Next
<1> QED
  BY <1>4, <1>5, <1>12, <1>13 DEF ClientNext, Remote!Next

(* The retry engine implements the safety of RemoteCall: a call reports    *)
(* "ok" only if it took effect, returns once, and takes effect at most     *)
(* once per attempt.                                                       *)
THEOREM ClientRefinement == ClientSpec => Remote!Safety
<1>1. ClientInit => Remote!Init
  BY DEF ClientInit, Remote!Init, Outcome, InPhase
<1>2. ClientInv /\ ClientInv' /\ [ClientNext]_clientVars => [Remote!Next]_Remote!vars
  BY StepRefines
<1> QED
  BY <1>1, <1>2, ClientInvariance, PTL DEF ClientSpec, Remote!Safety

-----------------------------------------------------------------------------
(* The group resource.                                                     *)

(* A handler works on the object it was started with.                      *)
OpInv ==
    /\ op.kind = "create" => state = NoGroup /\ op.plan # NoGroup
    /\ op.kind \in {"read", "update", "delete"} => state # NoGroup /\ op.id = state.id
    /\ op.kind \in {"update", "delete"} => op.plan # NoGroup
    /\ op.kind = "read" => op.plan = NoGroup
    /\ op.kind = "create" /\ op.pc # "post" => op.id # 0

(* A request still on its way is always a reason to doubt.                 *)
StragglerInv == straggler # NoGroup => doubt

(* What the service has when Terraform is not in doubt, for every point of *)
(* every handler: each call moves it one step from the state to the plan.  *)
RemoteInv ==
    ~doubt /\ remote # NoGroup =>
        CASE op.kind = "create" ->
               /\ op.pc # "post"
               /\ remote.id = op.id
               /\ remote.attr = op.plan.attr
               /\ remote.users = IF op.pc = "add" THEN {}
                                 ELSE userIDsFromSet(op.plan.users)
          [] op.kind = "update" /\ op.pc # "put" ->
               /\ remote.id = op.id
               /\ remote.attr = op.plan.attr
               /\ remote.users =
                    CASE op.pc = "add" -> userIDsFromSet(state.users)
                      [] op.pc = "remove" ->
                           userIDsFromSet(state.users)
                             \cup toAdd(state.users, op.plan.users)
                      [] OTHER -> userIDsFromSet(op.plan.users)
          [] OTHER -> state # NoGroup /\ Exact

IInv == TypeOK /\ OpInv /\ StragglerInv /\ RemoteInv /\ ConsistentAfterApply

-----------------------------------------------------------------------------
(* NoGroup is none of the records.                                         *)
LEMMA NoGroupIsNoRecord ==
    /\ NoGroup \notin Configs
    /\ NoGroup \notin States
    /\ NoGroup \notin Remotes
BY NoGroupAssumption

(* The members named by a set of plan or state are users.                  *)
LEMMA UserIDsType ==
    ASSUME NEW s \in UserSets
    PROVE  userIDsFromSet(s) \in SUBSET Users
BY DEF UserSets, userIDsFromSet

(* A list of members the service returns is never the null set.            *)
LEMMA ListedUsers ==
    ASSUME NEW s \in UserSets, NEW api \in SUBSET Users
    PROVE  /\ optionalUsersSetMatchPlan(s, api) \in UserSets
           /\ api = userIDsFromSet(s) \/ api = {} =>
                optionalUsersSetMatchPlan(s, api) = s
           /\ api # {} => userIDsFromSet(optionalUsersSetMatchPlan(s, api)) = api
<1>1. api # Null
  BY GroupAssumption DEF Null
<1>2. api = userIDsFromSet(s) /\ api # {} => s = api
  BY DEF userIDsFromSet
<1> QED
  BY <1>1, <1>2 DEF optionalUsersSetMatchPlan, UserSets, userIDsFromSet

(* Adding and then removing the differences turns the prior members into   *)
(* the planned ones.                                                       *)
LEMMA DiffIsComplete ==
    ASSUME NEW prior, NEW next
    PROVE  (userIDsFromSet(prior) \cup toAdd(prior, next)) \ toRemove(prior, next)
             = userIDsFromSet(next)
BY DEF toAdd, toRemove

(* A changing request keeps the shape of the service's group.              *)
LEMMA CallType ==
    ASSUME TypeOK, NEW req \in Changes,
           NEW outcome \in Outcomes, Call(req, outcome)
    PROVE  /\ remote' \in Remotes \cup {NoGroup}
           /\ created' \in 0 .. MaxId
           /\ straggler' \in Changes \cup {NoGroup}
           /\ doubt' \in BOOLEAN
           /\ outcome = "fine" /\ req.verb = "post" => created' \in 1 .. MaxId
<1>1. CASE outcome \in {"fine", "lost"}
  <2>1. remote' = Executed(req) /\ Accepts(req)
    BY <1>1 DEF Call, Perform
  <2>0. /\ req.verb \in {"post", "put", "add", "remove", "delete"}
        /\ req.attr \in Attrs
        /\ req.users \in SUBSET Users
        /\ created \in 0 .. MaxId
    BY DEF Changes, TypeOK
  <2>p. req.verb = "post" => created + 1 \in 1 .. MaxId
    BY <2>0, <2>1, GroupAssumption DEF Accepts
  <2>2. Executed(req) \in Remotes \cup {NoGroup}
    <3>1. CASE req.verb = "post"
      <4>1. Executed(req) = [id |-> created + 1, attr |-> req.attr, users |-> {}]
        BY <3>1 DEF Executed
      <4> QED
        BY <2>0, <2>p, <3>1, <4>1 DEF Remotes
    <3>2. CASE req.verb \in {"put", "add", "remove", "delete"}
      <4>1. remote \in Remotes
        BY <2>1, <3>2 DEF TypeOK, Accepts
      <4> QED
        BY <2>0, <3>2, <4>1 DEF Executed, Remotes
    <3> QED
      BY <2>0, <3>1, <3>2
  <2>3. created' \in 0 .. MaxId /\ (req.verb = "post" => created' \in 1 .. MaxId)
    BY <1>1, <2>0, <2>p, GroupAssumption DEF Call, Perform
  <2> QED
    BY <1>1, <2>1, <2>2, <2>3 DEF TypeOK, Call
<1>2. CASE outcome \in {"clean", "late"}
  BY <1>2 DEF TypeOK, Call, Changes
<1> QED
  BY <1>1, <1>2 DEF Outcomes

(* The requests of the handlers are well formed.                           *)
LEMMA RequestType ==
    ASSUME TypeOK, op.plan # NoGroup,
           NEW verb \in {"post", "put", "add", "remove", "delete"},
           NEW users \in SUBSET Users
    PROVE  GroupRequest(verb, users) \in Changes
BY DEF TypeOK, GroupRequest, Configs, Changes

(* A call after which Terraform is not in doubt did what it reports.       *)
LEMMA CallIsHonest ==
    ASSUME TypeOK, StragglerInv, NEW req, NEW outcome \in Outcomes, Call(req, outcome)
    PROVE  /\ StragglerInv'
           /\ ~doubt' => /\ ~doubt
                         /\ \/ outcome = "clean" /\ remote' = remote
                            \/ /\ outcome = "fine"
                               /\ Accepts(req)
                               /\ remote' = Executed(req)
BY DEF Call, Perform, StragglerInv, Outcomes, TypeOK

(* An incarnation number is also a legal id of a handler.                  *)
LEMMA IdType ==
    /\ 0 \in 0 .. MaxId
    /\ \A i \in 1 .. MaxId : i \in 0 .. MaxId /\ i # 0
    /\ \A i \in 0 .. MaxId : i # 0 => i \in 1 .. MaxId
BY GroupAssumption

(* A handler begins within the shape of op.                                *)
LEMMA BeginType ==
    ASSUME NEW kind \in {"create", "read", "update", "delete"},
           NEW pc \in {"post", "head", "put", "delete"}, <<kind, pc>> \in Steps,
           NEW id \in 0 .. MaxId, NEW plan \in Configs \cup {NoGroup},
           Begin(kind, pc, id, plan)
    PROVE  /\ op' \in [kind : {"none", "create", "read", "update", "delete"},
                        pc : {"", "post", "add", "get", "head", "put", "remove",
                              "delete"},
                        id : 0 .. MaxId,
                        plan : Configs \cup {NoGroup},
                        result : {"none", "ok", "error", "panic"}]
           /\ <<op'.kind, op'.pc>> \in Steps
BY DEF Begin

(* The handlers end or go on within the shape of op.                       *)
LEMMA OpType ==
    ASSUME TypeOK
    PROVE  /\ \A r \in {"ok", "error", "panic"} :
                End(r) => /\ op' \in [kind : {"none"}, pc : {""}, id : 0 .. MaxId,
                                      plan : Configs \cup {NoGroup}, result : {r}]
                          /\ op'.plan = op.plan
                          /\ op'.kind = "none" /\ op'.pc = "" /\ op'.result = r
           /\ \A pc \in {"add", "get", "remove"} :
                Goto(pc) => /\ op' \in [kind : {op.kind}, pc : {pc}, id : 0 .. MaxId,
                                        plan : Configs \cup {NoGroup},
                                        result : {"none", "ok", "error", "panic"}]
                            /\ op'.id = op.id /\ op'.plan = op.plan
                            /\ op'.kind = op.kind /\ op'.pc = pc
BY DEF TypeOK, End, Goto

LEMMA InitIInv == Init => IInv
<1> SUFFICES ASSUME Init
             PROVE  IInv
  OBVIOUS
<1>1. TypeOK
  <2>1. 0 \in 0 .. MaxId
    BY IdType
  <2> QED
    BY <2>1 DEF Init, TypeOK, Steps
<1>2. OpInv /\ StragglerInv /\ RemoteInv /\ ConsistentAfterApply
  BY DEF Init, OpInv, StragglerInv, RemoteInv, ConsistentAfterApply, Idle
<1> QED
  BY <1>1, <1>2 DEF IInv

-----------------------------------------------------------------------------
(* The environment.                                                        *)
LEMMA EnvironmentStep == IInv /\ Environment => IInv'
<1> SUFFICES ASSUME IInv, Environment
             PROVE  IInv'
  OBVIOUS
<1> USE DEF IInv
<1>1. CASE LateEffect
  <2>1. doubt
    BY <1>1 DEF LateEffect, StragglerInv
  <2>2. CASE UNCHANGED <<remote, created>>
    BY <1>1, <2>1, <2>2 DEF LateEffect, TypeOK, OpInv, StragglerInv, RemoteInv,
                            ConsistentAfterApply, Idle
  <2>3. CASE Perform(straggler)
    <3>1. straggler \in Changes
      BY <1>1 DEF LateEffect, TypeOK
    <3>2. remote' \in Remotes \cup {NoGroup} /\ created' \in 0 .. MaxId
      <4>1. /\ straggler.verb \in {"post", "put", "add", "remove", "delete"}
            /\ straggler.attr \in Attrs
            /\ straggler.users \in SUBSET Users
            /\ created \in 0 .. MaxId
        BY <3>1 DEF Changes, TypeOK
      <4>2. straggler.verb = "post" => created + 1 \in 1 .. MaxId
        BY <2>3, <4>1, GroupAssumption DEF Perform, Accepts
      <4>3. created' \in 0 .. MaxId
        BY <2>3, <4>1, <4>2, GroupAssumption DEF Perform
      <4>4. CASE straggler.verb = "post"
        <5>1. remote' = [id |-> created + 1, attr |-> straggler.attr, users |-> {}]
          BY <2>3, <4>4 DEF Perform, Executed
        <5> QED
          BY <4>1, <4>2, <4>3, <4>4, <5>1 DEF Remotes
      <4>5. CASE straggler.verb # "post"
        <5>1. remote \in Remotes
          BY <2>3, <4>5 DEF TypeOK, Perform, Accepts
        <5>2. remote' = Executed(straggler)
          BY <2>3 DEF Perform
        <5> QED
          BY <4>1, <4>3, <4>5, <5>1, <5>2 DEF Executed, Remotes
      <4> QED
        BY <4>4, <4>5
    <3> QED
      BY <1>1, <2>1, <3>2 DEF LateEffect, TypeOK, OpInv, StragglerInv, RemoteInv,
                              ConsistentAfterApply, Idle
  <2> QED
    BY <1>1, <2>2, <2>3 DEF LateEffect
<1>2. CASE DeletedOutside
  BY <1>2 DEF DeletedOutside, TypeOK, OpInv, StragglerInv, RemoteInv,
              ConsistentAfterApply, Idle
<1>3. ASSUME NEW new \in Configs \cup {NoGroup}, EditConfig(new)
      PROVE  IInv'
  <2>1. TypeOK'
    BY <1>3 DEF EditConfig, Idle, TypeOK
  <2>2. OpInv' /\ StragglerInv' /\ ConsistentAfterApply'
    BY <1>3 DEF EditConfig, Idle, TypeOK, OpInv, StragglerInv, ConsistentAfterApply
  <2>3. RemoteInv'
    BY <1>3 DEF EditConfig, Idle, TypeOK, RemoteInv, Exact
  <2> QED
    BY <2>1, <2>2, <2>3
<1> QED
  BY <1>1, <1>2, <1>3 DEF Environment

-----------------------------------------------------------------------------
(* The first step of each handler.                                         *)
LEMMA BeginStep ==
    IInv /\ (BeginCreate \/ BeginRead \/ BeginUpdate \/ BeginDelete) => IInv'
<1> SUFFICES ASSUME IInv, BeginCreate \/ BeginRead \/ BeginUpdate \/ BeginDelete
             PROVE  IInv'
  OBVIOUS
<1> USE DEF IInv, NoCall
<1>1. StragglerInv'
  BY DEF BeginCreate, BeginRead, BeginUpdate, BeginDelete, StragglerInv
<1>2. CASE BeginCreate
  <2>1. TypeOK'
    <3>1. Begin("create", "post", 0, config) /\ config \in Configs \cup {NoGroup}
      BY <1>2 DEF BeginCreate, TypeOK
    <3> QED
      BY <1>2, <3>1, IdType, BeginType DEF BeginCreate, TypeOK, Steps
  <2>2. OpInv' /\ ConsistentAfterApply'
    BY <1>2 DEF BeginCreate, Begin, OpInv, ConsistentAfterApply, Idle
  <2>3. RemoteInv'
    BY <1>2 DEF BeginCreate, Begin, Idle, RemoteInv
  <2> QED
    BY <1>1, <2>1, <2>2, <2>3
<1>3. CASE BeginRead
  <2>1. TypeOK'
    <3>1. Begin("read", "head", state.id, NoGroup) /\ state.id \in 0 .. MaxId
      BY <1>3, IdType DEF BeginRead, TypeOK, States
    <3> QED
      BY <1>3, <3>1, BeginType DEF BeginRead, TypeOK, Steps
  <2>2. OpInv' /\ ConsistentAfterApply'
    BY <1>3 DEF BeginRead, Begin, OpInv, ConsistentAfterApply, Idle
  <2>3. RemoteInv'
    BY <1>3 DEF BeginRead, Begin, Idle, RemoteInv, Exact
  <2> QED
    BY <1>1, <2>1, <2>2, <2>3
<1>4. CASE BeginUpdate
  <2>1. TypeOK'
    <3>1. /\ Begin("update", "put", state.id, config)
          /\ config \in Configs \cup {NoGroup}
          /\ state.id \in 0 .. MaxId
      BY <1>4, IdType DEF BeginUpdate, TypeOK, States
    <3> QED
      BY <1>4, <3>1, BeginType DEF BeginUpdate, TypeOK, Steps
  <2>2. OpInv' /\ ConsistentAfterApply'
    BY <1>4 DEF BeginUpdate, Begin, OpInv, ConsistentAfterApply, Idle
  <2>3. RemoteInv'
    BY <1>4 DEF BeginUpdate, Begin, Idle, RemoteInv, Exact
  <2> QED
    BY <1>1, <2>1, <2>2, <2>3
<1>5. CASE BeginDelete
  <2>1. [attr |-> state.attr, users |-> state.users] \in Configs
    BY <1>5 DEF BeginDelete, TypeOK, States, Configs
  <2>2. TypeOK'
    <3>1. state.id \in 0 .. MaxId
      BY <1>5, IdType DEF BeginDelete, TypeOK, States
    <3> QED
      BY <1>5, <2>1, <3>1, BeginType DEF BeginDelete, TypeOK, Steps
  <2>3. OpInv' /\ ConsistentAfterApply'
    BY <1>5, <2>1, NoGroupIsNoRecord DEF BeginDelete, Begin, OpInv, ConsistentAfterApply, Idle
  <2>4. RemoteInv'
    BY <1>5 DEF BeginDelete, Begin, Idle, RemoteInv, Exact
  <2> QED
    BY <1>1, <2>2, <2>3, <2>4
<1> QED
  BY <1>2, <1>3, <1>4, <1>5

-----------------------------------------------------------------------------
(* Create.                                                                 *)
LEMMA CreateGroupStep ==
    ASSUME IInv, NEW outcome \in Outcomes, CreateGroup(outcome)
    PROVE  IInv'
<1> USE DEF IInv
<1> DEFINE req == GroupRequest("post", {})
<1>1. At("create", "post") /\ Call(req, outcome) /\ UNCHANGED <<config, state>>
  BY DEF CreateGroup
<1>2. req \in Changes /\ req.verb = "post" /\ req.attr = op.plan.attr
  BY <1>1, RequestType DEF OpInv, At, GroupRequest
<1> HIDE DEF req
<1>3. /\ remote' \in Remotes \cup {NoGroup}
      /\ created' \in 0 .. MaxId
      /\ straggler' \in Changes \cup {NoGroup}
      /\ doubt' \in BOOLEAN
      /\ outcome = "fine" => created' \in 1 .. MaxId
  BY <1>1, <1>2, CallType
<1>4. /\ StragglerInv'
      /\ ~doubt' =>
           /\ ~doubt
           /\ \/ outcome = "clean" /\ remote' = remote
              \/ /\ outcome = "fine"
                 /\ Accepts(req)
                 /\ remote' = Executed(req)
  BY <1>1, CallIsHonest
<1>5. CASE outcome = "fine"
  <2>1. op' = [op EXCEPT !.pc = "add", !.id = created']
    BY <1>5 DEF CreateGroup
  <2>2. created' \in 0 .. MaxId /\ created' # 0
    BY <1>3, <1>5, IdType
  <2>3. /\ op'.kind = "create" /\ op'.pc = "add"
        /\ op'.id = created' /\ op'.plan = op.plan
    BY <1>1, <2>1 DEF TypeOK, At
  <2>4. TypeOK'
    <3>1. op' \in [kind : {"none", "create", "read", "update", "delete"},
                   pc : {"", "post", "add", "get", "head", "put", "remove", "delete"},
                   id : 0 .. MaxId,
                   plan : Configs \cup {NoGroup},
                   result : {"none", "ok", "error", "panic"}]
      BY <1>1, <2>1, <2>2 DEF TypeOK
    <3> QED
      BY <1>1, <1>3, <2>3, <3>1 DEF TypeOK, Steps
  <2>5. OpInv' /\ ConsistentAfterApply'
    BY <1>1, <2>2, <2>3 DEF OpInv, ConsistentAfterApply, Idle, At
  <2>6. RemoteInv'
    <3>1. remote' = [id |-> created + 1, attr |-> op.plan.attr, users |-> {}]
          /\ created' = created + 1
      BY <1>1, <1>2, <1>5 DEF Call, Perform, Executed
    <3> QED
      BY <2>3, <3>1 DEF RemoteInv
  <2> QED
    BY <1>4, <2>4, <2>5, <2>6
<1>6. CASE outcome # "fine"
  <2>1. End("error")
    BY <1>6 DEF CreateGroup
  <2>2. TypeOK'
    BY <1>1, <1>3, <2>1, OpType DEF TypeOK, Steps
  <2>3. OpInv' /\ ConsistentAfterApply'
    BY <2>1, OpType DEF OpInv, ConsistentAfterApply
  <2>4. RemoteInv'
    BY <1>1, <1>4, <1>6 DEF RemoteInv, At
  <2> QED
    BY <1>4, <2>2, <2>3, <2>4
<1> QED
  BY <1>5, <1>6

LEMMA CreateAddUsersStep ==
    ASSUME IInv, NEW outcome \in Outcomes, CreateAddUsers(outcome)
    PROVE  IInv'
<1> USE DEF IInv
<1> DEFINE users == userIDsFromSet(op.plan.users)
           req == GroupRequest("add", users)
<1>1. At("create", "add") /\ UNCHANGED config
  BY DEF CreateAddUsers
<1>2. op.plan \in Configs /\ op.id \in 1 .. MaxId
  <2>1. op.plan \in Configs /\ op.id \in 0 .. MaxId /\ op.id # 0
    BY <1>1 DEF TypeOK, OpInv, At
  <2> QED
    BY <2>1, IdType
<1>3. users \in SUBSET Users
  BY <1>2, UserIDsType DEF Configs
<1>4. req \in Changes /\ req.verb = "add" /\ req.users = users /\ req.id = op.id
  BY <1>2, <1>3, RequestType, NoGroupIsNoRecord DEF GroupRequest
<1>5. IF users = {} THEN outcome = "fine" /\ NoCall ELSE Call(req, outcome)
  BY DEF CreateAddUsers
<1>6. IF outcome = "fine"
      THEN Goto("get") /\ UNCHANGED state
      ELSE End("error") /\ state' = Stored(Null, TRUE)
  BY DEF CreateAddUsers
<1> HIDE DEF req
<1>7. /\ remote' \in Remotes \cup {NoGroup}
      /\ created' \in 0 .. MaxId
      /\ straggler' \in Changes \cup {NoGroup}
      /\ doubt' \in BOOLEAN
      /\ StragglerInv'
  BY <1>4, <1>5, CallType, CallIsHonest DEF NoCall, TypeOK, StragglerInv
<1>8. ~doubt' => /\ ~doubt
                 /\ \/ outcome # "fine" /\ remote' = remote
                    \/ outcome = "fine" /\ users = {} /\ remote' = remote
                    \/ /\ outcome = "fine"
                       /\ remote # NoGroup
                       /\ remote' = [remote EXCEPT !.users = @ \cup users]
  BY <1>4, <1>5, CallIsHonest DEF NoCall, Accepts, Executed
<1> HIDE DEF users
<1>9. CASE outcome = "fine"
  <2>1. TypeOK'
    BY <1>1, <1>6, <1>7, <1>9, OpType DEF TypeOK, Steps, At
  <2>2. OpInv' /\ ConsistentAfterApply'
    BY <1>1, <1>6, <1>9, OpType DEF OpInv, ConsistentAfterApply, Idle, At
  <2>3. ASSUME ~doubt', remote' # NoGroup
        PROVE  remote'.id = op.id /\ remote'.attr = op.plan.attr /\ remote'.users = users
    <3>1. ~doubt /\ remote # NoGroup /\ remote \in Remotes
      BY <1>8, <1>9, <2>3 DEF TypeOK
    <3>2. remote.id = op.id /\ remote.attr = op.plan.attr /\ remote.users = {}
      BY <1>1, <3>1 DEF RemoteInv, At
    <3>3. \/ remote' = remote /\ users = {}
          \/ remote' = [remote EXCEPT !.users = @ \cup users]
      BY <1>8, <1>9, <2>3
    <3> QED
      BY <3>1, <3>2, <3>3 DEF Remotes
  <2>4. RemoteInv'
    BY <1>1, <1>6, <1>9, <2>3, OpType DEF RemoteInv, At, users
  <2> QED
    BY <1>7, <2>1, <2>2, <2>4
<1>10. CASE outcome # "fine"
  <2>1. /\ state' \in States
        /\ state'.id = op.id /\ state'.attr = op.plan.attr /\ state'.users = Null
    <3>1. state' = [id |-> op.id, attr |-> op.plan.attr, users |-> Null, tainted |-> TRUE]
      BY <1>6, <1>10 DEF Stored
    <3>2. op.plan.attr \in Attrs /\ Null \in UserSets
      BY <1>2 DEF Configs, UserSets
    <3> QED
      BY <1>2, <3>1, <3>2 DEF States
  <2>2. TypeOK'
    BY <1>1, <1>6, <1>7, <1>10, <2>1, OpType DEF TypeOK, Steps
  <2>3. OpInv' /\ ConsistentAfterApply'
    BY <1>6, <1>10, OpType DEF OpInv, ConsistentAfterApply
  <2>4. RemoteInv'
    BY <1>1, <1>6, <1>8, <1>10, <2>1, OpType, NoGroupIsNoRecord
       DEF RemoteInv, Exact, userIDsFromSet, At
  <2> QED
    BY <1>7, <2>2, <2>3, <2>4
<1> QED
  BY <1>9, <1>10

LEMMA CreateRefreshStep ==
    ASSUME IInv, NEW outcome \in GetOutcomes, NEW listed \in BOOLEAN,
           CreateRefresh(outcome, listed)
    PROVE  IInv'
<1> USE DEF IInv
<1> DEFINE users == optionalUsersSetMatchPlan(op.plan.users, ApiUsers(listed))
<1>1. /\ At("create", "get") /\ GetGroup(outcome) /\ End(outcome)
      /\ UNCHANGED <<config, remote, created, straggler>>
      /\ doubt' = (doubt \/ outcome = "panic")
  BY DEF CreateRefresh
<1>2. op.plan \in Configs /\ op.id \in 1 .. MaxId /\ state = NoGroup
  <2>1. op.plan \in Configs /\ op.id \in 0 .. MaxId /\ op.id # 0 /\ state = NoGroup
    BY <1>1 DEF TypeOK, OpInv, At
  <2> QED
    BY <2>1, IdType
<1>3. /\ op' \in [kind : {"none"}, pc : {""}, id : 0 .. MaxId,
                  plan : Configs \cup {NoGroup}, result : {outcome}]
      /\ op'.plan = op.plan
      /\ op'.kind = "none" /\ op'.pc = "" /\ op'.result = outcome
  BY <1>1, OpType DEF GetOutcomes
<1>4. StragglerInv'
  BY <1>1 DEF StragglerInv
<1>5. CASE outcome = "ok"
  <2>1. state' = Stored(users, FALSE)
    BY <1>5 DEF CreateRefresh
  <2>2. remote \in Remotes
    BY <1>1, <1>5 DEF GetGroup, Found, TypeOK
  <2>3. ApiUsers(listed) \in SUBSET Users /\ op.plan.users \in UserSets
    BY <1>2, <2>2 DEF ApiUsers, Remotes, Configs
  <2>4. users \in UserSets
    BY <2>3, ListedUsers
  <2>5. ~doubt => /\ users = op.plan.users
                  /\ remote.id = op.id /\ remote.attr = op.plan.attr
                  /\ remote.users = userIDsFromSet(op.plan.users)
    <3>1. ~doubt => /\ remote.id = op.id /\ remote.attr = op.plan.attr
                    /\ remote.users = userIDsFromSet(op.plan.users)
      BY <1>1, <2>2, NoGroupIsNoRecord DEF RemoteInv, At
    <3> QED
      BY <2>3, <3>1, ListedUsers DEF ApiUsers
  <2> HIDE DEF users
  <2>6. state' \in States /\ state'.id = op.id /\ state'.attr = op.plan.attr
        /\ state'.users = users
    BY <1>2, <2>1, <2>4 DEF Stored, States, Configs
  <2>7. TypeOK'
    BY <1>1, <1>3, <1>5, <2>6 DEF TypeOK, Steps
  <2>8. OpInv' /\ ConsistentAfterApply'
    BY <1>1, <1>3, <1>5, <2>5, <2>6 DEF OpInv, ConsistentAfterApply
  <2>9. RemoteInv'
    BY <1>1, <1>3, <1>5, <2>5, <2>6, NoGroupIsNoRecord DEF RemoteInv, Exact
  <2> QED
    BY <1>4, <2>7, <2>8, <2>9
<1>6. CASE outcome = "error"
  <2>1. state' = Stored(op.plan.users, TRUE)
    BY <1>6 DEF CreateRefresh
  <2>2. state' \in States /\ state'.id = op.id /\ state'.attr = op.plan.attr
        /\ state'.users = op.plan.users
    BY <1>2, <2>1 DEF Stored, States, Configs
  <2>3. TypeOK'
    BY <1>1, <1>3, <1>6, <2>2 DEF TypeOK, Steps
  <2>4. OpInv' /\ ConsistentAfterApply'
    BY <1>3, <1>6 DEF OpInv, ConsistentAfterApply
  <2>5. RemoteInv'
    BY <1>1, <1>3, <1>6, <2>2, NoGroupIsNoRecord DEF RemoteInv, Exact, At
  <2> QED
    BY <1>4, <2>3, <2>4, <2>5
<1>7. CASE outcome = "panic"
  <2>1. state' = state /\ doubt'
    BY <1>1, <1>7 DEF CreateRefresh
  <2>2. TypeOK'
    BY <1>1, <1>3, <1>7, <2>1 DEF TypeOK, Steps
  <2>3. OpInv' /\ RemoteInv' /\ ConsistentAfterApply'
    BY <1>3, <1>7, <2>1 DEF OpInv, RemoteInv, ConsistentAfterApply
  <2> QED
    BY <1>4, <2>2, <2>3
<1> QED
  BY <1>5, <1>6, <1>7 DEF GetOutcomes

-----------------------------------------------------------------------------
(* Read and import.                                                        *)
LEMMA DoesGroupExistStep ==
    ASSUME IInv, NEW outcome \in HeadOutcomes, DoesGroupExist(outcome)
    PROVE  IInv'
<1> USE DEF IInv
<1>1. /\ At("read", "head") /\ UNCHANGED <<config, remote, created, straggler>>
      /\ state # NoGroup /\ op.id = state.id
      /\ ~doubt /\ remote # NoGroup => Exact
  BY DEF DoesGroupExist, OpInv, RemoteInv, At
<1>2. StragglerInv'
  BY DEF DoesGroupExist, StragglerInv, Cleared
<1>3. CASE outcome = "answer" /\ Found
  <2>1. Goto("get") /\ state' = state /\ doubt' = doubt
    BY <1>3 DEF DoesGroupExist, Cleared, Found
  <2>2. TypeOK'
    BY <1>1, <2>1, OpType DEF TypeOK, Steps, At
  <2>3. OpInv' /\ RemoteInv' /\ ConsistentAfterApply'
    BY <1>1, <2>1, OpType DEF OpInv, RemoteInv, ConsistentAfterApply, Idle, Exact, At
  <2> QED
    BY <1>2, <2>2, <2>3
<1>4. CASE outcome = "panic"
  <2>1. End("panic") /\ state' = state /\ doubt' = doubt
    BY <1>4 DEF DoesGroupExist
  <2>2. TypeOK'
    BY <1>1, <2>1, OpType DEF TypeOK, Steps
  <2>3. OpInv' /\ RemoteInv' /\ ConsistentAfterApply'
    BY <1>1, <2>1, OpType DEF OpInv, RemoteInv, ConsistentAfterApply, Exact
  <2> QED
    BY <1>2, <2>2, <2>3
<1>5. CASE outcome # "panic" /\ ~(outcome = "answer" /\ Found)
  <2>1. End("ok") /\ state' = NoGroup
    BY <1>5 DEF DoesGroupExist
  <2>2. doubt' \in BOOLEAN /\ (remote # NoGroup => doubt')
    <3>1. ~doubt /\ remote # NoGroup => Found
      BY <1>1 DEF Exact, Found
    <3> QED
      BY <1>5, <3>1 DEF DoesGroupExist, Cleared, HeadOutcomes, TypeOK
  <2>3. TypeOK'
    BY <1>1, <2>1, <2>2, OpType DEF TypeOK, Steps
  <2>4. OpInv' /\ RemoteInv' /\ ConsistentAfterApply'
    BY <1>1, <2>1, <2>2, OpType DEF OpInv, RemoteInv, ConsistentAfterApply
  <2> QED
    BY <1>2, <2>3, <2>4
<1> QED
  BY <1>3, <1>4, <1>5

LEMMA ReadGetGroupStep ==
    ASSUME IInv, NEW outcome \in GetOutcomes, NEW listed \in BOOLEAN,
           ReadGetGroup(outcome, listed)
    PROVE  IInv'
<1> USE DEF IInv
<1> DEFINE users == optionalUsersSetMatchPlan(state.users, ApiUsers(listed))
<1>1. /\ At("read", "get") /\ End(outcome)
      /\ UNCHANGED <<config, remote, created, straggler>>
      /\ state \in States /\ op.id = state.id
      /\ ~doubt /\ remote # NoGroup => Exact
      /\ doubt' \in BOOLEAN
  BY DEF ReadGetGroup, OpInv, RemoteInv, TypeOK, At
<1>2. StragglerInv'
  BY DEF ReadGetGroup, StragglerInv
<1>3. /\ op' \in [kind : {"none"}, pc : {""}, id : 0 .. MaxId,
                  plan : Configs \cup {NoGroup}, result : {outcome}]
      /\ op'.kind = "none" /\ op'.pc = ""
      /\ op'.plan = op.plan /\ op'.result = outcome
  BY <1>1, OpType DEF GetOutcomes
<1>4. CASE outcome = "ok"
  <2>1. remote \in Remotes /\ remote.id = op.id
    BY <1>4 DEF ReadGetGroup, GetGroup, Found, TypeOK
  <2>2. ApiUsers(listed) \in SUBSET Users /\ state.users \in UserSets
    BY <1>1, <2>1 DEF ApiUsers, Remotes, States
  <2>3. users \in UserSets
    BY <2>2, ListedUsers
  <2>4. ~doubt' => userIDsFromSet(users) = remote.users
    <3>1. CASE doubt
      <4>1. ~doubt' => ApiUsers(listed) # {} /\ ApiUsers(listed) = remote.users
        BY <1>4, <3>1 DEF ReadGetGroup, ApiUsers
      <4> QED
        BY <2>2, <4>1, ListedUsers
    <3>2. CASE ~doubt
      <4>1. remote.users = userIDsFromSet(state.users)
        BY <1>1, <2>1, <3>2, NoGroupIsNoRecord DEF Exact
      <4> QED
        BY <2>2, <4>1, ListedUsers DEF ApiUsers
    <3> QED
      BY <3>1, <3>2
  <2> HIDE DEF users
  <2>5. state' = [state EXCEPT !.attr = remote.attr, !.users = users]
    BY <1>4 DEF ReadGetGroup, users
  <2>6. /\ state' \in States /\ state'.id = state.id
        /\ state'.attr = remote.attr /\ state'.users = users
    BY <1>1, <2>1, <2>3, <2>5 DEF States, Remotes
  <2>7. TypeOK'
    BY <1>1, <1>3, <1>4, <2>6 DEF TypeOK, Steps
  <2>8. OpInv' /\ RemoteInv'
    BY <1>1, <1>3, <2>1, <2>4, <2>6, NoGroupIsNoRecord DEF OpInv, RemoteInv, Exact
  <2>9. ConsistentAfterApply'
    <3>1. op.plan = NoGroup
      BY <1>1 DEF OpInv, At
    <3> QED
      BY <1>3, <3>1 DEF ConsistentAfterApply
  <2> QED
    BY <1>2, <2>7, <2>8, <2>9
<1>5. CASE outcome # "ok"
  <2>1. state' = state /\ doubt' = doubt
    BY <1>5 DEF ReadGetGroup, TypeOK
  <2>2. TypeOK'
    BY <1>1, <1>3, <1>5, <2>1 DEF TypeOK, Steps, GetOutcomes
  <2>3. OpInv' /\ RemoteInv' /\ ConsistentAfterApply'
    BY <1>1, <1>3, <1>5, <2>1, NoGroupIsNoRecord
       DEF OpInv, RemoteInv, ConsistentAfterApply, Exact
  <2> QED
    BY <1>2, <2>2, <2>3
<1> QED
  BY <1>4, <1>5

LEMMA ImportStep ==
    ASSUME IInv, NEW listed \in BOOLEAN, Import(listed)
    PROVE  IInv'
<1> USE DEF IInv
<1> DEFINE users == optionalUsersSetMatchPlan(Null, ApiUsers(listed))
<1>1. /\ Idle /\ UNCHANGED <<config, remote, created, straggler>>
      /\ remote \in Remotes
      /\ op' = [op EXCEPT !.plan = NoGroup, !.result = "ok"]
      /\ doubt' \in BOOLEAN
      /\ ~doubt' => remote.users = ApiUsers(listed)
  BY DEF Import, TypeOK, ApiUsers
<1>2. StragglerInv'
  BY DEF Import, StragglerInv
<1>3. ApiUsers(listed) \in SUBSET Users /\ Null \in UserSets
  BY <1>1 DEF ApiUsers, Remotes, UserSets
<1>4. users \in UserSets /\ (~doubt' => userIDsFromSet(users) = remote.users)
  <2>1. userIDsFromSet(Null) = {}
    BY DEF userIDsFromSet
  <2> QED
    BY <1>1, <1>3, <2>1, ListedUsers
<1> HIDE DEF users
<1>5. state' = [id |-> remote.id, attr |-> remote.attr, users |-> users,
                tainted |-> FALSE]
  BY DEF Import, users
<1>6. state' \in States
  BY <1>1, <1>4, <1>5 DEF States, Remotes
<1>7. /\ op'.kind = "none" /\ op'.pc = "" /\ op'.plan = NoGroup
      /\ op' \in [kind : {"none"}, pc : {""}, id : 0 .. MaxId,
                  plan : {NoGroup}, result : {"ok"}]
  <2>1. op.kind = "none" /\ op.pc = ""
    BY <1>1 DEF Idle, TypeOK, Steps
  <2> QED
    BY <1>1, <2>1 DEF TypeOK
<1>8. TypeOK'
  BY <1>1, <1>6, <1>7 DEF TypeOK, Steps
<1>9. OpInv' /\ RemoteInv' /\ ConsistentAfterApply'
  BY <1>1, <1>4, <1>5, <1>6, <1>7, NoGroupIsNoRecord
     DEF OpInv, RemoteInv, ConsistentAfterApply, Exact
<1> QED
  BY <1>2, <1>8, <1>9

-----------------------------------------------------------------------------
(* Update.                                                                 *)
LEMMA UpdateGroupStep ==
    ASSUME IInv, NEW outcome \in Outcomes, UpdateGroup(outcome)
    PROVE  IInv'
<1> USE DEF IInv
<1> DEFINE req == GroupRequest("put", {})
<1>1. /\ At("update", "put") /\ UNCHANGED <<config, state>>
      /\ Call(req, outcome) /\ op.plan # NoGroup
  BY DEF UpdateGroup, OpInv, At
<1>2. req \in Changes /\ req.verb = "put" /\ req.attr = op.plan.attr
  BY <1>1, RequestType DEF GroupRequest
<1> HIDE DEF req
<1>3. /\ remote' \in Remotes \cup {NoGroup}
      /\ created' \in 0 .. MaxId
      /\ straggler' \in Changes \cup {NoGroup}
      /\ doubt' \in BOOLEAN
      /\ StragglerInv'
  BY <1>1, <1>2, CallType, CallIsHonest
<1>4. ~doubt' => /\ ~doubt
                 /\ \/ outcome = "clean" /\ remote' = remote
                    \/ /\ outcome = "fine"
                       /\ remote # NoGroup
                       /\ remote' = [remote EXCEPT !.attr = op.plan.attr]
  BY <1>1, <1>2, CallIsHonest DEF Accepts, Executed
<1>5. CASE outcome = "fine"
  <2>1. Goto("add")
    BY <1>5 DEF UpdateGroup
  <2>2. TypeOK'
    BY <1>1, <1>3, <2>1, OpType DEF TypeOK, Steps, At
  <2>3. OpInv' /\ ConsistentAfterApply'
    BY <1>1, <2>1, OpType DEF OpInv, ConsistentAfterApply, Idle, At
  <2>4. ASSUME ~doubt', remote' # NoGroup
        PROVE  /\ remote'.id = op.id /\ remote'.attr = op.plan.attr
               /\ remote'.users = userIDsFromSet(state.users)
    <3>1. ~doubt /\ remote \in Remotes /\ remote # NoGroup
          /\ remote' = [remote EXCEPT !.attr = op.plan.attr]
      BY <1>4, <1>5, <2>4 DEF TypeOK
    <3>2. Exact /\ op.id = state.id
      BY <1>1, <3>1 DEF RemoteInv, OpInv, At
    <3> QED
      BY <3>1, <3>2 DEF Exact, Remotes
  <2>5. RemoteInv'
    BY <1>1, <2>1, <2>4, OpType DEF RemoteInv, At
  <2> QED
    BY <1>3, <2>2, <2>3, <2>5
<1>6. CASE outcome # "fine"
  <2>1. End("error")
    BY <1>6 DEF UpdateGroup
  <2>2. TypeOK'
    BY <1>1, <1>3, <2>1, OpType DEF TypeOK, Steps
  <2>3. OpInv' /\ ConsistentAfterApply'
    BY <2>1, OpType DEF OpInv, ConsistentAfterApply
  <2>4. RemoteInv'
    BY <1>1, <1>4, <1>6, <2>1, OpType DEF RemoteInv, Exact, At
  <2> QED
    BY <1>3, <2>2, <2>3, <2>4
<1> QED
  BY <1>5, <1>6

(* What the membership calls of Update have in common: the plan and the    *)
(* state are well formed, and so is what they store.                       *)
LEMMA UpdateFacts ==
    ASSUME IInv, op.kind = "update"
    PROVE  /\ op.plan \in Configs /\ op.plan # NoGroup
           /\ state \in States /\ state # NoGroup
           /\ op.id = state.id
           /\ toAdd(state.users, op.plan.users) \in SUBSET Users
           /\ toRemove(state.users, op.plan.users) \in SUBSET Users
           /\ userIDsFromSet(state.users) \in SUBSET Users
           /\ \A users \in UserSets :
                /\ Stored(users, FALSE) \in States
                /\ Stored(users, FALSE).id = op.id
                /\ Stored(users, FALSE).attr = op.plan.attr
                /\ Stored(users, FALSE).users = users
<1>1. /\ op.plan \in Configs /\ op.plan # NoGroup
      /\ state \in States /\ state # NoGroup
      /\ op.id = state.id
  BY DEF IInv, TypeOK, OpInv
<1>2. /\ state.users \in UserSets /\ op.plan.users \in UserSets
      /\ state.id \in 1 .. MaxId /\ op.plan.attr \in Attrs
  BY <1>1 DEF States, Configs
<1>3. ASSUME NEW users \in UserSets
      PROVE  /\ Stored(users, FALSE) \in States
             /\ Stored(users, FALSE).id = op.id
             /\ Stored(users, FALSE).attr = op.plan.attr
             /\ Stored(users, FALSE).users = users
  BY <1>1, <1>2 DEF Stored, States
<1> QED
  BY <1>1, <1>2, <1>3, UserIDsType DEF toAdd, toRemove

LEMMA UpdateAddUsersStep ==
    ASSUME IInv, NEW outcome \in Outcomes, UpdateAddUsers(outcome)
    PROVE  IInv'
<1> USE DEF IInv
<1> DEFINE new == toAdd(state.users, op.plan.users)
           req == GroupRequest("add", new)
<1>1. At("update", "add") /\ UNCHANGED config /\ op.kind = "update"
  BY DEF UpdateAddUsers, At
<1>2. op.plan # NoGroup /\ new \in SUBSET Users
  BY <1>1, UpdateFacts
<1>3. req \in Changes /\ req.verb = "add" /\ req.users = new
  BY <1>2, RequestType DEF GroupRequest
<1>4. IF new = {} THEN outcome = "fine" /\ NoCall ELSE Call(req, outcome)
  BY DEF UpdateAddUsers
<1>5. IF outcome = "fine"
      THEN Goto("remove") /\ UNCHANGED state
      ELSE End("error") /\ state' = Stored(state.users, FALSE)
  BY DEF UpdateAddUsers
<1> HIDE DEF req
<1>6. /\ remote' \in Remotes \cup {NoGroup}
      /\ created' \in 0 .. MaxId
      /\ straggler' \in Changes \cup {NoGroup}
      /\ doubt' \in BOOLEAN
      /\ StragglerInv'
  BY <1>3, <1>4, CallType, CallIsHonest DEF NoCall, TypeOK, StragglerInv
<1>7. ~doubt' => /\ ~doubt
                 /\ \/ outcome # "fine" /\ remote' = remote
                    \/ outcome = "fine" /\ new = {} /\ remote' = remote
                    \/ /\ outcome = "fine"
                       /\ remote # NoGroup
                       /\ remote' = [remote EXCEPT !.users = @ \cup new]
  BY <1>3, <1>4, CallIsHonest DEF NoCall, Accepts, Executed
<1>8. ~doubt /\ remote # NoGroup =>
        /\ remote \in Remotes
        /\ remote.id = op.id /\ remote.attr = op.plan.attr
        /\ remote.users = userIDsFromSet(state.users)
  BY <1>1 DEF RemoteInv, TypeOK, At
<1> HIDE DEF new
<1>9. CASE outcome = "fine"
  <2>1. TypeOK'
    BY <1>1, <1>5, <1>6, <1>9, OpType DEF TypeOK, Steps, At
  <2>2. OpInv' /\ ConsistentAfterApply'
    BY <1>1, <1>5, <1>9, OpType DEF OpInv, ConsistentAfterApply, Idle, At
  <2>3. ASSUME ~doubt', remote' # NoGroup
        PROVE  /\ remote'.id = op.id /\ remote'.attr = op.plan.attr
               /\ remote'.users = userIDsFromSet(state.users) \cup new
    BY <1>7, <1>8, <1>9, <2>3 DEF Remotes
  <2>4. RemoteInv'
    BY <1>1, <1>5, <1>9, <2>3, OpType DEF RemoteInv, At, new
  <2> QED
    BY <1>6, <2>1, <2>2, <2>4
<1>10. CASE outcome # "fine"
  <2>1. state.users \in UserSets
    BY <1>1, UpdateFacts DEF States
  <2>2. /\ state' \in States /\ state'.id = op.id
        /\ state'.attr = op.plan.attr /\ state'.users = state.users
    BY <1>1, <1>5, <1>10, <2>1, UpdateFacts
  <2>3. TypeOK'
    BY <1>1, <1>5, <1>6, <1>10, <2>2, OpType DEF TypeOK, Steps
  <2>4. OpInv' /\ ConsistentAfterApply'
    BY <1>5, <1>10, OpType DEF OpInv, ConsistentAfterApply
  <2>5. RemoteInv'
    BY <1>5, <1>7, <1>8, <1>10, <2>2, OpType, NoGroupIsNoRecord DEF RemoteInv, Exact
  <2> QED
    BY <1>6, <2>3, <2>4, <2>5
<1> QED
  BY <1>9, <1>10

LEMMA UpdateRemoveUsersStep ==
    ASSUME IInv, NEW outcome \in Outcomes, UpdateRemoveUsers(outcome)
    PROVE  IInv'
<1> USE DEF IInv
<1> DEFINE old == toRemove(state.users, op.plan.users)
           afterwards == userIDsFromSet(state.users) \cup toAdd(state.users, op.plan.users)
           req == GroupRequest("remove", old)
<1>1. At("update", "remove") /\ UNCHANGED config /\ op.kind = "update"
  BY DEF UpdateRemoveUsers, At
<1>2. /\ op.plan # NoGroup /\ old \in SUBSET Users
      /\ afterwards \in UserSets /\ userIDsFromSet(afterwards) = afterwards
  <2>1. afterwards \in SUBSET Users
    BY <1>1, UpdateFacts
  <2>2. afterwards # Null
    BY <2>1, GroupAssumption DEF Null
  <2> QED
    BY <1>1, <2>1, <2>2, UpdateFacts DEF UserSets, userIDsFromSet
<1>3. req \in Changes /\ req.verb = "remove" /\ req.users = old
  BY <1>2, RequestType DEF GroupRequest
<1>4. IF old = {} THEN outcome = "fine" /\ NoCall ELSE Call(req, outcome)
  BY DEF UpdateRemoveUsers
<1>5. IF outcome = "fine"
      THEN Goto("get") /\ UNCHANGED state
      ELSE End("error") /\ state' = Stored(afterwards, FALSE)
  BY DEF UpdateRemoveUsers
<1> HIDE DEF req
<1>6. /\ remote' \in Remotes \cup {NoGroup}
      /\ created' \in 0 .. MaxId
      /\ straggler' \in Changes \cup {NoGroup}
      /\ doubt' \in BOOLEAN
      /\ StragglerInv'
  BY <1>3, <1>4, CallType, CallIsHonest DEF NoCall, TypeOK, StragglerInv
<1>7. ~doubt' => /\ ~doubt
                 /\ \/ outcome # "fine" /\ remote' = remote
                    \/ outcome = "fine" /\ old = {} /\ remote' = remote
                    \/ /\ outcome = "fine"
                       /\ remote # NoGroup
                       /\ remote' = [remote EXCEPT !.users = @ \ old]
  BY <1>3, <1>4, CallIsHonest DEF NoCall, Accepts, Executed
<1>8. ~doubt /\ remote # NoGroup =>
        /\ remote \in Remotes
        /\ remote.id = op.id /\ remote.attr = op.plan.attr
        /\ remote.users = afterwards
  BY <1>1 DEF RemoteInv, TypeOK, At
<1>9. afterwards \ old = userIDsFromSet(op.plan.users)
  BY DiffIsComplete
<1> HIDE DEF old, afterwards
<1>10. CASE outcome = "fine"
  <2>1. TypeOK'
    BY <1>1, <1>5, <1>6, <1>10, OpType DEF TypeOK, Steps, At
  <2>2. OpInv' /\ ConsistentAfterApply'
    BY <1>1, <1>5, <1>10, OpType DEF OpInv, ConsistentAfterApply, Idle, At
  <2>3. ASSUME ~doubt', remote' # NoGroup
        PROVE  /\ remote'.id = op.id /\ remote'.attr = op.plan.attr
               /\ remote'.users = userIDsFromSet(op.plan.users)
    BY <1>7, <1>8, <1>9, <1>10, <2>3 DEF Remotes
  <2>4. RemoteInv'
    BY <1>1, <1>5, <1>10, <2>3, OpType DEF RemoteInv, At
  <2> QED
    BY <1>6, <2>1, <2>2, <2>4
<1>11. CASE outcome # "fine"
  <2>1. /\ state' \in States /\ state'.id = op.id
        /\ state'.attr = op.plan.attr /\ state'.users = afterwards
    BY <1>1, <1>2, <1>5, <1>11, UpdateFacts
  <2>2. TypeOK'
    BY <1>1, <1>5, <1>6, <1>11, <2>1, OpType DEF TypeOK, Steps
  <2>3. OpInv' /\ ConsistentAfterApply'
    BY <1>5, <1>11, OpType DEF OpInv, ConsistentAfterApply
  <2>4. RemoteInv'
    BY <1>2, <1>5, <1>7, <1>8, <1>11, <2>1, OpType, NoGroupIsNoRecord
       DEF RemoteInv, Exact
  <2> QED
    BY <1>6, <2>2, <2>3, <2>4
<1> QED
  BY <1>10, <1>11

LEMMA UpdateRefreshStep ==
    ASSUME IInv, NEW outcome \in GetOutcomes, NEW listed \in BOOLEAN,
           UpdateRefresh(outcome, listed)
    PROVE  IInv'
<1> USE DEF IInv
<1> DEFINE users == optionalUsersSetMatchPlan(op.plan.users, ApiUsers(listed))
<1>1. /\ At("update", "get") /\ op.kind = "update"
      /\ GetGroup(outcome) /\ End(outcome)
      /\ UNCHANGED <<config, remote, created, straggler>>
      /\ doubt' = (doubt \/ outcome = "panic")
      /\ StragglerInv'
  BY DEF UpdateRefresh, StragglerInv, At
<1>2. /\ op' \in [kind : {"none"}, pc : {""}, id : 0 .. MaxId,
                  plan : Configs \cup {NoGroup}, result : {outcome}]
      /\ op'.plan = op.plan
      /\ op'.kind = "none" /\ op'.pc = "" /\ op'.result = outcome
  BY <1>1, OpType DEF GetOutcomes
<1>3. op.plan.users \in UserSets
  BY <1>1, UpdateFacts DEF Configs
<1>4. ~doubt /\ remote # NoGroup =>
        /\ remote.id = op.id /\ remote.attr = op.plan.attr
        /\ remote.users = userIDsFromSet(op.plan.users)
  BY <1>1 DEF RemoteInv, At
<1>5. CASE outcome = "ok"
  <2>1. remote \in Remotes /\ remote # NoGroup /\ remote.id = op.id
    BY <1>1, <1>5 DEF GetGroup, Found, TypeOK
  <2>2. ApiUsers(listed) \in SUBSET Users
    BY <2>1 DEF ApiUsers, Remotes
  <2>3. users \in UserSets /\ (~doubt => users = op.plan.users)
    BY <1>3, <1>4, <2>1, <2>2, ListedUsers DEF ApiUsers
  <2>4. state' = [Stored(users, FALSE) EXCEPT !.attr = remote.attr]
    BY <1>5 DEF UpdateRefresh
  <2> HIDE DEF users
  <2>5. /\ state' \in States /\ state'.id = op.id
        /\ state'.attr = remote.attr /\ state'.users = users
    BY <1>1, <2>1, <2>3, <2>4, UpdateFacts DEF States, Remotes
  <2>6. TypeOK'
    BY <1>1, <1>2, <1>5, <2>5 DEF TypeOK, Steps
  <2>7. OpInv' /\ ConsistentAfterApply'
    BY <1>1, <1>2, <1>4, <1>5, <2>1, <2>3, <2>5 DEF OpInv, ConsistentAfterApply
  <2>8. RemoteInv'
    BY <1>1, <1>2, <1>4, <1>5, <2>3, <2>5, NoGroupIsNoRecord DEF RemoteInv, Exact
  <2> QED
    BY <1>1, <2>6, <2>7, <2>8
<1>6. CASE outcome = "error"
  <2>1. state' = Stored(op.plan.users, FALSE)
    BY <1>6 DEF UpdateRefresh
  <2>2. /\ state' \in States /\ state'.id = op.id
        /\ state'.attr = op.plan.attr /\ state'.users = op.plan.users
    BY <1>1, <1>3, <2>1, UpdateFacts
  <2>3. TypeOK'
    BY <1>1, <1>2, <1>6, <2>2 DEF TypeOK, Steps
  <2>4. OpInv' /\ ConsistentAfterApply'
    BY <1>2, <1>6 DEF OpInv, ConsistentAfterApply
  <2>5. RemoteInv'
    BY <1>1, <1>2, <1>4, <1>6, <2>2, NoGroupIsNoRecord DEF RemoteInv, Exact
  <2> QED
    BY <1>1, <2>3, <2>4, <2>5
<1>7. CASE outcome = "panic"
  <2>1. state' = state /\ doubt'
    BY <1>1, <1>7 DEF UpdateRefresh
  <2>2. TypeOK'
    BY <1>1, <1>2, <1>7, <2>1 DEF TypeOK, Steps
  <2>3. OpInv' /\ RemoteInv' /\ ConsistentAfterApply'
    BY <1>2, <1>7, <2>1 DEF OpInv, RemoteInv, ConsistentAfterApply
  <2> QED
    BY <1>1, <2>2, <2>3
<1> QED
  BY <1>5, <1>6, <1>7 DEF GetOutcomes

(* Update always leaves a resource in the state.                           *)
LEMMA UpdateKeepsState == IInv /\ Update => state' \in States
<1> SUFFICES ASSUME IInv, Update
             PROVE  state' \in States
  OBVIOUS
<1>1. CASE BeginUpdate
  BY <1>1 DEF BeginUpdate, IInv, TypeOK
<1>2. CASE \E outcome \in Outcomes :
             UpdateGroup(outcome) \/ UpdateAddUsers(outcome) \/ UpdateRemoveUsers(outcome)
  <2>1. op.kind = "update"
    BY <1>2 DEF UpdateGroup, UpdateAddUsers, UpdateRemoveUsers, At
  <2>2. /\ userIDsFromSet(state.users) \cup toAdd(state.users, op.plan.users) \in UserSets
        /\ state.users \in UserSets /\ state \in States
    BY <2>1, UpdateFacts DEF UserSets, States
  <2>3. \A users \in UserSets : Stored(users, FALSE) \in States
    BY <2>1, UpdateFacts
  <2> QED
    BY <1>2, <2>2, <2>3 DEF UpdateGroup, UpdateAddUsers, UpdateRemoveUsers
<1>3. CASE \E outcome \in GetOutcomes, listed \in BOOLEAN : UpdateRefresh(outcome, listed)
  <2>1. PICK outcome \in GetOutcomes, listed \in BOOLEAN : UpdateRefresh(outcome, listed)
    BY <1>3
  <2>2. op.kind = "update"
    BY <2>1 DEF UpdateRefresh, At
  <2>4. /\ op.plan.users \in UserSets /\ state \in States
        /\ \A users \in UserSets : Stored(users, FALSE) \in States
    BY <2>2, UpdateFacts DEF Configs
  <2>5. CASE outcome = "ok"
    <3>1. remote \in Remotes
      BY <2>1, <2>5 DEF UpdateRefresh, GetGroup, Found, IInv, TypeOK
    <3>2. optionalUsersSetMatchPlan(op.plan.users, ApiUsers(listed)) \in UserSets
      BY <2>4, <3>1, ListedUsers DEF ApiUsers, Remotes
    <3> QED
      BY <2>1, <2>4, <2>5, <3>1, <3>2 DEF UpdateRefresh, States, Remotes
  <2>6. CASE outcome # "ok"
    BY <2>1, <2>4, <2>6 DEF UpdateRefresh, GetOutcomes
  <2> QED
    BY <2>5, <2>6
<1> QED
  BY <1>1, <1>2, <1>3 DEF Update

-----------------------------------------------------------------------------
(* Delete.                                                                 *)
LEMMA DeleteGroupStep ==
    ASSUME IInv, NEW outcome \in Outcomes, DeleteGroup(outcome)
    PROVE  IInv'
<1> USE DEF IInv
<1> DEFINE req == GroupRequest("delete", {})
           result == IF outcome = "fine" THEN "ok" ELSE "error"
<1>1. /\ At("delete", "delete") /\ Call(req, outcome) /\ op.plan # NoGroup
      /\ End(result) /\ UNCHANGED config
      /\ state' = IF outcome = "fine" THEN NoGroup ELSE state
  BY DEF DeleteGroup, OpInv, At
<1>2. req \in Changes /\ req.verb = "delete"
  BY <1>1, RequestType DEF GroupRequest
<1> HIDE DEF req
<1>3. /\ remote' \in Remotes \cup {NoGroup}
      /\ created' \in 0 .. MaxId
      /\ straggler' \in Changes \cup {NoGroup}
      /\ doubt' \in BOOLEAN
      /\ StragglerInv'
  BY <1>1, <1>2, CallType, CallIsHonest
<1>4. /\ outcome = "fine" => remote' = NoGroup
      /\ ~doubt' => ~doubt /\ (outcome = "fine" \/ remote' = remote)
  BY <1>1, <1>2, CallIsHonest DEF Call, Perform, Executed
<1>5. /\ op' \in [kind : {"none"}, pc : {""}, id : 0 .. MaxId,
                  plan : Configs \cup {NoGroup}, result : {result}]
      /\ op'.kind = "none" /\ op'.pc = "" /\ op'.result = result
  BY <1>1, OpType
<1>6. TypeOK'
  BY <1>1, <1>3, <1>5 DEF TypeOK, Steps
<1>7. OpInv' /\ ConsistentAfterApply'
  BY <1>1, <1>5 DEF OpInv, ConsistentAfterApply
<1>8. RemoteInv'
  BY <1>1, <1>4, <1>5 DEF RemoteInv, Exact, At
<1> QED
  BY <1>3, <1>6, <1>7, <1>8

-----------------------------------------------------------------------------
LEMMA NextIInv == IInv /\ [Next]_vars => IInv'
<1>1. ASSUME IInv, UNCHANGED vars
      PROVE  IInv'
  <2>0. TypeOK /\ UNCHANGED <<config, state, remote, created, op, straggler, doubt>>
    BY <1>1 DEF vars, IInv
  <2>1. TypeOK'
    <3>1. /\ config' = config /\ state' = state /\ remote' = remote
          /\ created' = created /\ straggler' = straggler /\ doubt' = doubt
      BY <2>0
    <3>2. op' = op
      BY <2>0
    <3>3. op' \in [kind : {"none", "create", "read", "update", "delete"},
                   pc : {"", "post", "add", "get", "head", "put", "remove", "delete"},
                   id : 0 .. MaxId,
                   plan : Configs \cup {NoGroup},
                   result : {"none", "ok", "error", "panic"}]
      BY <2>0, <3>2 DEF TypeOK
    <3>4. <<op'.kind, op'.pc>> \in Steps
      BY <2>0, <3>2 DEF TypeOK
    <3> QED
      BY <2>0, <3>1, <3>3, <3>4 DEF TypeOK
  <2> USE <1>1, <2>0 DEF IInv
  <2>2. OpInv' /\ StragglerInv' /\ ConsistentAfterApply'
    BY DEF OpInv, StragglerInv, ConsistentAfterApply, Idle
  <2>3. RemoteInv'
    BY DEF RemoteInv, Exact
  <2> QED
    BY <2>1, <2>2, <2>3
<1>2. ASSUME IInv, Create
      PROVE  IInv'
  BY <1>2, BeginStep, CreateGroupStep, CreateAddUsersStep, CreateRefreshStep
     DEF Create
<1>3. ASSUME IInv, Read
      PROVE  IInv'
  BY <1>3, BeginStep, DoesGroupExistStep, ReadGetGroupStep, ImportStep DEF Read
<1>4. ASSUME IInv, Update
      PROVE  IInv'
  BY <1>4, BeginStep, UpdateGroupStep, UpdateAddUsersStep, UpdateRemoveUsersStep,
     UpdateRefreshStep DEF Update
<1>5. ASSUME IInv, Delete
      PROVE  IInv'
  BY <1>5, BeginStep, DeleteGroupStep DEF Delete
<1> QED
  BY <1>1, <1>2, <1>3, <1>4, <1>5, EnvironmentStep DEF Next

(* IInv holds of every reachable state.                                    *)
THEOREM Invariance == Spec => []IInv
<1>1. Init => IInv
  BY InitIInv
<1>2. IInv /\ [Next]_vars => IInv'
  BY NextIInv
<1> QED
  BY <1>1, <1>2, PTL DEF Spec

(* The state keeps its shape.                                              *)
THEOREM TypeCorrect == Spec => []TypeOK
<1>1. IInv => TypeOK
  BY DEF IInv
<1> QED
  BY <1>1, Invariance, PTL

(* Without one of the named events no group escapes Terraform's state, and *)
(* the state is exact, for every set of users and every history.           *)
THEOREM Tracked == Spec => []TrackedUnlessInDoubt
<1>1. IInv => TrackedUnlessInDoubt
  BY DEF IInv, RemoteInv, TrackedUnlessInDoubt, Idle
<1> QED
  BY <1>1, Invariance, PTL

(* An apply that reports success has stored exactly the plan.              *)
THEOREM Consistent == Spec => []ConsistentAfterApply
<1>1. IInv => ConsistentAfterApply
  BY DEF IInv
<1> QED
  BY <1>1, Invariance, PTL

(* No call of an update takes away a member the plan keeps.                *)
THEOREM KeptMembers == Spec => KeptMembersStay
<1> DEFINE A == op.kind = "update" /\ op' # op /\ Found =>
                  \A u \in remote.users \cap userIDsFromSet(op.plan.users) :
                    u \in remote'.users
<1>1. ASSUME IInv, [Next]_vars
      PROVE  [A]_vars
  <2> SUFFICES ASSUME Next, op.kind = "update", op' # op, Found
               PROVE  \A u \in remote.users \cap userIDsFromSet(op.plan.users) :
                        u \in remote'.users
    BY <1>1 DEF vars
  <2>1. remote \in Remotes
    BY <1>1 DEF IInv, TypeOK, Found
  <2>2. CASE remote' = remote
    BY <2>2
  <2>3. ASSUME NEW outcome \in Outcomes, NEW verb \in {"put", "add"}, NEW users,
               Call(GroupRequest(verb, users), outcome)
        PROVE  remote.users \subseteq remote'.users
    BY <2>1, <2>3 DEF Call, Perform, Executed, GroupRequest, Remotes
  <2>4. ASSUME NEW outcome \in Outcomes, NEW users,
               Call(GroupRequest("remove", users), outcome)
        PROVE  remote.users \ users \subseteq remote'.users
    BY <2>1, <2>4 DEF Call, Perform, Executed, GroupRequest, Remotes
  <2>5. Update
    BY DEF Next, Environment, LateEffect, DeletedOutside, EditConfig, Create, Read,
           Delete, BeginCreate, CreateGroup, CreateAddUsers, CreateRefresh,
           BeginRead, DoesGroupExist, Import, ReadGetGroup, BeginDelete,
           DeleteGroup, Idle, At
  <2>6. CASE \E outcome \in Outcomes : UpdateGroup(outcome) \/ UpdateAddUsers(outcome)
    BY <2>2, <2>3, <2>6 DEF UpdateGroup, UpdateAddUsers, NoCall
  <2>7. CASE \E outcome \in Outcomes : UpdateRemoveUsers(outcome)
    <3>1. PICK outcome \in Outcomes : UpdateRemoveUsers(outcome)
      BY <2>7
    <3>2. CASE toRemove(state.users, op.plan.users) = {}
      BY <2>2, <3>1, <3>2 DEF UpdateRemoveUsers, NoCall
    <3>3. CASE toRemove(state.users, op.plan.users) # {}
      BY <2>4, <3>1, <3>3 DEF UpdateRemoveUsers, toRemove
    <3> QED
      BY <3>2, <3>3
  <2>8. CASE \E outcome \in GetOutcomes, listed \in BOOLEAN :
               UpdateRefresh(outcome, listed)
    BY <2>2, <2>8 DEF UpdateRefresh
  <2> QED
    BY <2>5, <2>6, <2>7, <2>8 DEF Update, BeginUpdate, Idle
<1> QED
  BY <1>1, Invariance, PTL DEF Spec, KeptMembersStay

(* Only a Read or a Delete without an error forgets a group.               *)
THEOREM NeverForgotten == Spec => NeverForgottenOnError
<1> DEFINE A == state # NoGroup /\ state' = NoGroup =>
                  op.kind \in {"delete", "read"} /\ op'.result = "ok"
<1>1. ASSUME IInv, [Next]_vars
      PROVE  [A]_vars
  <2> SUFFICES ASSUME Next, state # NoGroup, state' = NoGroup
               PROVE  op.kind \in {"delete", "read"} /\ op'.result = "ok"
    BY <1>1 DEF vars
  <2>3. ~Create
    BY <1>1 DEF Create, BeginCreate, CreateGroup, CreateAddUsers, CreateRefresh, IInv,
                OpInv, At
  <2>4. ~Environment
    BY DEF Environment, LateEffect, DeletedOutside, EditConfig
  <2>5. CASE Read
    <3>1. CASE \E outcome \in HeadOutcomes : DoesGroupExist(outcome)
      <4>1. PICK outcome \in HeadOutcomes : DoesGroupExist(outcome)
        BY <3>1
      <4>2. At("read", "head") /\ End("ok")
        BY <4>1 DEF DoesGroupExist
      <4> QED
        BY <1>1, <4>2, OpType DEF At, IInv
    <3>2. CASE \E outcome \in GetOutcomes, listed \in BOOLEAN :
                 ReadGetGroup(outcome, listed)
      <4>1. PICK outcome \in GetOutcomes, listed \in BOOLEAN :
              ReadGetGroup(outcome, listed)
        BY <3>2
      <4>2. At("read", "get") /\ End(outcome) /\ outcome = "ok"
        BY <4>1 DEF ReadGetGroup
      <4> QED
        BY <1>1, <4>2, OpType DEF At, IInv
    <3> QED
      BY <2>5, <3>1, <3>2 DEF Read, BeginRead, Import
  <2>6. ~Update
    BY <1>1, UpdateKeepsState, NoGroupIsNoRecord
  <2>7. CASE Delete
    <3>1. PICK outcome \in Outcomes : DeleteGroup(outcome)
      BY <2>7 DEF Delete, BeginDelete
    <3>2. At("delete", "delete") /\ outcome = "fine" /\ End("ok")
      BY <3>1 DEF DeleteGroup
    <3> QED
      BY <1>1, <3>2, OpType DEF At, IInv
  <2> QED
    BY <2>3, <2>4, <2>5, <2>6, <2>7 DEF Next
<1> QED
  BY <1>1, Invariance, PTL DEF Spec, NeverForgottenOnError
===============================================================================
