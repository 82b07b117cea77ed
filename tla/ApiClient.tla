------------------------------- MODULE ApiClient -------------------------------
(***************************************************************************)
(* The HTTP engine under every resource of the provider                    *)
(* (api_client/api_client.go, api_client/api_client_retry.go).             *)
(*                                                                         *)
(* A method call runs roundTripWithRetry: up to MaxAttempts round trips    *)
(* with a backoff sleep between them.  Every verb is retried alike, POST   *)
(* and DELETE included, and the request context is context.Background, so  *)
(* the sleeps are never cancelled.  The network may lose a request, delay  *)
(* it past the 10 s client timeout (the server then executes it while the  *)
(* client is already retrying or has returned), or lose the reply.         *)
(*                                                                         *)
(* Durations are in units of retryBaseDelay (250 ms).                      *)
(***************************************************************************)
EXTENDS Integers

CONSTANTS
    Calls,          \* the method calls (Get, Post, ...) the resources make
    MaxAttempts,    \* maxHTTPRetryAttempts (5)
    RetryMaxDelay,  \* retryMaxDelay (16 s)
    Second,         \* time.Second in the unit of time
    RetryAfterCap,  \* retryAfterCap (2 min)
    IntRange,       \* how many values time.Duration has (2^64 in the code)
    RetryAfters     \* values of a Retry-After header; 0 is none, or not > 0

ASSUME MaxAttemptsAssumption == MaxAttempts \in Nat \ {0}

ASSUME DurationAssumption ==
    /\ RetryMaxDelay \in Nat
    /\ Second \in Nat
    /\ RetryAfterCap \in Nat
    /\ RetryMaxDelay <= RetryAfterCap
    /\ IntRange \in Nat \ {0}
    /\ RetryAfters \subseteq Nat
    /\ 0 \in RetryAfters

VARIABLES
    call,       \* call[c]: where the call is in the retry loop
    reply,      \* reply[c]: the response on its way for the current attempt
    wire,       \* requests <<c, attempt>> that the server has not handled
    applied     \* requests <<c, attempt>> whose effect the server executed

clientVars == <<call, reply, wire, applied>>

-----------------------------------------------------------------------------
Attempts == 0 .. MaxAttempts - 1
Requests == Calls \X Attempts

(* HTTP statuses: below 400; a 4xx and a 500 that are not retried; 429;    *)
(* the other retriable ones (408, 502, 503, 504).                          *)
Statuses == {"ok", "rejected", "error", "throttled", "unavailable"}

isRetriableHTTPStatus(status) == status \in {"throttled", "unavailable"}

Responses == [status : Statuses, retryAfter : RetryAfters]
NoResponse == [status |-> "none", retryAfter |-> 0]

(* time.Duration(s) * time.Second is a two's complement product, so a      *)
(* large Retry-After wraps around.                                         *)
Wrap(n) == ((n + IntRange \div 2) % IntRange) - IntRange \div 2

PowersOfTwo == [k \in 0 .. 6 |->
    CASE k = 0 -> 1 [] k = 1 -> 2 [] k = 2 -> 4 [] k = 3 -> 8
      [] k = 4 -> 16 [] k = 5 -> 32 [] k = 6 -> 64]

AtMost(bound, n) == IF n > bound THEN bound ELSE n

(* Mutant: a Retry-After is taken as it is.                                *)
UncappedRetryDelay(attempt, res) ==
    IF res.status = "throttled" /\ res.retryAfter > 0
    THEN Wrap(res.retryAfter * Second)
    ELSE AtMost(RetryMaxDelay, PowersOfTwo[AtMost(6, attempt)])

retryDelay(attempt, res) ==
    IF res.status = "throttled" /\ res.retryAfter > 0
    THEN AtMost(RetryAfterCap, Wrap(res.retryAfter * Second))
    ELSE AtMost(RetryMaxDelay, PowersOfTwo[AtMost(6, attempt)])

(* sleepCtx returns at once when the duration is not positive.             *)
sleepCtx(d) == IF d <= 0 THEN 0 ELSE d

-----------------------------------------------------------------------------
ClientInit ==
    /\ call = [c \in Calls |-> [phase |-> "idle", attempt |-> 0,
                                result |-> "none", slept |-> 0]]
    /\ reply = [c \in Calls |-> NoResponse]
    /\ wire = {}
    /\ applied = {}

InPhase(c, phase) == call[c].phase = phase

Finish(c, result) ==
    /\ call' = [call EXCEPT ![c].phase = "done", ![c].result = result]
    /\ reply' = [reply EXCEPT ![c] = NoResponse]

(* Go to sleep before the next attempt; res is the reply that asked for    *)
(* it, or NoResponse when the transport failed.                            *)
BackOff(c, res) ==
    /\ call' = [call EXCEPT
                 ![c].phase = "sleep",
                 ![c].slept = @ + sleepCtx(retryDelay(call[c].attempt, res))]
    /\ reply' = [reply EXCEPT ![c] = NoResponse]

(* A resource calls Get, Post, ...: doRequest enters roundTripWithRetry.   *)
Issue(c) ==
    /\ InPhase(c, "idle")
    /\ call' = [call EXCEPT ![c].phase = "loop"]
    /\ UNCHANGED <<reply, wire, applied>>

(* The head of the loop.  While attempts remain roundTripIteration clones  *)
(* the request and Execute hands it to http.Client.Do; after the loop the  *)
(* code returns the error "retry loop exhausted".                          *)
Execute(c) ==
    /\ InPhase(c, "loop")
    /\ IF call[c].attempt < MaxAttempts
       THEN /\ call' = [call EXCEPT ![c].phase = "wait"]
            /\ wire' = wire \cup {<<c, call[c].attempt>>}
            /\ UNCHANGED reply
       ELSE /\ Finish(c, "exhausted")
            /\ UNCHANGED wire
    /\ UNCHANGED applied

(* Mutant: the last attempt is off by one.                                 *)
PastLastAttempt(c) == call[c].attempt >= MaxAttempts

(* Is this the attempt after which the client stops whatever happens?      *)
LastAttempt(c) == call[c].attempt >= MaxAttempts - 1

(* Execute or the body read failed.  Timeouts, temporary errors and        *)
(* ErrUnexpectedEOF are retriable; other errors (connection refused or     *)
(* reset, EOF) are not.  Nothing tells whether the server saw the request. *)
TransportError(c, retriable) ==
    /\ InPhase(c, "wait")
    /\ IF LastAttempt(c) \/ ~retriable
       THEN Finish(c, "transport")
       ELSE BackOff(c, NoResponse)
    /\ UNCHANGED <<wire, applied>>

(* Mutant: the last response is taken for a success.                       *)
ReceiveAnythingLast(c) ==
    /\ InPhase(c, "wait")
    /\ reply[c] # NoResponse
    /\ IF ~isRetriableHTTPStatus(reply[c].status) \/ LastAttempt(c)
       THEN Finish(c, IF LastAttempt(c) THEN "ok" ELSE reply[c].status)
       ELSE BackOff(c, reply[c])
    /\ UNCHANGED <<wire, applied>>

(* A response was read to its end: httpResponseFinalOrBackoff.             *)
ReceiveResponse(c) ==
    /\ InPhase(c, "wait")
    /\ reply[c] # NoResponse
    /\ IF ~isRetriableHTTPStatus(reply[c].status) \/ LastAttempt(c)
       THEN Finish(c, IF reply[c].status = "throttled"
                      THEN "unavailable" ELSE reply[c].status)
       ELSE BackOff(c, reply[c])
    /\ UNCHANGED <<wire, applied>>

(* Mutant: a retry that is not counted as one.                             *)
WakeUncounted(c) ==
    /\ InPhase(c, "sleep")
    /\ call' = [call EXCEPT ![c].phase = "loop"]
    /\ UNCHANGED <<reply, wire, applied>>

(* The backoff timer fires and the loop counts the next attempt.           *)
Wake(c) ==
    /\ InPhase(c, "sleep")
    /\ call' = [call EXCEPT ![c].phase = "loop", ![c].attempt = @ + 1]
    /\ UNCHANGED <<reply, wire, applied>>

-----------------------------------------------------------------------------
(* The service and the network.                                            *)

(* The service handles a request.  A success has taken effect, a 4xx has   *)
(* not, and a 500, 502 or 504 tells nothing.  Only the attempt that is     *)
(* still waiting gets the response.                                        *)
Serve(c, a, res, effect) ==
    /\ <<c, a>> \in wire
    /\ res.status = "ok" => effect
    /\ effect => res.status \notin {"rejected", "throttled"}
    /\ res.retryAfter > 0 => res.status = "throttled"
    /\ wire' = wire \ {<<c, a>>}
    /\ applied' = IF effect THEN applied \cup {<<c, a>>} ELSE applied
    /\ reply' = IF InPhase(c, "wait") /\ call[c].attempt = a
                THEN [reply EXCEPT ![c] = res] ELSE reply
    /\ UNCHANGED call

(* The request never reaches the service.                                  *)
LoseRequest(c, a) ==
    /\ <<c, a>> \in wire
    /\ wire' = wire \ {<<c, a>>}
    /\ UNCHANGED <<call, reply, applied>>

-----------------------------------------------------------------------------
ClientStep(c) ==
    \/ Execute(c)
    \/ \E retriable \in BOOLEAN : TransportError(c, retriable)
    \/ ReceiveResponse(c)
    \/ Wake(c)

NetworkStep(c) ==
    \E a \in Attempts :
        \/ \E res \in Responses, effect \in BOOLEAN : Serve(c, a, res, effect)
        \/ LoseRequest(c, a)

ClientNext == \E c \in Calls : Issue(c) \/ ClientStep(c) \/ NetworkStep(c)

(* The client always moves on: the 10 s timeout of http.Client ends every  *)
(* wait and the backoff timer ends every sleep.  Nothing is assumed of the *)
(* service or the network.                                                 *)
ClientSpec ==
    ClientInit /\ [][ClientNext]_clientVars /\ \A c \in Calls : WF_clientVars(ClientStep(c))

-----------------------------------------------------------------------------
Phases == {"idle", "loop", "wait", "sleep", "done"}
Results == {"none", "ok", "rejected", "error", "unavailable", "transport",
            "exhausted"}

(* The shape of the state.                                                 *)
ClientTypeOK ==
    /\ call \in [Calls -> [phase : Phases, attempt : Nat,
                           result : Results, slept : Nat]]
    /\ reply \in [Calls -> Responses \cup {NoResponse}]
    /\ wire \subseteq Requests
    /\ applied \subseteq Requests

(* The error after the loop of roundTripWithRetry is dead code: the last   *)
(* attempt always returns from inside the loop, on every error path.       *)
NeverExhausted == \A c \in Calls : call[c].result # "exhausted"

(* A call answered on its first attempt leaves nothing behind: no request  *)
(* of it is still on its way to the server, and it has taken effect        *)
(* exactly when it reports success.  This is what lets a resource trust an *)
(* error, and only a first-attempt one, to mean that nothing changed.      *)
FirstAnswerIsExact ==
    \A c \in Calls :
        InPhase(c, "done") /\ call[c].attempt = 0
                      /\ call[c].result \in {"ok", "rejected"}
        => /\ \A a \in Attempts : <<c, a>> \notin wire
           /\ (call[c].result = "ok") = (\E a \in Attempts : <<c, a>> \in applied)

(* How many backoff pauses a call has begun.                               *)
Pauses(c) == call[c].attempt + (IF InPhase(c, "sleep") THEN 1 ELSE 0)

(* The backoff of one call, whatever the server puts in Retry-After: fewer *)
(* pauses than attempts, and all together within the cap on each of them,  *)
(* a duration that wrapped around included.                                *)
BackoffBounded ==
    \A c \in Calls :
        /\ Pauses(c) < MaxAttempts
        /\ call[c].slept <= Pauses(c) * RetryAfterCap

(* What the caller sees of the loop.                                       *)
Outcome(c) ==
    CASE InPhase(c, "idle") -> "idle"
      [] InPhase(c, "done") -> call[c].result
      [] OTHER -> "pending"

Remote == INSTANCE RemoteCall
            WITH Tries <- Attempts,
                 outcome <- [c \in Calls |-> Outcome(c)]

(* The retry engine implements at-least-once delivery: "ok" is reported    *)
(* only for a call that took effect, a call returns exactly once, takes    *)
(* effect at most MaxAttempts times, and always returns.                   *)
ImplementsRemoteCall == Remote!Spec
===============================================================================
