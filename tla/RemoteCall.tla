------------------------------ MODULE RemoteCall ------------------------------
(***************************************************************************)
(* What one method of the API client (Get, Head, Post, Put, Patch, Delete) *)
(* promises to the resource that calls it, whatever the network and the    *)
(* server do.  The retry engine of ApiClient implements this module.       *)
(*                                                                         *)
(* A call is issued at most once, may take effect on the server any number *)
(* of times up to |Tries| (delivery is at-least-once, not exactly-once),   *)
(* may still take effect after it has returned, and returns one outcome,   *)
(* "ok" only if it has taken effect.                                       *)
(***************************************************************************)
CONSTANTS
    Calls,      \* the method calls
    Tries       \* one identity per delivery the server may execute

VARIABLES
    outcome,    \* outcome[c]: "idle", "pending", or what the call returned
    applied     \* the pairs <<c, t>> the server has executed

vars == <<outcome, applied>>

Outcomes == {"ok", "rejected", "error", "unavailable", "transport"}

Init ==
    /\ outcome = [c \in Calls |-> "idle"]
    /\ applied = {}

Issue(c) ==
    /\ outcome[c] = "idle"
    /\ outcome' = [outcome EXCEPT ![c] = "pending"]
    /\ UNCHANGED applied

(* The effect happens on the server; nothing tells the caller.             *)
TakeEffect(c, t) ==
    /\ outcome[c] # "idle"
    /\ <<c, t>> \notin applied
    /\ applied' = applied \cup {<<c, t>>}
    /\ UNCHANGED outcome

Return(c, o) ==
    /\ outcome[c] = "pending"
    /\ o = "ok" => \E t \in Tries : <<c, t>> \in applied
    /\ outcome' = [outcome EXCEPT ![c] = o]
    /\ UNCHANGED applied

Next ==
    \E c \in Calls :
        \/ Issue(c)
        \/ \E t \in Tries : TakeEffect(c, t)
        \/ \E o \in Outcomes : Return(c, o)

Safety == Init /\ [][Next]_vars

Spec == Safety /\ \A c \in Calls : WF_vars(\E o \in Outcomes : Return(c, o))
===============================================================================
