---------------------------- MODULE EvaluationOrder ----------------------------
(***************************************************************************)
(* The one evaluation order of an organization's automations, as the       *)
(* provider knows it from api_client/automation_v2.go and                  *)
(* automation_v2/priority.go.                                              *)
(*                                                                         *)
(* An automation is the natural number of its creation, so that a < b      *)
(* means that a is older.  An order p maps every automation there is to    *)
(* its priority, 1 evaluated first; equal priorities and gaps occur in     *)
(* legacy data.                                                            *)
(***************************************************************************)
EXTENDS Integers, FiniteSets

(* The server's order of a list: priority, then creation time.             *)
Before(p, a, b) == p[a] < p[b] \/ (p[a] = p[b] /\ a < b)

Position(p, a) == 1 + Cardinality({b \in DOMAIN p : Before(p, b, a)})

Ranking(p) == [i \in 1 .. Cardinality(DOMAIN p) |->
                  CHOOSE a \in DOMAIN p : Position(p, a) = i]

(* The current highest priority, 0 when there is no automation.            *)
Highest(p) ==
    IF DOMAIN p = {} THEN 0
    ELSE CHOOSE n \in {p[a] : a \in DOMAIN p} : \A b \in DOMAIN p : p[b] <= n

(* Where a request for priority n puts an automation.                      *)
Clamped(p, n) == IF n > Highest(p) THEN Highest(p) ELSE n

(* PUT /api/automations/{a}/priority: a goes from its old priority to the  *)
(* new one, and those it displaces close the gap.                          *)
Moved(p, a, n) ==
    LET new == Clamped(p, n) IN
    [b \in DOMAIN p |->
        CASE b = a -> new
          [] b # a /\ new <= p[b] /\ p[b] < p[a] -> p[b] + 1
          [] b # a /\ p[a] < p[b] /\ p[b] <= new -> p[b] - 1
          [] OTHER -> p[b]]

(* No two automations share a priority; there may still be gaps.           *)
Distinct(p) == \A a, b \in DOMAIN p : p[a] = p[b] => a = b

(* The validator of a list: no automation is listed twice.                 *)
UniqueValues(s) == \A i, j \in DOMAIN s : s[i] = s[j] => i = j
================================================================================
