--------------------------- MODULE MCShiftLeftPolicy ---------------------------
(***************************************************************************)
(* ShiftLeftPolicy with controls by id, by title and of one's own, all     *)
(* controls, scopes of one and two keys, and a policy that others made.    *)
(***************************************************************************)
EXTENDS ShiftLeftPolicy

CONSTANTS a, b, own,    \* two controls of the catalog, and one that is not
          base, other   \* values

ById(n) == [id |-> n, title |-> Null, level |-> other, cond |-> Null]
ByTitle(n) == [id |-> Null, title |-> n, level |-> other, cond |-> other]

Section == [type |-> "section", description |-> base, projects |-> Null, all |-> FALSE,
            controls |-> << >>, scope |-> << >>]
Scm == [Section EXCEPT !.type = "scm_posture", !.scope = <<base>>,
                       !.controls = <<[ById(a) EXCEPT !.cond = other]>>]

MCConfigs ==
    {[Section EXCEPT !.controls = <<ById(a), ById(b)>>],
     [Section EXCEPT !.controls = <<ByTitle(a), ByTitle(own)>>, !.projects = base],
     [Section EXCEPT !.controls = <<ByTitle(a)>>, !.projects = other],
     [Section EXCEPT !.controls = <<ById(own)>>],
     [Section EXCEPT !.all = TRUE],
     [Section EXCEPT !.all = TRUE, !.controls = <<ById(a)>>],
     [Section EXCEPT !.description = Null],
     Scm,
     [Scm EXCEPT !.scope = <<base, other>>],
     [Scm EXCEPT !.scope = << >>],
     [Scm EXCEPT !.controls = <<ById(a)>>]}

MCCatalogs == {<<a, b>>, <<b>>, << >>}

(* A policy with a control that the catalog would complete, and the same   *)
(* built in.                                                               *)
MCStrangers ==
    {[type |-> "section", builtin |-> builtin, description |-> base, projects |-> base,
      controls |-> <<[id |-> b, title |-> b, level |-> base, cond |-> Null]>>,
      scope |-> {}] : builtin \in BOOLEAN}
===============================================================================
