----------------------------- MODULE MCBusinessUnit -----------------------------
(***************************************************************************)
(* BusinessUnit with configurations that have each filter alone, the       *)
(* combinations that are allowed, those that are not, and empty values.    *)
(***************************************************************************)
EXTENDS BusinessUnit

CONSTANT a       \* the value

With(given, value) == [x \in Attributes |-> IF x \in given THEN value ELSE Null]

Singles == {With({x}, a) : x \in Attributes} \cup {With({}, a)}
Allowed == {With({"cloud_vendor_id", "projects"}, a), With({"cloud_account_ids", "projects"}, a),
            With({"custom_tags", "owner"}, a)}
Refused == {With({"cloud_providers", "projects"}, a), With({"cloud_tags", "projects"}, a),
            With({"cloud_account_tags", "cloud_tags"}, a),
            With({"cloud_vendor_id", "cloud_account_ids"}, a)}
Empties == {With({"cloud_tags"}, Empty), With({"owner"}, Empty)}

MCConfigs ==
    {[at |-> at, global |-> Null] : at \in Singles \cup Allowed \cup Refused \cup Empties}
      \cup {[at |-> at, global |-> FALSE] : at \in Allowed}
===============================================================================
