-------------------------- MODULE MCResourceLifecycle --------------------------
(* ResourceLifecycle over the kinds of Catalogue.  Kinds with the same     *)
(* profile behave alike: one of each is run.                               *)
EXTENDS ResourceLifecycle, Catalogue

ProfileOf(k) == <<ProviderClients[k], ProviderResources[k]>>
MCKinds ==
    {CHOOSE k \in ProviderKinds : ProfileOf(k) = p : p \in {ProfileOf(k) : k \in ProviderKinds}}

(* What is wrong with which kinds, by name.                                *)
MCArranges == {"dashboard", "sl_project"}
MCUnreturned ==
    {"user_invite", "compliance_framework", "sl_policy", "discovery_view", "report",
     "servicenow", "monday", "akamai", "cloudflare", "pagerduty", "snyk", "splunk",
     "terraform_cloud", "zscaler", "azure_sentinel", "opsgenie", "webhook"}
MCSticky == {"jira", "monday_template", "servicenow_template"}
MCPartialUpdates ==
    {"sl_project", "sl_exceptions", "report", "azure_sentinel", "opsgenie", "webhook",
     "jira", "monday_template", "servicenow_template", "s3_bucket"}
MCTrustsErrors ==
    {"custom_role", "compliance_framework", "trusted_account", "sl_project",
     "sl_exceptions", "sl_policy", "dashboard", "widget", "report"}
MCReadsBack ==
    {"custom_role", "compliance_framework", "tag_rule", "detection_rule",
     "discovery_view", "dashboard", "widget", "s3_bucket"}
MCBrittle ==
    {"custom_role", "compliance_framework", "tag_rule", "trusted_account", "sl_project",
     "sl_exceptions", "sl_policy", "dashboard", "widget"}
MCBlindToAbsence == {"compliance_framework", "trusted_account"}
===============================================================================
