------------------------------- MODULE Catalogue -------------------------------
(***************************************************************************)
(* The resource kinds that ResourceLifecycle interprets: what the client   *)
(* functions of a kind make of an answer, and which calls its handlers     *)
(* make, in which order, and what they do with the outcome.                *)
(*                                                                         *)
(* A client function is a reader: the answers it takes for an object that  *)
(* is gone (nil without an error, or false), and those it panics on; any   *)
(* other answer but a 200 is an error.                                     *)
(***************************************************************************)
EXTENDS Sequences

(* The answers are those of ResourceLifecycle.                             *)
Reader(gone, panic) == [gone |-> gone, panic |-> panic, unclear |-> {}]

Strict == Reader({}, {})
MissingIsGone == Reader({"missing"}, {})

(* "resp.StatusCode() == 200, nil": every status but 200 is an object that *)
(* is gone, and no answer at all is a nil pointer.                         *)
OnlyOkIsThere == Reader({"missing", "rejected", "broken", "denied"}, {"silent"})

(* "StatusCode() == 400 || StatusCode() == 500" is nil without an error.   *)
BadIsGone == Reader({"rejected", "broken"}, {"silent"})

PlainClient ==
    [head |-> Strict, get |-> MissingIsGone, delete |-> Strict,
     listed |-> FALSE,      \* the GET is a query that lists matching objects
     named |-> FALSE,       \* the object is known by the name the user gives it
     omits |-> "nothing"]   \* what a PUT leaves out of the optional attribute

PlainResource ==
    [create |-> <<"post">>, read |-> <<"get">>, update |-> <<"put">>,
     adopt |-> << >>,       \* the calls of ImportState, before the first Read
     absent |->             \* what is done about nil without an error
         [create |-> "error", read |-> "removed", update |-> "error", import |-> "error"],
     echoes |-> {},         \* the handlers that store the answer, not the plan
     hides |-> "nothing",   \* of main: read, "kept" once known, "never" read
     sticky |-> FALSE,      \* an empty optional attribute is not read
     computed |-> FALSE,    \* an unset optional attribute keeps its value
     replaces |-> "nothing"] \* what replaces the object when it is changed

-----------------------------------------------------------------------------
(* Access control.                                                         *)
CustomRoleClient ==
    [PlainClient EXCEPT !.head = OnlyOkIsThere, !.get = BadIsGone]
(* A nil role is read by every handler.                                    *)
CustomRoleResource ==
    [PlainResource EXCEPT !.create = <<"post", "get">>, !.read = <<"head", "get">>,
        !.update = <<"put", "get">>, !.echoes = {"update"},
        !.absent = [create |-> "panic", read |-> "panic", update |-> "panic", import |-> "panic"]]

UserInviteClient ==
    [PlainClient EXCEPT !.get = Reader({"unlisted"}, {}), !.delete = MissingIsGone,
        !.listed = TRUE]
(* Every argument forces replacement; Update makes no call.                *)
UserInviteResource ==
    [PlainResource EXCEPT !.update = << >>, !.replaces = "everything", !.hides = "never"]

(* Compliance, tags and data security.                                     *)
CustomComplianceFrameworkClient == [PlainClient EXCEPT !.get = BadIsGone]
(* The sections are not read back.                                         *)
CustomComplianceFrameworkResource ==
    [PlainResource EXCEPT !.create = <<"post", "get">>, !.update = <<"put", "get">>,
        !.absent = [create |-> "kept", read |-> "removed", update |-> "kept", import |-> "error"],
        !.echoes = {"create", "update"}, !.hides = "never"]

(* Mutant: a rule that is gone is an error.                                *)
CustomTagRuleClientStrict == [PlainClient EXCEPT !.get = Strict]
CustomTagRuleClient == PlainClient
(* CreateCustomTagRule ends with a GET, and Create reads the id of nil.    *)
CustomTagRuleResource ==
    [PlainResource EXCEPT !.create = <<"post", "get">>, !.absent["create"] = "panic"]

DataDetectionRuleClient == PlainClient
DataDetectionRuleResource ==
    [PlainResource EXCEPT !.create = <<"post", "get">>, !.update = <<"put", "get">>]

DspmPolicyClient == PlainClient
DspmPolicyResource == PlainResource

SensitiveDataIdentifierClient == PlainClient
SensitiveDataIdentifierResource == PlainResource

(* An empty list is indexed.                                               *)
TrustedCloudAccountClient ==
    [PlainClient EXCEPT !.get = Reader({"rejected", "broken"}, {"silent", "unlisted"}),
        !.listed = TRUE]
TrustedCloudAccountResource ==
    [PlainResource EXCEPT !.adopt = <<"get">>, !.absent["import"] = "panic"]

-----------------------------------------------------------------------------
(* Shift left.                                                             *)
ShiftLeftProjectClient ==
    [PlainClient EXCEPT !.head = OnlyOkIsThere, !.get = Strict, !.omits = "unset"]
ShiftLeftProjectResource ==
    [PlainResource EXCEPT !.read = <<"head", "get">>, !.update = <<"get", "put">>]

(* Update never sends the projects.                                        *)
ShiftLeftCveExceptionListClient ==
    [PlainClient EXCEPT !.head = OnlyOkIsThere, !.get = Strict, !.omits = "always"]
ShiftLeftCveExceptionListResource == [PlainResource EXCEPT !.read = <<"head", "get">>]

(* Delete takes an error with "404" anywhere in its text for done.         *)
ShiftLeftPolicyClient ==
    [PlainClient EXCEPT !.head = OnlyOkIsThere, !.get = Strict,
        !.delete = [gone |-> {"missing"}, panic |-> {},
                    unclear |-> {"rejected", "broken", "denied", "silent"}]]
ShiftLeftPolicyResource ==
    [PlainResource EXCEPT !.create = <<"lookup", "post">>, !.read = <<"head", "get">>,
        !.update = <<"lookup", "put", "get">>, !.adopt = <<"get">>, !.hides = "kept"]

-----------------------------------------------------------------------------
(* Discovery, dashboards and reports.                                      *)
DiscoveryViewClient ==
    [PlainClient EXCEPT !.head = MissingIsGone, !.delete = MissingIsGone]
(* A known filter query is kept.                                           *)
DiscoveryViewResource ==
    [PlainResource EXCEPT !.create = <<"post", "get">>, !.read = <<"head", "get">>,
        !.update = <<"put", "get">>, !.echoes = {"update"}, !.hides = "kept"]

CustomDashboardClient ==
    [PlainClient EXCEPT !.head = OnlyOkIsThere, !.get = BadIsGone]
(* Update writes the slots of the widgets back as it has read them.        *)
CustomDashboardResource ==
    [PlainResource EXCEPT !.create = <<"post", "get">>, !.read = <<"head", "get">>,
        !.update = <<"get", "put", "get">>, !.echoes = {"update"},
        !.absent = [create |-> "panic", read |-> "panic", update |-> "panic", import |-> "panic"]]

CustomWidgetClient ==
    [PlainClient EXCEPT !.head = OnlyOkIsThere, !.get = BadIsGone]
CustomWidgetResource ==
    [PlainResource EXCEPT !.create = <<"post", "get">>, !.read = <<"head", "get">>,
        !.echoes = {"create", "update"}, !.absent["read"] = "panic"]

ScheduledReportClient ==
    [PlainClient EXCEPT !.get = Reader({"missing", "rejected"}, {}),
        !.delete = MissingIsGone, !.omits = "unset"]
ScheduledReportResource == [PlainResource EXCEPT !.hides = "kept"]

-----------------------------------------------------------------------------
(* Admission control.                                                      *)
AdmissionControllerControlClient ==
    [PlainClient EXCEPT !.get = Reader({"unlisted"}, {}), !.delete = MissingIsGone,
        !.listed = TRUE]
AdmissionControllerControlResource ==
    [PlainResource EXCEPT !.echoes = {"create", "update"}]

AdmissionControllerPolicyClient == [PlainClient EXCEPT !.delete = MissingIsGone]
AdmissionControllerPolicyResource ==
    [PlainResource EXCEPT !.echoes = {"create", "update"}]

AdmissionControllerPolicyAssignmentClient ==
    [PlainClient EXCEPT !.delete = MissingIsGone]
AdmissionControllerPolicyAssignmentResource ==
    [PlainResource EXCEPT !.echoes = {"create", "update"}]

-----------------------------------------------------------------------------
(* Credentials of ticketing systems.                                       *)
ServiceNowClient == PlainClient
ServiceNowResource ==
    [PlainResource EXCEPT !.echoes = {"create", "update"}, !.hides = "never"]

MondayClient == PlainClient
MondayResource ==
    [PlainResource EXCEPT !.echoes = {"create", "update"}, !.hides = "never"]

(* The integrations, over one generic resource and client, known by their  *)
(* template name; a secret is never returned.                              *)
ExternalServiceConfigClient ==
    [PlainClient EXCEPT !.get = Reader({"unlisted", "missing"}, {}),
        !.listed = TRUE, !.named = TRUE]
GenericResource == [PlainResource EXCEPT !.echoes = {"create", "update"}]
SecretResource == [GenericResource EXCEPT !.hides = "never"]

(* Business units that are not given are left out of a PUT.                *)
ForwardingClient == [ExternalServiceConfigClient EXCEPT !.omits = "unset"]

AkamaiClient == ExternalServiceConfigClient
AkamaiResource == SecretResource
CloudflareClient == ExternalServiceConfigClient
CloudflareResource == SecretResource
PagerDutyClient == ExternalServiceConfigClient
PagerDutyResource == SecretResource
SnykClient == ExternalServiceConfigClient
SnykResource == SecretResource
SplunkClient == ExternalServiceConfigClient
SplunkResource == SecretResource
TerraformCloudClient == ExternalServiceConfigClient
TerraformCloudResource == SecretResource
ZscalerClient == ExternalServiceConfigClient
ZscalerResource == SecretResource
AzureSentinelClient == ForwardingClient
AzureSentinelResource == SecretResource
OpsgenieClient == ForwardingClient
OpsgenieResource == SecretResource
WebhookClient == ForwardingClient
WebhookResource == SecretResource

(* The templates: what an issue or a message is made of.                   *)
SlackClient == ExternalServiceConfigClient
SlackResource == [GenericResource EXCEPT !.replaces = "optional"]
JiraCloudClient == [ExternalServiceConfigClient EXCEPT !.omits = "unset"]
JiraCloudResource == [GenericResource EXCEPT !.sticky = TRUE]
MondayTemplateClient == [ExternalServiceConfigClient EXCEPT !.omits = "unset"]
MondayTemplateResource == [GenericResource EXCEPT !.sticky = TRUE]
ServiceNowTemplateClient == [ExternalServiceConfigClient EXCEPT !.omits = "unset"]
ServiceNowTemplateResource == [GenericResource EXCEPT !.sticky = TRUE]

(* Every handler ends with the settings its bucket policy is made of.      *)
S3BucketClient == [ExternalServiceConfigClient EXCEPT !.omits = "unset"]
S3BucketResource ==
    [GenericResource EXCEPT !.create = <<"post", "lookup">>, !.read = <<"get", "lookup">>,
        !.update = <<"put", "lookup">>, !.computed = TRUE]

-----------------------------------------------------------------------------
ProviderClients ==
    [custom_role |-> CustomRoleClient, user_invite |-> UserInviteClient,
     compliance_framework |-> CustomComplianceFrameworkClient,
     tag_rule |-> CustomTagRuleClient, detection_rule |-> DataDetectionRuleClient,
     dspm_policy |-> DspmPolicyClient, data_identifier |-> SensitiveDataIdentifierClient,
     trusted_account |-> TrustedCloudAccountClient, sl_project |-> ShiftLeftProjectClient,
     sl_exceptions |-> ShiftLeftCveExceptionListClient, sl_policy |-> ShiftLeftPolicyClient,
     discovery_view |-> DiscoveryViewClient, dashboard |-> CustomDashboardClient,
     widget |-> CustomWidgetClient, report |-> ScheduledReportClient,
     control |-> AdmissionControllerControlClient, policy |-> AdmissionControllerPolicyClient,
     assignment |-> AdmissionControllerPolicyAssignmentClient,
     servicenow |-> ServiceNowClient, monday |-> MondayClient,
     akamai |-> AkamaiClient, cloudflare |-> CloudflareClient, pagerduty |-> PagerDutyClient,
     snyk |-> SnykClient, splunk |-> SplunkClient, terraform_cloud |-> TerraformCloudClient,
     zscaler |-> ZscalerClient, azure_sentinel |-> AzureSentinelClient,
     opsgenie |-> OpsgenieClient, webhook |-> WebhookClient, slack |-> SlackClient,
     jira |-> JiraCloudClient, monday_template |-> MondayTemplateClient,
     servicenow_template |-> ServiceNowTemplateClient, s3_bucket |-> S3BucketClient]

ProviderResources ==
    [custom_role |-> CustomRoleResource, user_invite |-> UserInviteResource,
     compliance_framework |-> CustomComplianceFrameworkResource,
     tag_rule |-> CustomTagRuleResource, detection_rule |-> DataDetectionRuleResource,
     dspm_policy |-> DspmPolicyResource, data_identifier |-> SensitiveDataIdentifierResource,
     trusted_account |-> TrustedCloudAccountResource, sl_project |-> ShiftLeftProjectResource,
     sl_exceptions |-> ShiftLeftCveExceptionListResource, sl_policy |-> ShiftLeftPolicyResource,
     discovery_view |-> DiscoveryViewResource, dashboard |-> CustomDashboardResource,
     widget |-> CustomWidgetResource, report |-> ScheduledReportResource,
     control |-> AdmissionControllerControlResource,
     policy |-> AdmissionControllerPolicyResource,
     assignment |-> AdmissionControllerPolicyAssignmentResource,
     servicenow |-> ServiceNowResource, monday |-> MondayResource,
     akamai |-> AkamaiResource, cloudflare |-> CloudflareResource,
     pagerduty |-> PagerDutyResource, snyk |-> SnykResource, splunk |-> SplunkResource,
     terraform_cloud |-> TerraformCloudResource, zscaler |-> ZscalerResource,
     azure_sentinel |-> AzureSentinelResource, opsgenie |-> OpsgenieResource,
     webhook |-> WebhookResource, slack |-> SlackResource, jira |-> JiraCloudResource,
     monday_template |-> MondayTemplateResource,
     servicenow_template |-> ServiceNowTemplateResource, s3_bucket |-> S3BucketResource]

ProviderKinds == DOMAIN ProviderResources
===============================================================================
