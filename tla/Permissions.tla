----------------------------- MODULE Permissions ----------------------------
(***************************************************************************)
(* Permission matrices (rbac.py) and what each endpoint asks of them (the  *)
(* require(...) guards of the routers).  A matrix is the set of the        *)
(* <<key, action>> pairs it grants.  {} has no entries; AllFalse has some, *)
(* none of them true, so that Python takes it for true.                    *)
(***************************************************************************)
EXTENDS Naturals

PermKey == {"dashboard", "reports", "workbench", "caseManagement",
            "pipelines", "userManagement", "roleManagement", "settings"}
Action == {"view", "edit"}
Full == PermKey \X Action
AllFalse == {<<"all", "false">>}
Matrix == (SUBSET Full) \cup {AllFalse}

RaLead == (({"dashboard", "reports", "workbench", "caseManagement", "pipelines"}) \X Action)
             \cup {<<"settings", "view">>}
Analyst == {<<"dashboard", "view">>, <<"reports", "view">>, <<"pipelines", "view">>}
              \cup ({"workbench", "caseManagement"} \X Action)
Viewer == {"dashboard", "reports", "pipelines"} \X {"view"}

\* A role that is not in the table gets everything.
DefaultPermissionsFor(role) ==
    CASE role = "admin" -> Full
      [] role = "ra_lead" -> RaLead
      [] role = "analyst" -> Analyst
      [] role = "viewer" -> Viewer
      [] OTHER -> Full

-----------------------------------------------------------------------------
\* <<endpoint, key, action>>.  The endpoints under /auth and /health ask nothing.
IdentityNeeds == {
    <<"list_users", "userManagement", "view">>, <<"create_user", "userManagement", "edit">>,
    <<"update_user", "userManagement", "edit">>, <<"list_roles", "roleManagement", "view">>,
    <<"update_role_permissions", "roleManagement", "edit">>,
    <<"upsert_role", "roleManagement", "edit">>, <<"list_audit", "settings", "view">>}
OperationsNeeds ==
    ({"stages", "kpis", "runs", "alerts", "retries"} \X {"pipelines"} \X {"view"})
    \cup ({"retry_job", "replay_job", "ack_alert"} \X {"pipelines"} \X {"edit"})
    \cup ({"list_decoders", "get_config"} \X {"settings"} \X {"view"})
    \cup ({"upsert_decoder", "update_config"} \X {"settings"} \X {"edit"})
AssuranceNeeds ==
    {<<"recon_summary", "dashboard", "view">>, <<"recon_records", "workbench", "view">>}
    \cup ({"list_cases", "get_case"} \X {"caseManagement"} \X {"view"})
    \cup ({"create_case", "update_case", "add_comment"} \X {"caseManagement"} \X {"edit"})
    \cup ({"list_queries", "workbench_stats"} \X {"workbench"} \X {"view"})
    \cup {<<"create_query", "workbench", "edit">>}
ReportingNeeds ==
    {<<"list_reports", "reports", "view">>, <<"create_report", "reports", "edit">>,
     <<"download_report", "reports", "view">>, <<"dashboard_kpis", "dashboard", "view">>}
Needs == IdentityNeeds \cup OperationsNeeds \cup AssuranceNeeds \cup ReportingNeeds
Endpoint == {n[1] : n \in Needs}

\* require(key, action) lets a principal with these permissions in.
Asks == [e \in Endpoint |-> {<<n[2], n[3]>> : n \in {m \in Needs : m[1] = e}}]
Allows(perms, endpoint) == Asks[endpoint] \subseteq perms
=============================================================================
