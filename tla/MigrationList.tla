---------------------------- MODULE MigrationList ----------------------------
(***************************************************************************)
(* The migrations of src/database/migrations.ts, each as what it asks of    *)
(* the schema: the objects its statements name and expect (needs), those it *)
(* makes without IF NOT EXISTS (creates), and those it removes without IF   *)
(* EXISTS (drops).  A column added later has its table in front; the        *)
(* columns of one ALTER TABLE that no other statement tells apart are one.  *)
(***************************************************************************)
EXTENDS Sequences

Migration(needs, creates, drops) ==
    [needs |-> needs, creates |-> creates, drops |-> drops]

SaasCoreTables == Migration(
    {},
    {"users", "idx_users_external_identity", "user_service_permissions", "api_keys",
     "user_mcp_upstreams", "tool_usage_logs", "idx_api_keys_lookup", "idx_user_perms",
     "idx_usage_logs_user"},
    {})

ToolLevelPermissions == Migration(
    {"users"}, {"user_tool_permissions", "idx_user_tool_permissions_user"}, {})

CostAndCapacityMetrics == Migration(
    {"tool_usage_logs"},
    {"tool_usage_logs.bytes", "tool_usage_logs.tokens", "tool_usage_logs.credits_used",
     "tool_usage_logs.arguments"},
    {})

ToolEmbeddings == Migration(
    {}, {"tool_embeddings", "idx_tool_embeddings_hnsw", "idx_tool_embeddings_bm25"}, {})

R2ArchiveTracking == Migration(
    {"tool_usage_logs"},
    {"tool_usage_logs.r2_archived_at", "tool_usage_logs.r2_archive_key",
     "idx_tool_usage_logs_r2_pending"},
    {})

RequestIdTracing == Migration(
    {"tool_usage_logs"},
    {"tool_usage_logs.request_id", "idx_tool_usage_logs_request_id"}, {})

(* The two that replace a CHECK drop it IF EXISTS. *)
SecurityViolationStatus == Migration({"tool_usage_logs"}, {}, {})

RetireLegacySse == Migration({"user_mcp_upstreams"}, {}, {})

TenantLifecycleIdentity == Migration(
    {"users"},
    {"users.tenant_id", "users.lifecycle_status", "users.user_version",
     "idx_users_tenant_external_identity"},
    {"idx_users_external_identity"})

LifecycleInbox == Migration(
    {}, {"iam_user_lifecycle_states", "iam_user_lifecycle_events"}, {})

LifecycleHealth == Migration({}, {"iam_user_lifecycle_health"}, {})

ServiceAccessInbox == Migration(
    {},
    {"iam_user_service_access_states", "iam_user_service_access_events",
     "iam_user_service_access_health"},
    {})

DaemonReportTables == Migration(
    {},
    {"daemon_management_nonces", "daemon_management_nonces_expiry",
     "daemon_management_proofs", "daemon_management_proofs_expiry",
     "daemon_management_heads", "daemon_management_owner", "daemon_management_reports"},
    {})

DaemonJobTable == Migration(
    {}, {"daemon_management_jobs", "daemon_management_jobs_pending"}, {})

DaemonJobResults == Migration(
    {"daemon_management_jobs", "daemon_management_heads", "daemon_management_reports"},
    {"daemon_management_job_results", "daemon_management_job_results_device"}, {})

(* export const migrations: the version of each is its place. *)
AllMigrations == <<
    SaasCoreTables, ToolLevelPermissions, CostAndCapacityMetrics, ToolEmbeddings,
    R2ArchiveTracking, RequestIdTracing, SecurityViolationStatus, RetireLegacySse,
    TenantLifecycleIdentity, LifecycleInbox, LifecycleHealth, ServiceAccessInbox,
    DaemonReportTables, DaemonJobTable, DaemonJobResults >>

-----------------------------------------------------------------------------
(* What the queries of a serving gateway name: tables, the columns and the  *)
(* index that a later migration added to one *)

(* ensureLocalUser(): the index that ON CONFLICT infers included *)
UsedByAdmission ==
    {"users", "users.tenant_id", "users.lifecycle_status", "users.user_version",
     "idx_users_tenant_external_identity",
     "iam_user_lifecycle_states", "iam_user_lifecycle_health",
     "iam_user_service_access_states", "iam_user_service_access_health"}

(* KeyVerifier.verify() *)
UsedByKeys == {"api_keys", "user_tool_permissions", "user_mcp_upstreams"}

(* ApiKeyService.permissions() *)
UsedByConsole ==
    {"user_service_permissions", "user_tool_permissions", "user_mcp_upstreams"}

(* applyUserLifecycleEvent() and applyUserServiceAccessEvent(): the inbox   *)
(* of each beside what ensureLocalUser() reads *)
UsedByConsumers == {"iam_user_lifecycle_events", "iam_user_service_access_events"}

(* The columns of the INSERT of AuditLogger.flush() *)
UsedByAudit ==
    {"tool_usage_logs", "tool_usage_logs.bytes", "tool_usage_logs.tokens",
     "tool_usage_logs.credits_used", "tool_usage_logs.arguments",
     "tool_usage_logs.request_id"}

(* R2AuditArchiver.archivePendingLogs() *)
UsedByArchive == {"tool_usage_logs.r2_archived_at", "tool_usage_logs.r2_archive_key"}

(* PostgresManagementStore *)
UsedByDaemonReports ==
    {"daemon_management_nonces", "daemon_management_proofs", "daemon_management_heads",
     "daemon_management_reports", "daemon_management_jobs", "daemon_management_job_results"}

UsedByCode ==
    UsedByAdmission \cup UsedByKeys \cup UsedByConsole \cup UsedByConsumers
        \cup UsedByAudit \cup UsedByArchive \cup UsedByDaemonReports

=============================================================================
