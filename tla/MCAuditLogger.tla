---------------------------- MODULE MCAuditLogger ----------------------------
EXTENDS AuditLogger
=============================================================================
