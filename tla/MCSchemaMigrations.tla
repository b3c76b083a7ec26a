-------------------------- MODULE MCSchemaMigrations --------------------------
EXTENDS MigrationList, SchemaMigrations
=============================================================================
