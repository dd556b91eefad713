-------------------------- MODULE SchemaMigrations --------------------------
(***************************************************************************)
(* The migrations of the system database, each as the sequence of its      *)
(* schema statements.  A schema is a set of tables, indices and the        *)
(* columns that a later migration adds or renames.  A migration that       *)
(* changes rows only (38, 61, 63 and 68) has no schema statement.          *)
(***************************************************************************)
EXTENDS Naturals, Sequences

Table(t)     == <<"table", t>>
Index(t, by) == <<"index", t, by>>
Column(t, c) == <<"column", t, c>>

(* object: what IF NOT EXISTS, IF EXISTS and the error for a duplicate are *)
(* about; on: what must be there even if the object is; needs: what must   *)
(* be there to make it; gone, made: what the statement does.               *)
CreateWith(t, columns) ==
    << [op |-> "create", object |-> Table(t), on |-> {}, needs |-> {}, gone |-> {},
        made |-> {Table(t)} \cup {Column(t, c) : c \in columns}] >>

Create(t) == CreateWith(t, {})

(* All the indices that one migration makes of a table.                    *)
CreateIndexBy(t, by) ==
    << [op |-> "create", object |-> Index(t, by), on |-> {Table(t)}, gone |-> {},
        made |-> {Index(t, by)},
        needs |-> {Table(t)} \cup (IF by = "" THEN {} ELSE {Column(t, by)})] >>

CreateIndex(t) == CreateIndexBy(t, "")

AddColumn(t, c) ==
    << [op |-> "add", object |-> Column(t, c), on |-> {}, needs |-> {Table(t)},
        gone |-> {}, made |-> {Column(t, c)}] >>

RenameTable(t, u, columns) ==
    << [op |-> "rename", object |-> Table(u), on |-> {}, needs |-> {Table(t)},
        gone |-> {Table(t)} \cup {Column(t, c) : c \in columns},
        made |-> {Table(u)} \cup {Column(u, c) : c \in columns}] >>

RenameColumn(t, c, d) ==
    << [op |-> "rename", object |-> Column(t, d), on |-> {},
        needs |-> {Column(t, c)}, gone |-> {Column(t, c)}, made |-> {Column(t, d)}] >>

DropIndex(t, by) ==
    << [op |-> "drop", object |-> Index(t, by), on |-> {}, needs |-> {},
        gone |-> {Index(t, by)}, made |-> {}] >>

RowsOnly == << >>

-----------------------------------------------------------------------------
(* 1 to 13 *)
RunTables ==
    << Create("providers"),
       Create("agents"),         CreateIndex("agents"),
       Create("analysis_runs"),  CreateIndex("analysis_runs"),
       Create("agent_runs"),     CreateIndex("agent_runs"),
       Create("run_outputs"),    CreateIndex("run_outputs"),
       Create("run_events"),     CreateIndex("run_events"),
       Create("agent_sections"), CreateIndex("agent_sections") >>

(* 14 to 22 *)
BundleTables ==
    << Create("capability_bundles"), CreateIndex("capability_bundles"),
       CreateWith("capability_draft_items", {"bundle_id"}),
       CreateIndexBy("capability_draft_items", "bundle_id"),
       AddColumn("capability_bundles", "version"),
       CreateWith("bundle_publish_history", {"bundle_id"}),
       CreateIndexBy("bundle_publish_history", "bundle_id"),
       Create("framework_logs"), CreateIndex("framework_logs") >>

(* 23 *)
BundlesBecomeDrafts ==
    LET history == "capability_draft_publication_history"
    IN  RenameTable("capability_bundles", "capability_drafts", {"version"})
        \o DropIndex("capability_bundles", "") \o CreateIndex("capability_drafts")
        \o RenameColumn("capability_draft_items", "bundle_id", "draft_id")
        \o DropIndex("capability_draft_items", "bundle_id")
        \o CreateIndexBy("capability_draft_items", "draft_id")
        \o RenameTable("bundle_publish_history", history, {"bundle_id"})
        \o RenameColumn(history, "bundle_id", "draft_id")
        \o DropIndex("bundle_publish_history", "bundle_id")
        \o CreateIndexBy(history, "draft_id")

(* 24 to 35 *)
CatalogTables ==
    << Create("capability_draft_revisions"), CreateIndex("capability_draft_revisions"),
       Create("capability_records"),         CreateIndex("capability_records"),
       Create("capability_record_events"),   CreateIndex("capability_record_events"),
       Create("capability_publication_candidates"),
       CreateIndex("capability_publication_candidates"),
       Create("capability_package_objects"), CreateIndex("capability_package_objects"),
       AddColumn("capability_records", "package_object_id"),
       Create("capability_environment_settings") >>

(* 36 to 46 *)
PermissionTables ==
    << Create("agent_capability_assignments"), CreateIndex("agent_capability_assignments"),
       RowsOnly,
       Create("agent_file_assignments"),       CreateIndex("agent_file_assignments"),
       Create("agent_tool_file_permissions"),  CreateIndex("agent_tool_file_permissions"),
       Create("agent_environment_assets"),     CreateIndex("agent_environment_assets"),
       Create("agent_environment_agent_skin_preferences"),
       CreateIndex("agent_environment_agent_skin_preferences") >>

(* 47 to 60 *)
WorkflowTables ==
    << Create("capability_comparison_evidence"),
       CreateIndex("capability_comparison_evidence"),
       Create("capability_comparison_web"), CreateIndex("capability_comparison_web"),
       AddColumn("capability_records", "code_block"),
       Create("agent_workflows"),           CreateIndex("agent_workflows"),
       AddColumn("agent_workflows", "assigned_triggers_json"),
       AddColumn("agent_file_assignments", "entry_kind"),
       AddColumn("agent_capability_assignments", "scope"),
       Create("capability_source_registrations"),
       CreateIndex("capability_source_registrations"),
       Create("agent_configuration_blueprints"),
       CreateIndex("agent_configuration_blueprints") >>

(* 61 to 70 *)
PackageTables ==
    << RowsOnly,
       AddColumn("capability_records", "execution_source"),
       RowsOnly,
       AddColumn("capability_records", "entrypoint"),
       AddColumn("capability_records", "publish_outputs_json"),
       Create("capability_published_forms"),   CreateIndex("capability_published_forms"),
       RowsOnly,
       Create("capability_surface_policies"),  CreateIndex("capability_surface_policies") >>

AllMigrations ==
    RunTables \o BundleTables \o << BundlesBecomeDrafts >> \o CatalogTables
      \o PermissionTables \o WorkflowTables \o PackageTables
=============================================================================
