-------------------------- MODULE MigrationScripts --------------------------
(***************************************************************************)
(* The SQL the SQLite database is made with: the bootstrap schema and the  *)
(* column upgrades of SQLiteBackend.initialize, and the scripts of         *)
(* db/migrations.                                                          *)
(*                                                                         *)
(* A statement creates one object unless it exists, and fails when an      *)
(* object it needs is missing.  A table brings the columns of it that some *)
(* other statement asks for; its other columns are left out.               *)
(***************************************************************************)
EXTENDS Naturals, Sequences

Table(name, columns) == [name |-> name, needs |-> {}, adds |-> {name} \cup columns]
Index(name, needs) == [name |-> name, needs |-> needs, adds |-> {name}]
Column(table, column) == [name |-> column, needs |-> {table}, adds |-> {column}]
Of(kind(_, _), names, second) == [i \in 1 .. Len(names) |-> kind(names[i], second)]
Tables(names) == Of(Table, names, {})
Indexes(names, table) == Of(Index, names, {table})

\* The bootstrap schema, in its order.
Sources ==
  Tables(<<"documents", "sections", "chunks">>)
    \o << Table("answer_cache", {"answer_cache.namespace_id", "answer_cache.max_age_seconds",
                                 "answer_cache.last_served_at", "answer_cache.estimated_cost"}) >>
Blocks == Tables(<<"content_blocks", "section_tags", "section_relationships">>)
SourceIndexes ==
  Indexes(<<"idx_sections_document", "idx_sections_current">>, "sections")
    \o Indexes(<<"idx_chunks_section">>, "chunks")
    \o Indexes(<<"idx_cache_key", "idx_cache_valid">>, "answer_cache")
CacheEmbeddings == Tables(<<"cache_embeddings">>)
Keys == Tables(<<"api_keys">>) \o Indexes(<<"idx_api_keys_hash", "idx_api_keys_owner">>, "api_keys")
Namespaces ==
  << Table("namespaces", {"namespaces.owner_key_id"}),
     Index("idx_namespaces_owner", {"namespaces.owner_key_id"}),
     Index("idx_namespaces_name", {"namespaces"}),
     Index("idx_cache_namespace", {"answer_cache.namespace_id"}) >>
BlockIndexes ==
  Indexes(<<"idx_blocks_section", "idx_blocks_section_compression">>, "content_blocks")
    \o Indexes(<<"idx_tags_section", "idx_tags_key_value">>, "section_tags")
    \o Indexes(<<"idx_rels_a", "idx_rels_b">>, "section_relationships")
Usage ==
  << Table("usage_tracking", {"usage_tracking.timestamp", "usage_tracking.tenant_id"}),
     Index("idx_usage_timestamp", {"usage_tracking.timestamp"}),
     Index("idx_usage_tenant", {"usage_tracking.tenant_id"}) >>
Conversations ==
  Tables(<<"conversations">>)
    \o Indexes(<<"idx_conversations_created", "idx_conversations_project">>, "conversations")
    \o Tables(<<"conversation_embeddings">>)
    \o Indexes(<<"idx_conv_embed_cid">>, "conversation_embeddings")
    \o Tables(<<"corrections">>)
    \o Indexes(<<"idx_corrections_conv", "idx_corrections_project">>, "corrections")
Projects ==
  Tables(<<"projects">>) \o Indexes(<<"idx_projects_active", "idx_projects_root">>, "projects")
    \o Tables(<<"project_files">>)
    \o Indexes(<<"idx_pfiles_project", "idx_pfiles_hash", "idx_pfiles_path">>, "project_files")
    \o Tables(<<"project_chunks">>)
    \o Indexes(<<"idx_pchunks_file", "idx_pchunks_project", "idx_pchunks_symbol">>, "project_chunks")
Audit ==
  Tables(<<"audit_events">>)
    \o Indexes(<<"ix_audit_events_timestamp", "ix_audit_events_event_type">>, "audit_events")
Cohesive ==
  << Table("similarity_links", {"similarity_links.strength"}) >>
    \o Indexes(<<"idx_sim_links_source", "idx_sim_links_target">>, "similarity_links")
    \o << Table("atomic_facts", {"atomic_facts.quality_score"}) >>
    \o Indexes(<<"idx_atomic_facts_entity", "idx_atomic_facts_namespace">>, "atomic_facts")
    \o Tables(<<"atomic_fact_embeddings">>)
FullText == Tables(<<"sections_fts">>)
BootstrapSchema ==
  Sources \o Blocks \o SourceIndexes \o CacheEmbeddings \o Keys \o Namespaces \o BlockIndexes
    \o Usage \o Conversations \o Projects \o Audit \o Cohesive \o FullText

\* "Schema upgrades for existing databases".
SchemaUpgrades ==
  << Column("similarity_links", "similarity_links.strength"),
     Column("atomic_facts", "atomic_facts.quality_score"),
     Column("answer_cache", "answer_cache.estimated_cost"),
     Column("answer_cache", "answer_cache.namespace_id"),
     Column("answer_cache", "answer_cache.max_age_seconds"),
     Column("answer_cache", "answer_cache.last_served_at") >>

-----------------------------------------------------------------------------
\* The scripts of db/migrations for SQLite.  009 has none, 011 defines no SQL
\* the runner reads.
ContentBlocks002 == Blocks \o BlockIndexes
CacheEmbeddings003 == CacheEmbeddings
Proxy004 ==
  Tables(<<"proxy_requests">>)
    \o Indexes(<<"idx_proxy_key_hash", "idx_proxy_created", "idx_proxy_key_created",
                 "idx_proxy_endpoint">>, "proxy_requests")
    \o Tables(<<"api_key_quotas">>)
Usage005 ==
  << Table("usage_tracking", {"usage_tracking.api_key_hash", "usage_tracking.date"}),
     Index("idx_usage_key_date", {"usage_tracking.api_key_hash", "usage_tracking.date"}),
     Index("idx_usage_date", {"usage_tracking.date"}),
     Table("namespaces", {"namespaces.owner"}),
     Index("idx_namespaces_name", {"namespaces"}),
     Index("idx_namespaces_owner", {"namespaces.owner"}),
     Column("documents", "documents.namespace_id") >>
Projects006 ==
  Projects \o Tables(<<"conversations">>)
    \o Indexes(<<"idx_conversations_project", "idx_conversations_created",
                 "idx_conversations_rating">>, "conversations")
    \o Tables(<<"conversation_embeddings", "corrections">>)
    \o Indexes(<<"idx_corrections_project", "idx_corrections_type",
                 "idx_corrections_applied">>, "corrections")
CacheTTL007 ==
  << Column("answer_cache", "answer_cache.max_age_seconds"),
     Column("answer_cache", "answer_cache.last_served_at") >>
Audit008 == Audit
Cohesive010 ==
  Tables(<<"similarity_links">>)
    \o Indexes(<<"idx_sim_links_source", "idx_sim_links_target">>, "similarity_links")
    \o Tables(<<"atomic_facts">>)
    \o Indexes(<<"idx_atomic_facts_entity", "idx_atomic_facts_namespace">>, "atomic_facts")
    \o Tables(<<"atomic_fact_embeddings">>)
ScriptsOf == [v \in 2 .. 11 |->
  CASE v = 2 -> ContentBlocks002 [] v = 3 -> CacheEmbeddings003 [] v = 4 -> Proxy004
    [] v = 5 -> Usage005 [] v = 6 -> Projects006 [] v = 7 -> CacheTTL007
    [] v = 8 -> Audit008 [] v = 10 -> Cohesive010 [] OTHER -> <<>>]

=============================================================================
