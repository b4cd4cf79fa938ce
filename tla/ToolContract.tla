---------------------------- MODULE ToolContract ----------------------------
(***************************************************************************)
(* What a pod registers at its start (main.rs, register_*_tools) and who   *)
(* may see and call it (tool.rs, registry.rs): tools by pool, pools by     *)
(* role, and the weight of a call beside the buckets it is taken from.     *)
(***************************************************************************)
EXTENDS Naturals, TLC

Roles == {"Reader", "Navigator", "Validator"}

InPool(names, pool) == [n \in names |-> pool]

\* register_navigation_tools: one registration after the other, the last wins.
navigation_tools ==
    "compare_versions" :> "Validation"
    @@ InPool({"read_article", "read_element", "get_structure", "search_text", "get_metadata",
               "get_references", "get_modifications", "extract_tables", "list_components",
               "detect_foreign_content", "read_document"}, "LocalNavigation")

\* register_discovery_tools
discovery_tools == InPool({"search_law", "resolve_sr_number", "find_related_topic"}, "Discovery")

\* register_metadata_tools
metadata_tools ==
    InPool({"check_in_force", "list_versions", "resolve_consolidation_at", "get_impacts",
            "get_outgoing_impacts", "get_article_history", "get_citations", "get_taxonomy",
            "get_subdivisions", "list_annexes"}, "JoluxMetadata")

Registered == metadata_tools @@ discovery_tools @@ navigation_tools

Exists(name) == name \in DOMAIN Registered
pool_of(name) == Registered[name]

pools_for(role) ==
    {"LocalNavigation"}
    \cup (IF role \in {"Navigator", "Validator"}
          THEN {"LodFederation", "Discovery", "JoluxMetadata", "Workspace"} ELSE {})
    \cup (IF role = "Validator" THEN {"Validation"} ELSE {})

role_allows(role, pool) == pool \in pools_for(role)

\* Mutant of list_tools: every tool is listed.
ListEverything(role) == DOMAIN Registered

list_tools(role) == {n \in DOMAIN Registered : role_allows(role, pool_of(n))}

\* ToolPool::cost_weight; a tool that does not exist weighs 1.
cost_weight(name) ==
    IF Exists(name) /\ pool_of(name) \in {"Discovery", "JoluxMetadata"} THEN 5 ELSE 1

\* QuotaPolicy
capacity_of(role) == CASE role = "Reader" -> 60 [] role = "Navigator" -> 120 [] role = "Validator" -> 240
fallback_capacity == 5

\* What dispatch refuses before the tool runs.
Refusal(role, name) ==
    CASE ~Exists(name) -> "unknown_tool"
      [] Exists(name) /\ ~role_allows(role, pool_of(name)) -> "not_permitted"
      [] OTHER -> "none"
=============================================================================
