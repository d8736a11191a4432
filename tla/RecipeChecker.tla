---------------------------- MODULE RecipeChecker ----------------------------
(*************************************************************************)
(* introspection-recipe-check: what the checker says of a Recipe before    *)
(* anything runs it.  Diagnostics accumulate, and a Recipe is valid when   *)
(* there are none; each definition gives the diagnostics of one function.  *)
(*************************************************************************)
EXTENDS RecipeSource

Error(code, when) == IF when THEN {code} ELSE {}
Only(m, path, allowed, code) == Error(code, Keys(m, path) \ allowed # {})

-----------------------------------------------------------------------------
\* Resources: the patterns of package.json, or the conventional directory.
\* Where in a path the names start that a pattern matches from its i-th name
\* on: glob_match_parts, which lets "**" stand for any number of names.
GlobMatches(pattern, path) ==
  LET starts[i \in 1..(Len(pattern) + 1)] ==
        IF i > Len(pattern) THEN {Len(path) + 1}
        ELSE IF pattern[i] = "**"
        THEN {j \in 1..(Len(path) + 1) : \E k \in starts[i + 1] : j <= k}
        ELSE {j \in 1..Len(path) : pattern[i] \in {"*", path[j]} /\ j + 1 \in starts[i + 1]}
  IN 1 \in starts[1]

PathMatches(recipe, pattern) ==
  IF IsGlob(pattern)
  THEN {p \in Files(recipe) \cup Directories(recipe) : GlobMatches(pattern, p)}
  ELSE {p \in {pattern} : Exists(recipe, p)}

Patterns(recipe, key) ==
  IF Given(recipe.pkg[key]) THEN ToSet(recipe.pkg[key].items)
  ELSE {p \in {<<key>>} : Exists(recipe, p)}

ResourcePaths(recipe, key) ==
  UNION {PathMatches(recipe, p) : p \in {q \in Patterns(recipe, key) : ".." \notin ToSet(q)}}

ResourceErrors(recipe, key) ==
  LET declared == recipe.pkg[key] IN
  Error("pi.resource_invalid", declared.shape = "bad")
    \cup Error("pi.resource_duplicate",
               Cardinality(ToSet(declared.items)) # Len(declared.items))
    \cup Error("package.resource_invalid",
               \E p \in Patterns(recipe, key) : ".." \in ToSet(p))
    \cup Error("package.resource_unmatched",
               \E p \in Patterns(recipe, key) :
                 ".." \notin ToSet(p) /\ PathMatches(recipe, p) = {})
    \cup Error("package.agents_missing",
               key = "agents" /\ ResourcePaths(recipe, key) = {})

AgentPaths(recipe) ==
  LET matched == ResourcePaths(recipe, "agents") IN
  {p \in Files(recipe) :
     /\ p[Len(p)] \in YamlFiles
     /\ p \in matched \/ SubSeq(p, 1, Len(p) - 1) \in matched}

SkillFilesIn(recipe, start) ==
  LET found[path \in Files(recipe) \cup Directories(recipe)] ==
        IF path \in Files(recipe) THEN {p \in {path} : p[Len(p)] = "SKILL.md"}
        ELSE IF Append(path, "SKILL.md") \in Files(recipe) THEN {Append(path, "SKILL.md")}
        ELSE UNION {found[d] : d \in {e \in Directories(recipe) :
                      Len(e) = Len(path) + 1 /\ IsPrefix(path, e)}}
  IN found[start]

PackagedSkills(recipe, name) ==
  {p \in UNION {SkillFilesIn(recipe, r) : r \in ResourcePaths(recipe, "skills")} :
     SkillName(recipe, p) = name}

-----------------------------------------------------------------------------
\* package.json#pi.
ChannelErrors(channels) ==
  Error("pi.channels_invalid",
        \/ channels.shape = "bad"
        \/ \E i \in DOMAIN channels.items :
             LET c == channels.items[i] IN
             \/ c.odd \/ c.requireReply = "text"
             \/ c.commands.shape = "bad" \/ Blank(c.commands)
             \/ Cardinality(ToSet(c.commands.items)) # Len(c.commands.items)
             \/ c.provider = Empty \/ ~c.dependency
             \/ \E j \in 1..(i - 1) : channels.items[j].provider = c.provider)

\* A text is a path: "dir" is a directory of the Recipe and "file" a file.
RuntimePathErrors(runtime) ==
  LET project == Scalar(runtime, <<"python", "project">>)
      lockfile == Scalar(runtime, <<"python", "lockfile">>) IN
  Error("pi.runtime_invalid", ~IsNonEmpty(project) \/ ~IsNonEmpty(lockfile))
    \cup Error("pi.runtime_path_invalid",
               \/ IsNonEmpty(project) /\ project # "dir"
               \/ IsNonEmpty(lockfile) /\ lockfile # "file")

\* The version a Recipe asks of Python is not looked at.
RuntimeErrors(runtime) ==
  IF runtime.shape = "none" THEN {}
  ELSE IF runtime.shape = "bad" THEN {"pi.runtime_invalid"}
  ELSE Only(runtime, <<>>, {"python", "system"}, "pi.runtime_invalid")
    \cup (IF ~Has(runtime, <<"python">>) THEN {}
          ELSE IF ~IsMapping(runtime, <<"python">>) THEN {"pi.runtime_invalid"}
          ELSE Only(runtime, <<"python">>, {"project", "lockfile", "version", "imports"},
                    "pi.runtime_invalid")
            \cup RuntimePathErrors(runtime)
            \cup Error("pi.runtime_invalid",
                       /\ Has(runtime, <<"python", "imports">>)
                       /\ Scalar(runtime, <<"python", "imports">>) # "names"))
    \cup (IF ~Has(runtime, <<"system">>) THEN {}
          ELSE Only(runtime, <<"system">>, {"packages"}, "pi.runtime_invalid")
            \cup Error("pi.runtime_invalid",
                       Scalar(runtime, <<"system", "packages">>) # "packages"))

ServerErrors(pkg) ==
  Error("pi.mcp_invalid",
        \/ pkg.mcp = "bad"
        \/ \E i \in DOMAIN pkg.servers :
             LET s == pkg.servers[i] IN
             \/ s.odd \/ s.id = Empty
             \/ \E key \in {"include", "exclude"} :
                  s.tools[key].shape = "bad" \/ Repeats(s.tools[key]) \/ Blank(s.tools[key])
             \/ \E j \in 1..(i - 1) : IdOf[pkg.servers[j].id] = IdOf[s.id])
    \cup Error("pi.mcp_selector_invalid",
               \E i \in DOMAIN pkg.servers :
                 LET tools == pkg.servers[i].tools IN
                 \/ Trimmed(tools.include) \cap (Wild \cup {Empty}) # {}
                 \/ Trimmed(tools.exclude) \cap (Wild \cup {Empty, "*"}) # {})

\* What is committed beside package.json: a lockfile when there are
\* dependencies, of this package, and no local MCP configuration.
DependencyErrors(pkg) ==
  Error("package.lockfile_missing", pkg.dependencies /\ pkg.lockfile = "none")
    \cup Error("package.local_config_present", pkg.local)
    \cup Error("package.lockfile_malformed", pkg.lockfile = "malformed")
    \cup Error("package.lockfile_mismatch", pkg.lockfile = "another")

ExampleErrors(pkg) ==
  Error("mcp.local_example_malformed", pkg.example = "malformed")
    \cup Error("mcp.local_example_invalid", pkg.example = "invalid")

PackageErrors(recipe) ==
  Error("package.pi_missing", ~recipe.pkg.pi)
    \cup Error("package.name_missing", ~recipe.pkg.name)
    \cup DependencyErrors(recipe.pkg) \cup ExampleErrors(recipe.pkg)
    \cup Error("pi.unknown_key", recipe.pkg.odd)
    \cup (UNION {ResourceErrors(recipe, key) : key \in {"agents", "skills"}})
    \cup ChannelErrors(recipe.pkg.channels)
    \cup ServerErrors(recipe.pkg)
    \cup RuntimeErrors(recipe.pkg.runtime)

\* The package's selection of each server; of equal ids the last one counts.
ToolPolicy(pkg) ==
  [id \in {IdOf[pkg.servers[i].id] : i \in DOMAIN pkg.servers} |->
     LET at == {i \in DOMAIN pkg.servers : IdOf[pkg.servers[i].id] = id}
     IN pkg.servers[CHOOSE i \in at : \A j \in at : j <= i].tools]

-----------------------------------------------------------------------------
\* Agent files: the blocks model, ai and session.
SpecErrors(m, key, code) ==
  Error(code, Has(m, <<key>>)
              /\ (~IsNonEmpty(Scalar(m, <<key>>)) \/ Trim(Scalar(m, <<key>>)) \notin Specs))

LevelErrors(m, code) ==
  Error(code, Has(m, <<"thinking_level">>)
              /\ Scalar(m, <<"thinking_level">>) \notin ThinkingLevels)

IntegerErrors(m, path, positive, code) ==
  Error(code, /\ Has(m, path)
              /\ ~(IsInteger(Scalar(m, path))
                   /\ AtLeast(Scalar(m, path), IF positive THEN 1 ELSE 0)))

RoutingKeys ==
  {"allow_fallbacks", "require_parameters", "data_collection", "zdr",
   "enforce_distillable_text", "order", "only", "ignore", "quantizations", "sort",
   "max_price", "preferred_min_throughput", "preferred_max_latency"}

RoutingErrors(m, ai) ==
  LET path == <<"providers", "openrouter", "routing">> IN
  IF ~IsMapping(m, path) THEN {"agent.openrouter_routing_invalid"}
  ELSE IF ai THEN {} ELSE Only(m, path, RoutingKeys, "agent.openrouter_routing_key_unknown")

AnthropicErrors(m) ==
  LET path == <<"providers", "anthropic">> IN
  IF ~IsMapping(m, path) THEN {"agent.anthropic_invalid"}
  ELSE Only(m, path, {"betas", "context_management"}, "agent.anthropic_key_unknown")
    \cup Error("agent.anthropic_betas_invalid",
               Has(m, Append(path, "betas")) /\ Scalar(m, Append(path, "betas")) # "names")
    \cup Error("agent.anthropic_context_invalid",
               ~IsMapping(m, Append(path, "context_management")))

VercelErrors(m) ==
  LET path == <<"providers", "vercel_ai_gateway">>
      routing == Append(path, "routing") IN
  IF ~IsMapping(m, path) \/ ~IsMapping(m, routing) THEN {"agent.vercel_invalid"}
  ELSE Only(m, path, {"routing"}, "agent.vercel_key_unknown")
    \cup Error("agent.vercel_key_blocked", "byok" \in Keys(m, routing))

ProviderErrors(m, ai) ==
  LET path == <<"providers">> IN
  IF ~IsMapping(m, path) THEN {"agent.providers_invalid"}
  ELSE Only(m, path, {"openrouter", "anthropic"}
                       \cup (IF ai THEN {"vercel_ai_gateway"} ELSE {}),
            "agent.providers_key_unknown")
    \cup (IF ~IsMapping(m, Append(path, "openrouter")) THEN {"agent.openrouter_invalid"}
          ELSE Only(m, Append(path, "openrouter"), {"routing"}, "agent.openrouter_key_unknown")
            \cup RoutingErrors(m, ai)
            \cup AnthropicErrors(m)
            \cup (IF ai THEN VercelErrors(m) ELSE {}))

ModelErrors(m) ==
  IF m.shape = "none" THEN {}
  ELSE IF m.shape = "bad" THEN {"agent.model_invalid"}
  ELSE Only(m, <<>>, {"name", "thinking_level", "temperature", "max_tokens", "cache_retention",
                      "timeout_ms", "max_retries", "max_retry_delay_ms", "providers"},
            "agent.model_key_unknown")
    \cup SpecErrors(m, "name", "agent.model.name_invalid")
    \cup LevelErrors(m, "agent.model.thinking_level_invalid")
    \cup Error("agent.model.temperature_invalid",
               Has(m, <<"temperature">>) /\ ~AtLeast(Scalar(m, <<"temperature">>), 0))
    \cup (UNION {IntegerErrors(m, <<key>>, TRUE, "agent.model.integer_invalid") :
                  key \in {"max_tokens", "timeout_ms"}})
    \cup (UNION {IntegerErrors(m, <<key>>, FALSE, "agent.model.integer_invalid") :
                  key \in {"max_retries", "max_retry_delay_ms"}})
    \cup Error("agent.model.cache_retention_invalid",
               /\ Has(m, <<"cache_retention">>)
               /\ Scalar(m, <<"cache_retention">>) \notin {"none", "short", "long"})
    \cup ProviderErrors(m, FALSE)

\* Options are open but for the names that the host keeps to itself.
HostOptions ==
  {"api_key", "azure_api_version", "azure_base_url", "azure_deployment_name",
   "azure_resource_name", "bearer_token", "client", "env", "fetch", "headers", "location",
   "on_payload", "on_response", "profile", "project", "reasoning", "region", "session_id",
   "signal", "telemetry_context", "transform_headers"}

AiErrors(m) ==
  IF m.shape = "none" THEN {}
  ELSE IF m.shape = "bad" THEN {"agent.ai_invalid"}
  ELSE Only(m, <<>>, {"model", "thinking_level", "options", "providers"}, "agent.ai_key_unknown")
    \cup SpecErrors(m, "model", "agent.ai.model_invalid")
    \cup LevelErrors(m, "agent.ai.thinking_level_invalid")
    \cup (IF ~IsMapping(m, <<"options">>) THEN {"agent.ai.options_invalid"}
          ELSE Only(m, <<"options">>, DOMAIN Camel, "agent.ai.options_key_invalid")
            \cup Error("agent.ai.options_key_blocked", Keys(m, <<"options">>) \cap HostOptions # {})
            \cup ProviderErrors(m, TRUE))

SettingsErrors(m, path, allowed, booleans, integers, positive) ==
  IF ~IsMapping(m, path) THEN {"agent.session_section_invalid"}
  ELSE Only(m, path, allowed, "agent.session_section_key_unknown")
    \cup Error("agent.session_boolean_invalid",
               \E key \in booleans : /\ Has(m, Append(path, key))
                                     /\ ~IsBoolean(Scalar(m, Append(path, key))))
    \cup UNION {IntegerErrors(m, Append(path, key), key \in positive,
                              "agent.session_integer_invalid") : key \in integers}

SessionErrors(m) ==
  IF m.shape = "none" THEN {}
  ELSE IF m.shape = "bad" THEN {"agent.session_invalid"}
  ELSE Only(m, <<>>, {"steering_mode", "follow_up_mode", "tool_execution", "retry", "compaction",
                      "images"}, "agent.session_key_unknown")
    \cup Error("agent.session_mode_invalid",
               \E key \in {"steering_mode", "follow_up_mode"} :
                 Has(m, <<key>>) /\ Scalar(m, <<key>>) \notin {"all", "one-at-a-time"})
    \cup Error("agent.session.tool_execution_invalid",
               /\ Has(m, <<"tool_execution">>)
               /\ Scalar(m, <<"tool_execution">>) \notin {"parallel", "sequential"})
    \cup SettingsErrors(m, <<"retry">>, {"enabled", "max_retries", "base_delay_ms", "provider"},
                        {"enabled"}, {"max_retries", "base_delay_ms"}, {})
    \cup SettingsErrors(m, <<"retry", "provider">>,
                        {"timeout_ms", "max_retries", "max_retry_delay_ms"}, {},
                        {"timeout_ms", "max_retries", "max_retry_delay_ms"}, {"timeout_ms"})
    \cup SettingsErrors(m, <<"compaction">>, {"enabled", "reserve_tokens", "keep_recent_tokens"},
                        {"enabled"}, {"reserve_tokens", "keep_recent_tokens"}, {})
    \cup SettingsErrors(m, <<"images">>, {"auto_resize", "block_images"},
                        {"auto_resize", "block_images"}, {}, {})

-----------------------------------------------------------------------------
\* Agent files: the block mcp.
SelectorErrors(key, list) ==
  LET exact == key = "exclude"
      names == Trimmed(list) IN
  IF list.shape = "none" THEN {}
  ELSE IF list.shape = "bad" \/ Blank(list) THEN {"agent.mcp_invalid"}
  ELSE Error("agent.mcp_selector_duplicate", Repeats(list))
    \cup Error("agent.mcp_selector_invalid",
               names \cap (Wild \cup IF exact THEN {"*"} ELSE {}) # {})
    \cup Error("agent.mcp_activation_selector_invalid",
               key \in {"defer", "eager"} /\ "*" \in names /\ Len(list.items) # 1)

AgentServerErrors(mode, id, server) ==
  IF Trim(id) = Empty THEN {"agent.mcp_server_invalid"}
  ELSE IF server.shape = "bad" THEN {"agent.mcp_invalid"}
  ELSE Error("agent.mcp_key_unknown", server.odd)
    \cup Error("agent.mcp_activation_invalid",
               mode = "cli" /\ (Given(server.defer) \/ Given(server.eager)))
    \cup UNION {SelectorErrors(key, server[key]) : key \in {"include", "exclude", "defer", "eager"}}

AgentMcpErrors(mcp) ==
  IF mcp.shape = "none" THEN {}
  ELSE IF mcp.shape = "bad" THEN {"agent.mcp_invalid"}
  ELSE Error("agent.mcp_mode_invalid", mcp.mode \notin {"none", "cli", "tools"})
    \cup Error("agent.mcp_servers_invalid", mcp.has # "map")
    \cup Error("agent.mcp_key_unknown", mcp.odd /\ mcp.has # "bad")
    \cup (UNION {AgentServerErrors(mcp.mode, id, mcp.servers[id]) : id \in DOMAIN mcp.servers})
    \cup Error("agent.mcp_server_collision",
               \E a, b \in {id \in DOMAIN mcp.servers : Trim(id) # Empty} :
                 a # b /\ IdOf[a] = IdOf[b])

\* What is kept of it: lists that are no lists of names are dropped, and in
\* the mode cli so are the activation lists.
Kept(list) == IF list.shape = "bad" \/ Blank(list) THEN NoList ELSE list

KeptSelection(mode, server) ==
  Selection(Kept(server.include), Kept(server.exclude),
            IF mode = "cli" THEN NoList ELSE Kept(server.defer),
            IF mode = "cli" THEN NoList ELSE Kept(server.eager))

KeptMcp(mcp) ==
  LET kept == {id \in DOMAIN mcp.servers : Trim(id) # Empty /\ mcp.servers[id].shape # "bad"} IN
  [mode |-> mcp.mode,
   servers |-> [id \in {IdOf[k] : k \in kept} |->
                 KeptSelection(mcp.mode, mcp.servers[CHOOSE k \in kept : IdOf[k] = id])]]

-----------------------------------------------------------------------------
\* Agent files: the rest of a file, and which of them are read.
StringsErrors(list) ==
  IF list.shape = "bad" \/ Blank(list) THEN {"agent.list_invalid"}
  ELSE Error("agent.list_duplicate", Repeats(list))

InstructionErrors(system) ==
  IF system.shape = "none" THEN {}
  ELSE Error("agent.system_instructions_key_unknown", system.odd)
    \cup Error("agent.system_instructions_invalid",
               \/ system.shape = "bad" \/ ~IsText(system.content)
               \/ system.mode \notin {"none", "append", "replace"})

Readable(file) == file.text = "mapping" /\ IsNonEmpty(file.name)

AgentErrors(file) ==
  IF file.text # "mapping" THEN {"agent.invalid"}
  ELSE Error("agent.key_unknown", file.odd)
    \cup (IF ~Readable(file) THEN {"agent.name_missing"}
          ELSE Error("agent.name_invalid", file.name \notin Portable)
            \cup Error("agent.description_invalid", ~IsText(file.description))
            \cup Error("agent.from_invalid", file.from # "none" /\ file.from \notin Portable)
            \cup Error("agent.ai_model_conflict", file.model.shape # "none" /\ file.ai.shape # "none")
            \cup ModelErrors(file.model) \cup AiErrors(file.ai) \cup SessionErrors(file.session)
            \cup Error("agent.tools_reserved", "agent" \in Trimmed(file.tools))
            \cup AgentMcpErrors(file.mcp)
            \cup (UNION {StringsErrors(list) : list \in {file.tools, file.skills, file.subagents}})
            \cup InstructionErrors(file.system))

\* Of two files with one name either counts: the recipe is invalid anyway.
Sources(recipe) ==
  LET files == {f \in AgentFiles : <<"agents", f>> \in AgentPaths(recipe)
                                     /\ Readable(recipe.files[f])} IN
  [name \in {recipe.files[f].name : f \in files} |->
     recipe.files[CHOOSE f \in files : recipe.files[f].name = name]]

Twice(recipe) ==
  \E a, b \in {f \in AgentFiles : <<"agents", f>> \in AgentPaths(recipe)
                                    /\ Readable(recipe.files[f])} :
    a # b /\ recipe.files[a].name = recipe.files[b].name

-----------------------------------------------------------------------------
\* Agents as they inherit from each other.
Parents(sources) ==
  [name \in DOMAIN sources |->
     IF IsNonEmpty(sources[name].from) THEN sources[name].from ELSE "none"]

\* FAULT: an agent that inherits from itself in a circle passes.
InheritanceErrorsMissing(sources, name) ==
  LET lineage == Lineage(Parents(sources), name)
      next == Parents(sources)[Last(lineage)]
  IN Error("agent.from_missing", next # "none" /\ next \notin DOMAIN sources)

InheritanceErrors(sources, name) ==
  LET lineage == Lineage(Parents(sources), name)
      next == Parents(sources)[Last(lineage)]
  IN IF next = "none" THEN {}
     ELSE IF next \in ToSet(lineage) THEN {"agent.from_cycle"}
     ELSE IF next \notin DOMAIN sources THEN {"agent.from_missing"}
     ELSE {"agent.from_depth"}

NamesModel(file) ==
  \/ Has(file.model, <<"name">>) /\ IsNonEmpty(Scalar(file.model, <<"name">>))
  \/ Has(file.ai, <<"model">>) /\ IsNonEmpty(Scalar(file.ai, <<"model">>))

ModelProvided(sources, name) ==
  \E n \in ToSet(Lineage(Parents(sources), name)) : NamesModel(sources[n])

ReferenceErrors(recipe, sources, name) ==
  LET file == sources[name] IN
  Error("agent.skill_missing",
        \E skill \in Trimmed(Kept(file.skills)) : PackagedSkills(recipe, skill) = {})
    \cup Error("agent.skill_ambiguous",
               \E skill \in Trimmed(Kept(file.skills)) :
                 Cardinality(PackagedSkills(recipe, skill)) > 1)
    \cup Error("agent.subagent_missing",
               \E sub \in Trimmed(Kept(file.subagents)) : sub \notin DOMAIN sources)

ResolvedMcp(sources, name) ==
  LET declares(n) == sources[n].mcp.shape # "none"
      nearest == Nearest(Lineage(Parents(sources), name), declares)
  IN IF nearest = "none" THEN [mode |-> "none", servers |-> <<>>]
     ELSE KeptMcp(sources[nearest].mcp)

ResolvedMcpErrors(pkg, sources, name) ==
  LET mcp == ResolvedMcp(sources, name)
      policy == ToolPolicy(pkg)
      selections == Range(mcp.servers) IN
  Error("agent.mcp_activation_invalid",
        /\ mcp.mode # "tools"
        /\ \E s \in selections : Given(s.defer) \/ Given(s.eager))
    \cup Error("agent.mcp_server_undeclared", DOMAIN mcp.servers \ DOMAIN policy # {})
    \cup Error("agent.mcp_tool_undeclared",
               \E id \in DOMAIN mcp.servers \cap DOMAIN policy :
                 \E tool \in Trimmed(mcp.servers[id].include) \ {"*"} :
                   ~SelectionAllows(policy[id], tool))
    \cup Error("agent.mcp_activation_tool_unauthorized",
               \E s \in selections : \E tool \in Activated(s) \ {"*"} : ~SelectionAllows(s, tool))

AgentsErrors(recipe) ==
  LET sources == Sources(recipe) IN
  (UNION {AgentErrors(recipe.files[p[Len(p)]]) : p \in AgentPaths(recipe)})
    \cup Error("agent.name_duplicate", Twice(recipe))
    \cup UNION {InheritanceErrors(sources, name)
                  \cup Error("agent.model.name_missing", ~ModelProvided(sources, name))
                  \cup ReferenceErrors(recipe, sources, name)
                  \cup ResolvedMcpErrors(recipe.pkg, sources, name) : name \in DOMAIN sources}

\* The report: an agents directory without YAML is not an error.
CheckRecipe(recipe) ==
  [valid |-> PackageErrors(recipe) \cup AgentsErrors(recipe) = {},
   agents |-> Cardinality(AgentPaths(recipe))]
=============================================================================
