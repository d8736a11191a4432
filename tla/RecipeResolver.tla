---------------------------- MODULE RecipeResolver ----------------------------
(*************************************************************************)
(* resolveRecipe: the runtime reads the same tree, refuses what its session *)
(* guard finds invalid, and makes one definition of every agent out of its *)
(* own file and those it inherits from.  This is code of its own: what it  *)
(* takes or leaves is not what the checker takes or leaves.                *)
(*************************************************************************)
EXTENDS RecipeSource

CONSTANT RuntimeYamlFiles   \* agent files whose suffix the runtime takes for YAML

-----------------------------------------------------------------------------
\* recipe-package.ts: where resources are.
\* Where in a path the names start that a pattern matches from its i-th name
\* on.  A "**" at the end stands for one name or more.
EntryMatches(pattern, path) ==
  LET starts[i \in 1..(Len(pattern) + 1)] ==
        IF i > Len(pattern) THEN {Len(path) + 1}
        ELSE IF pattern[i] = "**" THEN
          IF i = Len(pattern) THEN 1..Len(path)
          ELSE {j \in 1..(Len(path) + 1) : \E k \in starts[i + 1] : j <= k}
        ELSE {j \in 1..Len(path) : pattern[i] \in {"*", path[j]} /\ j + 1 \in starts[i + 1]}
  IN 1 \in starts[1]

EntriesOf(recipe, pattern) ==
  {p \in Files(recipe) \cup Directories(recipe) :
     IF IsGlob(pattern) THEN EntryMatches(pattern, p) ELSE p = pattern}

\* A pattern that leaves the package or that nothing matches is an exception.
ResourcesThrow(recipe, key) ==
  \E pattern \in ToSet(recipe.pkg[key].items) :
    {".", ".."} \cap ToSet(pattern) # {} \/ EntriesOf(recipe, pattern) = {}

PackageResourcePaths(recipe, key) ==
  IF Given(recipe.pkg[key])
  THEN UNION {EntriesOf(recipe, pattern) : pattern \in ToSet(recipe.pkg[key].items)}
  ELSE {p \in {<<key>>} : Exists(recipe, p)}

-----------------------------------------------------------------------------
\* recipe-package.ts: what is wrong with package.json#pi.
ChannelFindings(channels) ==
  \/ channels.shape = "bad"
  \/ \E i \in DOMAIN channels.items :
       LET c == channels.items[i] IN
       \/ c.odd \/ c.provider = Empty \/ ~c.dependency \/ c.requireReply = "text"
       \/ c.commands.shape = "bad" \/ Blank(c.commands)
       \/ Cardinality(ToSet(c.commands.items)) # Len(c.commands.items)
       \/ \E j \in 1..(i - 1) : channels.items[j].provider = c.provider

PythonFindings(runtime) ==
  LET value(key) == Scalar(runtime, <<"python", key>>)
      given(key) == Has(runtime, <<"python", key>>) IN
  \/ ~IsMapping(runtime, <<"python">>)
  \/ Keys(runtime, <<"python">>) \ {"project", "lockfile", "version", "imports"} # {}
  \/ ~IsNonEmpty(value("project")) \/ value("project") \notin {"dir", "./dir"}
  \/ ~IsNonEmpty(value("lockfile")) \/ value("lockfile") # "file"
  \/ given("version") /\ ~IsNonEmpty(value("version"))
  \/ given("imports") /\ value("imports") # "names"

RuntimeFindings(runtime) ==
  \/ runtime.shape = "bad"
  \/ runtime.shape = "map"
     /\ \/ Keys(runtime, <<>>) \ {"python", "system"} # {}
        \/ Has(runtime, <<"python">>) /\ PythonFindings(runtime)
        \/ /\ Has(runtime, <<"system">>)
           /\ \/ Keys(runtime, <<"system">>) \ {"packages"} # {}
              \/ Scalar(runtime, <<"system", "packages">>) # "packages"

McpFindings(pkg) ==
  \/ pkg.mcp = "bad"
  \/ \E i \in DOMAIN pkg.servers :
       LET s == pkg.servers[i] IN
       \/ s.odd \/ s.id = Empty \/ ~ValidSelection(s.tools)
       \/ \E j \in 1..(i - 1) : IdOf[pkg.servers[j].id] = IdOf[s.id]

PackageFindings(recipe) ==
  \/ ~recipe.pkg.pi \/ recipe.pkg.odd \/ ~recipe.pkg.name
  \/ \E key \in {"agents", "skills"} :
       LET declared == recipe.pkg[key] IN
       declared.shape = "bad" \/ Cardinality(ToSet(declared.items)) # Len(declared.items)
  \/ ~Given(recipe.pkg.agents) /\ ~Exists(recipe, <<"agents">>)
  \/ ChannelFindings(recipe.pkg.channels)
  \/ McpFindings(recipe.pkg)
  \/ RuntimeFindings(recipe.pkg.runtime)

PackageTools(pkg) ==
  [id \in {IdOf[pkg.servers[i].id] : i \in DOMAIN pkg.servers} |->
     LET at == {i \in DOMAIN pkg.servers : IdOf[pkg.servers[i].id] = id}
     IN pkg.servers[CHOOSE i \in at : \A j \in at : i <= j].tools]

-----------------------------------------------------------------------------
\* recipe-model.ts and recipe-session.ts: blocks that the parsers refuse.
Optional(m, path, Test(_)) == Has(m, path) => Test(Scalar(m, path))
Whole(m, path, min) ==
  LET test(v) == IsInteger(v) /\ AtLeast(v, min) IN Optional(m, path, test)
KeysWithin(m, path, allowed) == IsMapping(m, path) /\ Keys(m, path) \subseteq allowed

LegacyOpenRouterKeys ==
  {"allow_fallbacks", "require_parameters", "data_collection", "zdr",
   "enforce_distillable_text", "order", "only", "ignore", "quantizations", "sort",
   "max_price", "preferred_min_throughput", "preferred_max_latency"}

ValidProviders(m, prefix) ==
  LET openrouter == <<"providers", "openrouter">>
      anthropic == <<"providers", "anthropic">>
      vercel == <<"providers", "vercel_ai_gateway">>
      names(v) == v = "names" IN
  /\ KeysWithin(m, <<"providers">>,
                {"openrouter", "anthropic"} \cup IF prefix = "ai" THEN {"vercel_ai_gateway"} ELSE {})
  /\ KeysWithin(m, openrouter, {"routing"})
  /\ IsMapping(m, Append(openrouter, "routing"))
  /\ prefix = "model" =>
       Keys(m, Append(openrouter, "routing")) \subseteq LegacyOpenRouterKeys
  /\ KeysWithin(m, anthropic, {"betas", "context_management"})
  /\ Optional(m, Append(anthropic, "betas"), names)
  /\ IsMapping(m, Append(anthropic, "context_management"))
  /\ prefix = "ai" =>
       /\ KeysWithin(m, vercel, {"routing"})
       /\ IsMapping(m, Append(vercel, "routing"))
       /\ "byok" \notin Keys(m, Append(vercel, "routing"))

ValidModelBlock(m) ==
  LET level(v) == v \in ThinkingLevels
      number(v) == AtLeast(v, 0)
      retention(v) == IsText(v) /\ Trim(v) \in {Empty, "none", "short", "long"} IN
  \/ m.shape = "none"
  \/ /\ m.shape = "map"
     /\ Keys(m, <<>>) \subseteq
          {"name", "thinking_level", "temperature", "max_tokens", "cache_retention",
           "timeout_ms", "max_retries", "max_retry_delay_ms", "providers"}
     /\ Optional(m, <<"thinking_level">>, level)
     /\ Optional(m, <<"cache_retention">>, retention)
     /\ Optional(m, <<"temperature">>, number)
     /\ Whole(m, <<"max_tokens">>, 1) /\ Whole(m, <<"timeout_ms">>, 1)
     /\ Whole(m, <<"max_retries">>, 0) /\ Whole(m, <<"max_retry_delay_ms">>, 0)
     /\ Optional(m, <<"name">>, IsText)
     /\ ValidProviders(m, "model")

\* Options are Pi's, in its spelling, but for those that belong to the host.
BlockedOptions ==
  {"apiKey", "azureApiVersion", "azureBaseUrl", "azureDeploymentName", "azureResourceName",
   "bearerToken", "client", "env", "fetch", "headers", "location", "onPayload", "onResponse",
   "profile", "project", "reasoning", "region", "sessionId", "signal", "telemetryContext",
   "transformHeaders"}

ValidAiBlock(m) ==
  LET level(v) == v \in ThinkingLevels IN
  \/ m.shape = "none"
  \/ /\ m.shape = "map"
     /\ Keys(m, <<>>) \subseteq {"model", "thinking_level", "options", "providers"}
     /\ Optional(m, <<"model">>, IsText)
     /\ Optional(m, <<"thinking_level">>, level)
     /\ KeysWithin(m, <<"options">>, DOMAIN Camel)
     /\ {Camel[key] : key \in Keys(m, <<"options">>)} \cap BlockedOptions = {}
     /\ ValidProviders(m, "ai")

ValidSection(m, path, booleans, counts, positives, sections) ==
  LET at(key) == Append(path, key) IN
  /\ KeysWithin(m, path, booleans \cup counts \cup positives \cup sections)
  /\ \A key \in booleans : Optional(m, at(key), IsBoolean)
  /\ \A key \in counts : Whole(m, at(key), 0)
  /\ \A key \in positives : Whole(m, at(key), 1)

ValidSessionBlock(m) ==
  LET mode(v) == v \in {"all", "one-at-a-time"}
      execution(v) == v \in {"parallel", "sequential"} IN
  \/ m.shape = "none"
  \/ /\ m.shape = "map"
     /\ Keys(m, <<>>) \subseteq {"steering_mode", "follow_up_mode", "tool_execution", "retry",
                                 "compaction", "images"}
     /\ \A key \in {"steering_mode", "follow_up_mode"} : Optional(m, <<key>>, mode)
     /\ Optional(m, <<"tool_execution">>, execution)
     /\ ValidSection(m, <<"retry">>, {"enabled"}, {"max_retries", "base_delay_ms"}, {}, {"provider"})
     /\ ValidSection(m, <<"retry", "provider">>, {}, {"max_retries", "max_retry_delay_ms"},
                     {"timeout_ms"}, {})
     /\ ValidSection(m, <<"compaction">>, {"enabled"}, {"reserve_tokens", "keep_recent_tokens"}, {}, {})
     /\ ValidSection(m, <<"images">>, {"auto_resize", "block_images"}, {}, {}, {})

-----------------------------------------------------------------------------
\* recipe-model.ts: the block as configuration.  A section is a function from
\* its keys to what is under them; no section is one without keys.
Under(m, path) ==
  LET at == {p \in DOMAIN m.at : IsPrefix(path, p)}
  IN [tail \in {SubSeq(p, Len(path) + 1, Len(p)) : p \in at} |-> m.at[path \o tail]]
Section(m, path) == [key \in Keys(m, path) |-> Under(m, Append(path, key))]

StreamKeys ==
  {"temperature", "max_tokens", "cache_retention", "timeout_ms", "max_retries",
   "max_retry_delay_ms"}

Text(m, key) == IF Has(m, <<key>>) /\ Trim(Scalar(m, <<key>>)) # Empty THEN Trim(Scalar(m, <<key>>)) ELSE "none"

\* Of the options of the older block one is a text, without the blanks around
\* it; blank it counts as not given.  Those of the block ai are taken as they are.
LegacyOptions(m) ==
  {key \in StreamKeys \cap Keys(m, <<>>) :
     key = "cache_retention" => Trim(Scalar(m, <<key>>)) # Empty}
LegacyOption(m, key) ==
  IF key = "cache_retention" THEN [tail \in {<<>>} |-> Trim(Scalar(m, <<key>>))]
  ELSE Under(m, <<key>>)

\* Only one of the two blocks is there when this is used.
ModelConfig(file) ==
  LET legacy == file.ai.shape = "none"
      m == IF legacy THEN file.model ELSE file.ai
      options == IF legacy THEN LegacyOptions(m) ELSE Keys(m, <<"options">>)
      at(camel) == CHOOSE key \in options : Camel[key] = camel
  IN [name |-> Text(m, IF legacy THEN "name" ELSE "model"),
      thinking |-> Text(m, "thinking_level"),
      stream |-> [camel \in {Camel[key] : key \in options} |->
                    IF legacy THEN LegacyOption(m, at(camel))
                    ELSE Under(m, <<"options", at(camel)>>)],
      openrouter |-> Section(m, <<"providers", "openrouter", "routing">>),
      anthropic |-> Section(m, <<"providers", "anthropic">>),
      vercel |-> Section(m, <<"providers", "vercel_ai_gateway", "routing">>)]

NoConfig ==
  [name |-> "none", thinking |-> "none", stream |-> <<>>, openrouter |-> <<>>,
   anthropic |-> <<>>, vercel |-> <<>>]

\* { ...base, ...overlay }
Spread(base, overlay) ==
  [key \in DOMAIN base \cup DOMAIN overlay |->
     IF key \in DOMAIN overlay THEN overlay[key] ELSE base[key]]

\* FAULT: the options of the base are kept when the model changes.
MergeModelConfigAlways(base, overlay) ==
  [name |-> IF overlay.name # "none" THEN overlay.name ELSE base.name,
   thinking |-> IF overlay.thinking # "none" THEN overlay.thinking ELSE base.thinking,
   stream |-> Spread(base.stream, overlay.stream),
   openrouter |-> Spread(base.openrouter, overlay.openrouter),
   anthropic |-> Spread(base.anthropic, overlay.anthropic),
   vercel |-> Spread(base.vercel, overlay.vercel)]

MergeModelConfig(base, overlay) ==
  IF overlay.name # "none" THEN overlay
  ELSE [name |-> base.name,
        thinking |-> IF overlay.thinking # "none" THEN overlay.thinking ELSE base.thinking,
        stream |-> Spread(base.stream, overlay.stream),
        openrouter |-> Spread(base.openrouter, overlay.openrouter),
        anthropic |-> Spread(base.anthropic, overlay.anthropic),
        vercel |-> Spread(base.vercel, overlay.vercel)]

\* recipe-session.ts: settings by their paths; a section without keys is none.
SessionConfig(file) ==
  [path \in {p \in DOMAIN file.session.at : file.session.at[p] # "empty"} |-> file.session.at[path]]
MergeSessionConfig(base, overlay) == Spread(base, overlay)

-----------------------------------------------------------------------------
\* recipe-agent.ts: the block mcp.
NoMcp == [declared |-> FALSE, invalid |-> FALSE, mode |-> "none", servers |-> <<>>]

MalformedServer(mode, server) ==
  \/ server.shape = "bad" \/ server.odd
  \/ \E key \in {"include", "exclude", "defer", "eager"} : Repeats(server[key])
  \/ \E key \in {"defer", "eager"} :
       \/ server[key].shape = "bad" \/ ~ValidActivation(server[key])
       \/ mode = "cli" /\ Given(server[key])

ParseMcp(mcp) ==
  IF mcp.shape = "none" THEN NoMcp
  ELSE LET ids == DOMAIN mcp.servers
           under(id) == mcp.servers[CHOOSE k \in ids : IdOf[k] = id] IN
    [declared |-> TRUE,
     invalid |->
       \/ mcp.shape = "bad" \/ mcp.odd \/ mcp.has # "map"
       \/ mcp.mode \notin {"none", "cli", "tools"}
       \/ \E id \in ids : Trim(id) = Empty \/ MalformedServer(mcp.mode, mcp.servers[id])
       \/ \E a, b \in ids : a # b /\ IdOf[a] = IdOf[b],
     mode |-> IF mcp.mode \in {"cli", "tools"} THEN mcp.mode ELSE "none",
     servers |-> [id \in {IdOf[k] : k \in ids} |->
                    Selection(under(id).include, under(id).exclude, under(id).defer, under(id).eager)]]

\* A child's block replaces the one of its base: what may be called is
\* reviewed where it is written.
\* FAULT: the servers of the base stay beside those of the child.
MergeMcpServers(base, child) ==
  IF ~child.declared THEN base
  ELSE [child EXCEPT !.servers = Spread(base.servers, child.servers)]

MergeMcp(base, child) == IF child.declared THEN child ELSE base

-----------------------------------------------------------------------------
\* recipe-agent.ts: one file, and which files there are.
InvalidInstructions(system) ==
  /\ system.shape # "none"
  /\ \/ system.shape = "bad" \/ system.odd \/ ~IsText(system.content)
     \/ system.mode \notin {"none", "append", "replace"}

InvalidAgentField(file) ==
  \/ ~IsNonEmpty(file.name) \/ file.name \notin Portable
  \/ file.from # "none" /\ file.from \notin Portable
  \/ ~IsText(file.description)
  \/ \E list \in {file.tools, file.skills, file.subagents} :
       list.shape = "bad" \/ Blank(list) \/ Repeats(list)
  \/ "agent" \in Trimmed(file.tools)
  \/ InvalidInstructions(file.system)

ValidFile(file) ==
  /\ file.text = "mapping" /\ ~file.odd
  /\ ~InvalidAgentField(file)
  /\ file.model.shape = "none" \/ file.ai.shape = "none"
  /\ ValidModelBlock(file.model) /\ ValidAiBlock(file.ai) /\ ValidSessionBlock(file.session)

\* A file that two patterns reach, by its name and by its directory, is read
\* twice.
TimesRead(recipe, f) ==
  IF ~recipe.files[f].present \/ f \notin RuntimeYamlFiles THEN 0
  ELSE Cardinality({<<"agents">>, <<"agents", f>>} \cap PackageResourcePaths(recipe, "agents"))

AgentFilesRead(recipe) == {f \in AgentFiles : TimesRead(recipe, f) > 0}

ParseInstructions(system) ==
  [shape |-> system.shape, mode |-> system.mode, content |-> Trim(system.content)]

ParseFile(file) ==
  [name |-> file.name, from |-> file.from, description |-> file.description,
   config |-> ModelConfig(file), session |-> SessionConfig(file),
   tools |-> TrimEach(file.tools), skills |-> TrimEach(file.skills),
   subagents |-> TrimEach(file.subagents), mcp |-> ParseMcp(file.mcp),
   system |-> ParseInstructions(file.system)]

RecipeAgentSources(recipe) ==
  LET files == {f \in AgentFilesRead(recipe) : ValidFile(recipe.files[f])} IN
  [name \in {recipe.files[f].name : f \in files} |->
     ParseFile(recipe.files[CHOOSE f \in files : recipe.files[f].name = name])]

DeclaredTwice(recipe) ==
  LET files == {f \in AgentFilesRead(recipe) : ValidFile(recipe.files[f])} IN
  \/ \E f \in files : TimesRead(recipe, f) > 1
  \/ \E a, b \in files : a # b /\ recipe.files[a].name = recipe.files[b].name

-----------------------------------------------------------------------------
\* recipe-agent.ts: an agent and those it inherits from.
Froms(sources) == [name \in DOMAIN sources |-> sources[name].from]
LineageOf(sources, name) == Lineage(Froms(sources), name)
Rooted(sources, name) == sources[Last(LineageOf(sources, name))].from = "none"

\* The instructions of the lineage, those that append after those of the base.
MergeInstructions(base, child) ==
  IF child.shape = "none" THEN base
  ELSE IF child.mode = "replace" THEN [mode |-> "replace", content |-> <<child.content>>]
  ELSE [mode |-> IF base.content = <<>> THEN "append" ELSE base.mode,
        content |-> Append(base.content, child.content)]

Overlay(base, raw) ==
  [description |-> IF raw.description = "none" THEN base.description ELSE raw.description,
   config |-> MergeModelConfig(base.config, raw.config),
   session |-> MergeSessionConfig(base.session, raw.session),
   tools |-> OrElse(raw.tools, base.tools), skills |-> OrElse(raw.skills, base.skills),
   subagents |-> OrElse(raw.subagents, base.subagents),
   mcp |-> MergeMcp(base.mcp, raw.mcp),
   system |-> MergeInstructions(base.system, raw.system)]

Bare ==
  [description |-> "none", config |-> NoConfig, session |-> <<>>, tools |-> NoList,
   skills |-> NoList, subagents |-> NoList, mcp |-> NoMcp,
   system |-> [mode |-> "none", content |-> <<>>]]

\* An agent over what its base comes to, from the root of the lineage down.
Definition(sources, name) ==
  LET line == LineageOf(sources, name)
      over[i \in 1..(Len(line) + 1)] ==
        IF i > Len(line) THEN Bare ELSE Overlay(over[i + 1], sources[line[i]])
  IN over[1]

Definitions(sources) ==
  [name \in {n \in DOMAIN sources : Rooted(sources, n)} |-> Definition(sources, name)]

ResolvedModelProvided(sources, name) ==
  \E n \in ToSet(LineageOf(sources, name)) : sources[n].config.name # "none"

McpChainInvalid(sources, name) ==
  \E n \in ToSet(LineageOf(sources, name)) :
    LET mcp == sources[n].mcp IN
    mcp.invalid \/ \E selection \in Range(mcp.servers) : ~ValidSelection(selection)

InvalidMcpPolicy(pkg, sources, name) ==
  LET declares(n) == sources[n].mcp.declared
      nearest == Nearest(LineageOf(sources, name), declares)
      mcp == IF nearest = "none" THEN NoMcp ELSE sources[nearest].mcp
      policy == PackageTools(pkg) IN
  \/ McpChainInvalid(sources, name)
  \/ \E id \in DOMAIN mcp.servers :
       LET s == mcp.servers[id] IN
       \/ ~ValidSelection(s) \/ id \notin DOMAIN policy
       \/ \E tool \in Trimmed(s.include) \ {"*"} : ~SelectionAllows(policy[id], tool)
       \/ mcp.mode # "tools" /\ (Given(s.defer) \/ Given(s.eager))
       \/ ~ValidActivation(s.defer) \/ ~ValidActivation(s.eager)
       \/ \E tool \in Activated(s) \ {"*"} : ~SelectionAllows(s, tool)

AgentFindings(recipe) ==
  LET sources == RecipeAgentSources(recipe) IN
  \/ \E f \in AgentFilesRead(recipe) : ~ValidFile(recipe.files[f])
  \/ DeclaredTwice(recipe)
  \/ \E name \in DOMAIN sources :
       \/ sources[name].config.name \notin Specs \cup {"none"}
       \/ ~Rooted(sources, name) \/ ~ResolvedModelProvided(sources, name)
       \/ InvalidMcpPolicy(recipe.pkg, sources, name)

-----------------------------------------------------------------------------
\* recipe-skills.ts and recipe/resolve.ts.
Within(recipe, path) == {d \in Directories(recipe) : Len(d) = Len(path) + 1 /\ IsPrefix(path, d)}
DiscoverSkillFiles(recipe, start) ==
  LET found[path \in Files(recipe) \cup Directories(recipe)] ==
        IF path \in Files(recipe) THEN {p \in {path} : Last(p) = "SKILL.md"}
        ELSE IF Append(path, "SKILL.md") \in Files(recipe) THEN {Append(path, "SKILL.md")}
        ELSE UNION {found[d] : d \in Within(recipe, path)}
  IN found[start]

AgentSkillPaths(recipe, names) ==
  {p \in UNION {DiscoverSkillFiles(recipe, r) : r \in PackageResourcePaths(recipe, "skills")} :
     SkillName(recipe, p) \in names}

Unresolvable(recipe, definitions, name) ==
  \/ Trimmed(definitions[name].subagents) \ DOMAIN definitions # {}
  \/ definitions[name].config.name = "none"
  \/ \E skill \in Trimmed(definitions[name].skills) :
       Cardinality(AgentSkillPaths(recipe, {skill})) # 1

\* The agents of a Recipe, ready to be used, or none when it is refused.
ResolveRecipe(recipe) ==
  LET definitions == Definitions(RecipeAgentSources(recipe)) IN
  IF \/ PackageFindings(recipe) \/ ResourcesThrow(recipe, "agents")
     \/ \E f \in AgentFilesRead(recipe) : recipe.files[f].text = "malformed"
     \/ AgentFindings(recipe) \/ ResourcesThrow(recipe, "skills")
     \/ \E name \in DOMAIN definitions : Unresolvable(recipe, definitions, name)
  THEN <<>> ELSE definitions

\* Which agent a session is started for when none is asked for.
SelectAgent(agents, requested) ==
  IF requested # Empty THEN requested
  ELSE IF "agent" \in DOMAIN agents THEN "agent"
  ELSE IF Cardinality(DOMAIN agents) = 1 THEN CHOOSE name \in DOMAIN agents : TRUE
  ELSE "none"
=============================================================================
