----------------------------- MODULE MC_RecipeUse -----------------------------
(*************************************************************************)
(* Recipes for TLC: three trees that the checker passes, and changes to    *)
(* them, alone and two by two: what authors get wrong or write differently. *)
(*************************************************************************)
EXTENDS RecipeUse

MCTools == {"read", "write"}
MCIdOf == ("srv" :> "srv") @@ ("SRV" :> "srv") @@ ("docs" :> "docs") @@ ("" :> "mcp") @@ (" " :> "mcp")
MCPadded == (" read" :> "read") @@ (" " :> "") @@ (" p/m1" :> "p/m1") @@ (" short" :> "short")
              @@ (" more" :> "more")
MCCamel ==
  ("temperature" :> "temperature") @@ ("max_tokens" :> "maxTokens")
    @@ ("cache_retention" :> "cacheRetention") @@ ("timeout_ms" :> "timeoutMs")
    @@ ("max_retries" :> "maxRetries") @@ ("max_retry_delay_ms" :> "maxRetryDelayMs")
    @@ ("api_key" :> "apiKey")

List(a) == ListOf(a)
Server(id, include) ==
  [id |-> id, odd |-> FALSE, required |-> FALSE,
   tools |-> [include |-> List(include), exclude |-> NoList]]
Lists(include, exclude, defer, eager) ==
  [shape |-> "map", odd |-> FALSE, include |-> include, exclude |-> exclude, defer |-> defer,
   eager |-> eager]
Mcp(mode, servers) ==
  [shape |-> "map", mode |-> mode, has |-> "map", odd |-> FALSE, servers |-> servers]
NoBlock == [shape |-> "none", mode |-> "none", has |-> "none", odd |-> FALSE, servers |-> <<>>]
NoSystem == [shape |-> "none", odd |-> FALSE, mode |-> "none", content |-> "none"]
Added == [shape |-> "map", odd |-> FALSE, mode |-> "none", content |-> "added"]

Agent(name, from, model, mcp) ==
  [present |-> TRUE, text |-> "mapping", odd |-> FALSE, name |-> name, from |-> from,
   description |-> "none", model |-> model, ai |-> None, session |-> None, tools |-> NoList,
   skills |-> NoList, subagents |-> NoList, mcp |-> mcp, system |-> NoSystem]

Package(servers) ==
  [pi |-> TRUE, name |-> TRUE, odd |-> FALSE, dependencies |-> TRUE, lockfile |-> "same",
   local |-> FALSE, example |-> "valid", agents |-> NoList, skills |-> NoList,
   channels |-> NoList, mcp |-> "map", servers |-> servers, runtime |-> None]

Model1 == Mapping((<<"name">> :> "p/m1") @@ (<<"max_tokens">> :> "one") @@ (<<"max_retries">> :> "one"))
ReadOnly == Mcp("cli", "srv" :> Lists(List(<<"read">>), NoList, NoList, NoList))
Everything == Mcp("tools", "srv" :> Lists(List(<<"*">>), NoList, List(<<"*">>), NoList))

Tree(files, skills, servers) == [pkg |-> Package(servers), files |-> files, skills |-> skills]
NoSkills == [d \in SkillDirs |-> "none"]

\* One agent; an agent, its base and the base of that; two agents that the
\* third one delegates to, with a skill.
Single == Tree(("a" :> Agent("agent", "none", Model1, Everything)) @@ [f \in AgentFiles |-> NoFile],
               NoSkills, <<Server("srv", <<"*">>)>>)
Chain == Tree(("a" :> [Agent("agent", "mid", None, NoBlock) EXCEPT !.system = Added])
                @@ ("b" :> Agent("mid", "base", Mapping(<<"max_retries">> :> "zero"), ReadOnly))
                @@ ("c" :> [Agent("base", "none", Model1, Everything) EXCEPT !.system = Added])
                @@ [f \in AgentFiles |-> NoFile],
              NoSkills, <<Server("srv", <<"*">>), Server("docs", <<"read">>)>>)
Team == Tree(("a" :> [Agent("agent", "none", Model1, ReadOnly) EXCEPT
                        !.subagents = List(<<"mid">>), !.skills = List(<<"skill">>)])
               @@ ("b" :> Agent("mid", "none", Model1, Everything))
               @@ [f \in AgentFiles |-> NoFile],
             [NoSkills EXCEPT !["s"] = "skill"], <<Server("srv", <<"*">>)>>)
MCBases == {Single, Chain, Team}

-----------------------------------------------------------------------------
Change(at, value) == [at |-> at, value |-> value]
Set(at, values) == {Change(at, v) : v \in values}
In(f, at, values) == {Change(<<"files", f>> \o at, v) : v \in values}

Blocks ==
  {Mapping(<<>>), NotAMapping, Mapping(<<"name">> :> " p/m1"), Mapping(<<"name">> :> "p/m2"),
   Mapping(<<"name">> :> "bare"), Mapping(<<"unknown">> :> "one"),
   Mapping(<<"temperature">> :> "neg"), Mapping(<<"max_tokens">> :> "zero"),
   Mapping(<<"cache_retention">> :> " short"), Mapping(<<"cache_retention">> :> ""),
   Mapping(<<"providers", "openrouter", "routing", "zdr">> :> "true"),
   Mapping(<<"providers", "openrouter">> :> "one"),
   Mapping(<<"providers", "vercel_ai_gateway", "routing", "byok">> :> "one")}

AiBlocks ==
  {Mapping(<<"model">> :> "p/m2"), Mapping((<<"model">> :> "p/m2") @@ (<<"options", "max_tokens">> :> "zero")),
   Mapping(<<"options", "api_key">> :> "text"), Mapping(<<"options", "timeout_ms">> :> "half"),
   Mapping(<<"options">> :> "empty"), Mapping(<<"thinking_level">> :> "high"),
   Mapping(<<"thinking_level">> :> "loud"),
   Mapping(<<"providers", "vercel_ai_gateway", "routing", "byok">> :> "one"),
   Mapping(<<"providers", "anthropic", "betas">> :> "names")}

SessionBlocks ==
  {Mapping(<<"steering_mode">> :> "all"), Mapping(<<"steering_mode">> :> "some"),
   Mapping((<<"retry", "enabled">> :> "true") @@ (<<"retry", "provider", "timeout_ms">> :> "zero")),
   Mapping((<<"retry", "enabled">> :> "true") @@ (<<"retry", "max_retries">> :> "zero")),
   Mapping(<<"retry", "enabled">> :> "false"), Mapping(<<"retry">> :> "empty"),
   Mapping(<<"compaction", "enabled">> :> "one"), Mapping(<<"images">> :> "text")}

McpBlocks ==
  {NoBlock, [NoBlock EXCEPT !.shape = "bad", !.has = "bad"], [ReadOnly EXCEPT !.has = "none", !.servers = <<>>],
   [ReadOnly EXCEPT !.odd = TRUE], Mcp("other", ReadOnly.servers), Mcp("none", ReadOnly.servers),
   Everything, Mcp("cli", Everything.servers),
   Mcp("tools", "srv" :> Lists(List(<<"*">>), List(<<"write">>), List(<<"*">>), List(<<"read">>))),
   Mcp("tools", "srv" :> Lists(List(<<"read">>), NoList, NoList, List(<<"write">>))),
   Mcp("tools", "srv" :> Lists(List(<<"read">>), NoList, List(<<"*", "read">>), NoList)),
   Mcp("tools", "docs" :> Lists(List(<<"*">>), NoList, NoList, List(<<"write">>))),
   Mcp("tools", "docs" :> Lists(List(<<"*">>), NoList, NoList, List(<<"*">>))),
   Mcp("none", ("srv" :> Lists(List(<<"read">>), NoList, NoList, NoList))
                 @@ ("SRV" :> Lists(List(<<"write">>), NoList, NoList, NoList))),
   Mcp("none", "SRV" :> Lists(List(<<"write">>), NoList, NoList, NoList)),
   Mcp("none", "srv" :> Lists(NoList, NoList, NoList, NoList)),
   Mcp("none", "srv" :> Lists(BadList, NoList, NoList, NoList)),
   Mcp("none", "srv" :> Lists(List(<<" read">>), NoList, NoList, NoList)),
   Mcp("none", "srv" :> Lists(List(<<"read", " read">>), NoList, NoList, NoList)),
   Mcp("none", "srv" :> Lists(List(<<"re*">>), NoList, NoList, NoList)),
   Mcp("none", "srv" :> Lists(List(<<"*">>), List(<<"*">>), NoList, NoList)),
   Mcp("none", "srv" :> Lists(List(<<"*">>), List(<<" ">>), NoList, NoList)),
   Mcp("none", " " :> Lists(List(<<"*">>), NoList, NoList, NoList))}

AgentEdits(f) ==
  In(f, <<"text">>, {"malformed", "other"})
    \cup In(f, <<"odd">>, {TRUE})
    \cup In(f, <<"name">>, {"", "agent", "Not Portable"})
    \cup In(f, <<"from">>, {"none", "agent", "mid", "base", "gone"})
    \cup In(f, <<"description">>, {"text", "one"})
    \cup In(f, <<"model">>, Blocks \cup {None})
    \cup In(f, <<"ai">>, AiBlocks)
    \cup In(f, <<"session">>, SessionBlocks)
    \cup In(f, <<"tools">>, {List(<<" read">>), List(<<>>), List(<<"agent">>), BadList})
    \cup In(f, <<"skills">>, {List(<<"skill">>), List(<<"s", "s">>)})
    \cup In(f, <<"subagents">>, {List(<<"base">>), List(<<"agent">>)})
    \cup In(f, <<"system">>, {[shape |-> "map", odd |-> FALSE, mode |-> "replace", content |-> "text"],
                              [shape |-> "map", odd |-> FALSE, mode |-> "append", content |-> " more"],
                              [shape |-> "map", odd |-> FALSE, mode |-> "none", content |-> "one"]})
    \cup In(f, <<"mcp">>, McpBlocks)

PackageEdits ==
  Set(<<"pkg", "pi">>, {FALSE}) \cup Set(<<"pkg", "lockfile">>, {"none", "another", "malformed"})
    \cup Set(<<"pkg", "local">>, {TRUE}) \cup Set(<<"pkg", "example">>, {"invalid", "malformed"})
    \cup Set(<<"pkg", "dependencies">>, {FALSE}) \cup Set(<<"pkg", "name">>, {FALSE}) \cup Set(<<"pkg", "odd">>, {TRUE})
    \cup Set(<<"pkg", "agents">>,
             {BadList, List(<<>>), List(<<<<"agents">>>>), List(<<<<"agents">>, <<"agents">>>>),
              List(<<<<"agents", "a">>>>), List(<<<<"agents">>, <<"agents", "a">>>>),
              List(<<<<"agents", "*">>>>), List(<<<<"agents", "**">>>>), List(<<<<"**">>>>),
              List(<<<<"agents", "a", "**">>>>),
              List(<<<<"..", "agents">>>>), List(<<<<"gone">>>>)})
    \cup Set(<<"pkg", "skills">>,
             {List(<<>>), List(<<<<"skills", "s">>>>), List(<<<<"skills", "*">>>>),
              List(<<<<"skills", "s", "SKILL.md">>, <<"skills">>>>)})
    \cup Set(<<"pkg", "servers">>,
             {<<>>, <<Server("srv", <<"*">>), Server("SRV", <<"*">>)>>,
              <<Server("srv", <<"re*">>)>>, <<Server("srv", <<"read">>)>>,
              <<[Server("srv", <<"*">>) EXCEPT !.tools.exclude = List(<<"read">>)]>>,
              <<[Server("srv", <<"*">>) EXCEPT !.required = TRUE]>>,
              <<[Server("gone", <<"*">>) EXCEPT !.id = "docs", !.required = TRUE],
                Server("srv", <<"*">>)>>})
    \cup Set(<<"pkg", "mcp">>, {"bad"})
    \cup Set(<<"pkg", "channels">>,
             {BadList,
              List(<<[odd |-> FALSE, provider |-> "slack", dependency |-> TRUE,
                      requireReply |-> "true", commands |-> NoList]>>),
              List(<<[odd |-> FALSE, provider |-> "slack", dependency |-> FALSE,
                      requireReply |-> "true", commands |-> List(<<"go", "go">>)]>>)})
    \cup Set(<<"pkg", "runtime">>,
             {Mapping((<<"python", "project">> :> "dir") @@ (<<"python", "lockfile">> :> "file")),
              Mapping((<<"python", "project">> :> "./dir") @@ (<<"python", "lockfile">> :> "file")),
              Mapping((<<"python", "project">> :> "dir") @@ (<<"python", "lockfile">> :> "file")
                        @@ (<<"python", "version">> :> "one")),
              Mapping(<<"python", "project">> :> "dir"), Mapping(<<"system", "packages">> :> "packages"),
              Mapping(<<"system", "packages">> :> "one")})

TreeEdits ==
  {Change(<<"skills", "s">>, "none"), Change(<<"skills", "s">>, "unnamed"),
   Change(<<"skills", "t">>, "skill"), Change(<<"files", "b">>, NoFile),
   Change(<<"files", "D">>, Agent("more", "none", Model1, NoBlock)),
   Change(<<"files", "D">>, Agent("agent", "gone", None, NoBlock)),
   Change(<<"files", "c">>, Agent("base", "mid", None, NoBlock))}

Inherited(f) ==
  In(f, <<"ai">>, AiBlocks) \cup In(f, <<"session">>, SessionBlocks)
    \cup In(f, <<"mcp">>, McpBlocks) \cup In(f, <<"from">>, {"agent", "mid"})

MCEdits ==
  PackageEdits \cup TreeEdits \cup Inherited("c") \cup UNION {AgentEdits(f) : f \in {"a", "b"}}
=============================================================================
