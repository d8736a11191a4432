------------------------------- MODULE RecipeUse -------------------------------
(*************************************************************************)
(* The life of a Recipe: its author edits the tree, the checker reports on  *)
(* it, the runtime resolves it, a session of one of its agents is started   *)
(* and calls MCP tools.  Checker and runtime are two programs; what one     *)
(* passes the other has to be able to run.                                  *)
(*************************************************************************)
EXTENDS RecipeTools, RecipeChecker

CONSTANTS
  Bases,          \* Recipes to start from
  Edits,          \* what an author may change: a path in the tree and a value
  MaxEdits,       \* bound on the changes of one Recipe
  SessionEdits    \* bound on the changes of a Recipe that sessions are started of

ASSUME UseAssumption == MaxEdits \in Nat /\ SessionEdits \in 0..MaxEdits

\* Whatever the content of a tree, its parts are there; what is not given has
\* no items and no keys.
IsList(list) == list.shape = "none" => list.items = <<>>
IsPatterns(list) == IsList(list) /\ \A pattern \in ToSet(list.items) : pattern \in Seq(STRING)
IsServers(servers) == servers \in Seq(ToSet(servers))
IsBlock(m) == m.shape \in {"none", "bad", "map"} /\ (m.shape = "none" => DOMAIN m.at = {})
IsMcp(mcp) ==
  \A id \in DOMAIN mcp.servers : \A key \in {"include", "exclude", "defer", "eager"} :
    IsList(mcp.servers[id][key])
BlockFields == {"model", "ai", "session"}
IsFile(file) ==
  /\ "present" \in DOMAIN file
  /\ file.present => /\ BlockFields \cup {"mcp"} \subseteq DOMAIN file
                     /\ \A key \in BlockFields : IsBlock(file[key])
                     /\ IsMcp(file.mcp)
IsTree(tree) ==
  /\ {"pkg", "files", "skills"} \subseteq DOMAIN tree
  /\ \A key \in {"agents", "skills"} : key \in DOMAIN tree.pkg /\ IsPatterns(tree.pkg[key])
  /\ "servers" \in DOMAIN tree.pkg /\ IsServers(tree.pkg.servers)
  /\ \A f \in AgentFiles : f \in DOMAIN tree.files /\ IsFile(tree.files[f])
IsEdit(edit) ==
  /\ Len(edit.at) \in {2, 3}
  /\ edit.at[1] = "skills" => Len(edit.at) = 2
  /\ edit.at[1] = "pkg" =>
       /\ Len(edit.at) = 2
       /\ edit.at[2] \in {"agents", "skills"} => IsPatterns(edit.value)
       /\ edit.at[2] = "servers" => IsServers(edit.value)
  /\ edit.at[1] = "files" =>
       IF Len(edit.at) = 2 THEN IsFile(edit.value)
       ELSE /\ edit.at[2] \in AgentFiles /\ edit.at[3] # "present"
            /\ edit.at[3] \in BlockFields => IsBlock(edit.value)
            /\ edit.at[3] = "mcp" => IsMcp(edit.value)
  /\ edit.at[1] \in {"pkg", "files", "skills"}

ASSUME TreesAssumption ==
  (\A tree \in Bases : IsTree(tree)) /\ \A edit \in Edits : IsEdit(edit)

\* What the names stand for: a name of an agent is a text, one of a model has
\* a slash in it; what is trimmed has no blanks around it; an option that is the
\* host's in Pi's spelling is so in the author's.
ASSUME NamesAssumption ==
  /\ YamlFiles \subseteq RuntimeYamlFiles /\ IsFiniteSet(SkillDirs)
  /\ {".", "..", "SKILL.md"} \cap (AgentFiles \cup SkillDirs) = {}
  /\ \A name \in Portable : IsNonEmpty(name)
  /\ "none" \notin Specs \cup Portable
  /\ {"none", "short", "long"} \cap DOMAIN Padded = {}
  /\ \A value \in DOMAIN Padded : Padded[value] \notin DOMAIN Padded
  /\ \A key \in DOMAIN Camel : Camel[key] \in BlockedOptions => key \in HostOptions

VARIABLES
  recipe,   \* the tree
  edits,    \* number of changes made to it
  report,   \* what the checker says of the tree, or Unchecked
  refused   \* resolveRecipe threw

vars == <<recipe, edits, report, refused, agents, toolVars>>

Unchecked == [valid |-> FALSE, agents |-> 0]

\* A tree with the value at the end of a path, which is made where it is not.
Edited(tree, at, value) ==
  LET old[i \in 1..Len(at)] ==
        IF i = 1 THEN tree
        ELSE LET above == old[i - 1] IN IF at[i - 1] \in DOMAIN above THEN above[at[i - 1]] ELSE <<>>
      new[i \in 1..(Len(at) + 1)] ==
        IF i > Len(at) THEN value
        ELSE [k \in DOMAIN old[i] \cup {at[i]} |-> IF k = at[i] THEN new[i + 1] ELSE old[i][k]]
  IN new[1]

\* Only a file that is there has fields.
Applies(edit) == edit.at[1] = "files" /\ Len(edit.at) > 2 => recipe.files[edit.at[2]].present

-----------------------------------------------------------------------------
Init ==
  /\ recipe \in Bases /\ edits = 0 /\ report = Unchecked /\ refused = FALSE /\ agents = <<>>
  /\ ToolsInit

Edit ==
  /\ edits < MaxEdits /\ report = Unchecked
  /\ \E edit \in Edits : Applies(edit) /\ recipe' = Edited(recipe, edit.at, edit.value)
  /\ recipe' # recipe
  /\ edits' = edits + 1
  /\ UNCHANGED <<report, refused, agents, toolVars>>

Check ==
  /\ report = Unchecked
  /\ report' = CheckRecipe(recipe)
  /\ UNCHANGED <<recipe, edits, refused, agents, toolVars>>

Resolve ==
  /\ report # Unchecked /\ agents = <<>> /\ ~refused
  /\ agents' = ResolveRecipe(recipe)
  /\ refused' = (agents' = <<>>)
  /\ UNCHANGED <<recipe, edits, report, toolVars>>

StartSession ==
  /\ edits <= SessionEdits /\ agents # <<>>
  /\ \E requested \in DOMAIN agents \cup {Empty}, host \in DOMAIN agents \cup {"none"} :
       \E down \in SUBSET Bound, broken \in {{}} \cup {{tool} : tool \in Tools} :
         /\ SelectAgent(agents, requested) # "none"
         /\ Start(recipe.pkg, SelectAgent(agents, requested), host, down, broken)
  /\ UNCHANGED <<recipe, edits, report, refused, agents>>

Use ==
  /\ CallTool \/ CallCommand \/ CallScript \/ \E added \in SUBSET session.deferred : Search(added)
  /\ UNCHANGED <<recipe, edits, report, refused, agents>>

Next == Edit \/ Check \/ Resolve \/ StartSession \/ Use
Spec == Init /\ [][Next]_vars

-----------------------------------------------------------------------------
\* What an author wrote, read off the tree: which file is an agent's, whom it
\* inherits from, and the nearest of its line that says something.
FileOf(name) ==
  recipe.files[CHOOSE f \in AgentFilesRead(recipe) : recipe.files[f].name = name]
Line(name) == Lineage([n \in DOMAIN agents |-> FileOf(n).from], name)
NearestOf(name, Test(_)) == FileOf(Nearest(Line(name), Test))
Somebody(name, Test(_)) == \E n \in ToSet(Line(name)) : Test(n)

Model(file) == IF file.ai.shape = "none" THEN file.model ELSE file.ai
Says(file, key) == IF Has(Model(file), <<key>>) THEN Trim(Scalar(Model(file), <<key>>)) ELSE Empty
IsBlank(file, key) == Trim(Scalar(Model(file), <<key>>)) = Empty
ModelName(file) == Says(file, IF file.ai.shape = "none" THEN "name" ELSE "model")
Names(n) == ModelName(FileOf(n)) \notin {Empty, "none"}
Thinks(n) == Says(FileOf(n), "thinking_level") \notin {Empty, "none"}

\* The keys under which a file gives the option that Pi spells "camel", and
\* what it gives.  In the older block cache_retention is a text: blanks around
\* it say nothing, and nothing but blanks does not give it.
Older(file) == file.ai.shape = "none"
OptionsAt(file) == IF Older(file) THEN <<>> ELSE <<"options">>
OptionKeys(file, camel) ==
  LET known == IF Older(file) THEN StreamKeys ELSE DOMAIN Camel
  IN {k \in Keys(Model(file), OptionsAt(file)) \cap known :
        Camel[k] = camel /\ (Older(file) /\ k = "cache_retention" => ~IsBlank(file, k))}
OptionGiven(file, k) ==
  IF Older(file) /\ k = "cache_retention"
  THEN [tail \in {<<>>} |-> Trim(Scalar(Model(file), <<k>>))]
  ELSE Under(Model(file), Append(OptionsAt(file), k))

SectionAt ==
  [openrouter |-> <<"providers", "openrouter", "routing">>,
   anthropic |-> <<"providers", "anthropic">>,
   vercel |-> <<"providers", "vercel_ai_gateway", "routing">>]

Sets(file, path) == path \in DOMAIN file.session.at /\ file.session.at[path] # "empty"

\* The known ways in which the two readers disagree; the README tells of each.
ReachedTwice ==
  \E f \in AgentFiles : TimesRead(recipe, f) > 1
EndsAtAFile ==
  \E key \in {"agents", "skills"} :
    \E pattern \in ToSet(recipe.pkg[key].items), file \in Files(recipe) :
      IsGlob(pattern) /\ GlobMatches(pattern, file) /\ ~EntryMatches(pattern, file)
Overlooked ==
  \/ ReachedTwice \/ EndsAtAFile
  \/ \E f \in RuntimeYamlFiles \ YamlFiles : TimesRead(recipe, f) > 0
  \/ ~Optional(recipe.pkg.runtime, <<"python", "version">>, IsNonEmpty)

-----------------------------------------------------------------------------
\* A Recipe that the checker passes, with agents in it, is one that the
\* runtime resolves: the report is not followed by a refusal at launch.
CheckedRecipesResolve ==
  refused /\ report.valid /\ report.agents > 0 => Overlooked

\* The model is the one that the nearest agent of the line names; how hard it
\* thinks is what the nearest says that names a model or says it.
ModelInherited(name) ==
  LET speaks(n) == Names(n) \/ Thinks(n)
      speaker == Nearest(Line(name), speaks) IN
  /\ agents[name].config.name = ModelName(NearestOf(name, Names))
  /\ agents[name].config.thinking =
       IF Thinks(speaker) THEN Says(FileOf(speaker), "thinking_level") ELSE "none"

\* An option is what the nearest agent gives that names a model or gives the
\* option: none outlives a change of the model.
OptionsInherited(name) ==
  \A camel \in Range(Camel) :
    LET stream == agents[name].config.stream
        speaks(n) == Names(n) \/ OptionKeys(FileOf(n), camel) # {}
        file == NearestOf(name, speaks)
        keys == OptionKeys(file, camel) IN
    IF keys = {} THEN camel \notin DOMAIN stream
    ELSE /\ camel \in DOMAIN stream
         /\ \E k \in keys : stream[camel] = OptionGiven(file, k)

\* And so is what is passed to the provider, key by key.
ProvidersInherited(name) ==
  \A section \in DOMAIN SectionAt :
    LET settings == agents[name].config[section]
        given(n) == Keys(Model(FileOf(n)), SectionAt[section]) IN
    \A key \in DOMAIN settings \cup UNION {given(n) : n \in ToSet(Line(name))} :
      LET speaks(n) == Names(n) \/ key \in given(n)
          speaker == Nearest(Line(name), speaks) IN
      /\ key \in DOMAIN settings <=> key \in given(speaker)
      /\ key \in DOMAIN settings =>
           settings[key] = Under(Model(FileOf(speaker)), Append(SectionAt[section], key))

\* A list is the one of the nearest agent that gives it, all of it.
ListsInherited(name) ==
  \A field \in {"tools", "skills", "subagents"} :
    LET gives(n) == Given(FileOf(n)[field]) IN
    agents[name][field] = IF Somebody(name, gives) THEN TrimEach(NearestOf(name, gives)[field])
                          ELSE NoList

\* A setting, by its path, is that of the nearest agent that sets it, and there
\* is none that nobody sets.
SettingsInherited(name) ==
  /\ \A n \in ToSet(Line(name)) : \A path \in DOMAIN FileOf(n).session.at :
       LET sets(m) == Sets(FileOf(m), path) IN
       sets(n) => /\ path \in DOMAIN agents[name].session
                  /\ agents[name].session[path] = NearestOf(name, sets).session.at[path]
  /\ \A path \in DOMAIN agents[name].session :
       LET sets(m) == Sets(FileOf(m), path) IN Somebody(name, sets)

\* The instructions are those from the nearest agent that replaces them down
\* to the agent itself, in this order.
InstructionsInherited(name) ==
  LET line == Line(name)
      content == agents[name].system.content
      says(i) == FileOf(line[i]).system.shape # "none"
      replaces(i) == says(i) /\ FileOf(line[i]).system.mode = "replace"
      said == {i \in DOMAIN line : says(i) /\ \A j \in 1..(i - 1) : ~replaces(j)} IN
  /\ Len(content) = Cardinality(said)
  /\ \A i \in said : content[Cardinality({j \in said : j >= i})] = Trim(FileOf(line[i]).system.content)

\* What an agent comes to is what the nearest agent of its line says, field by
\* field and option by option.
ResolvedAsInherited ==
  \A name \in DOMAIN agents :
    /\ ModelInherited(name) /\ OptionsInherited(name) /\ ProvidersInherited(name)
    /\ ListsInherited(name) /\ SettingsInherited(name) /\ InstructionsInherited(name)

\* What the block mcp that an agent goes by, its own or the nearest inherited
\* one, says of a server, as its author wrote it.
Declares(n) == FileOf(n).mcp.shape # "none"
Written(name, id) ==
  LET servers == NearestOf(name, Declares).mcp.servers
  IN {servers[k] : k \in {w \in DOMAIN servers : IdOf[w] = id}}
Allows(lists, tool) ==
  /\ \E item \in ToSet(lists.include.items) : Trim(item) \in {"*", tool}
  /\ \A item \in ToSet(lists.exclude.items) : Trim(item) # tool
AuthorAllows(name, id, tool) ==
  /\ \E s \in ToSet(recipe.pkg.servers) : IdOf[s.id] = id /\ Allows(s.tools, tool)
  /\ \E lists \in Written(name, id) : Allows(lists, tool)

\* No call reaches a server unless package.json and the agent's own block both
\* allow the tool.  The mcp command of a session whose configuration the host
\* made answers to the agent that the host made it for.
OnlyAuthorizedCalls ==
  \A t \in calls :
    AuthorAllows(IF session.mode = "tools" THEN session.agent ELSE session.granted, t[1], t[2])

\* The tools offered to the model are the authorised ones that work and are
\* either not deferred, eager, or reported as enabled by a search.
Marks(name, id, key, tool) ==
  \E lists \in Written(name, id) : \E item \in ToSet(lists[key].items) : Trim(item) \in {"*", tool}
ActiveAsDeclared ==
  session.mode = "tools" =>
    active = {t \in session.usable :
                \/ ~Marks(session.agent, t[1], "defer", t[2])
                \/ Marks(session.agent, t[1], "eager", t[2])
                \/ t \in found}
=============================================================================
