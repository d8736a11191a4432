----------------------------- MODULE RecipeSource -----------------------------
(*************************************************************************)
(* A Recipe as its author writes it: package.json, the YAML files of the   *)
(* agents directory and the SKILL.md files, after the JSON or YAML parser  *)
(* and before anything is believed about it.  The checker and the runtime  *)
(* each read this same tree with code of their own.                        *)
(*************************************************************************)
EXTENDS McpPolicy

CONSTANTS
  AgentFiles,   \* names of the files that may be in agents/
  YamlFiles,    \* those of them with a YAML suffix
  SkillDirs,    \* names of the directories that may be in skills/
  Portable,     \* agent names in lowercase kebab-case
  Specs,        \* model names of the form <provider>/<model_id>
  Camel,        \* from an option key in snake_case to Pi's spelling
  MaxDepth      \* MAX_INHERITANCE_DEPTH, 128 in the code

ASSUME SourceAssumption ==
  /\ YamlFiles \subseteq AgentFiles
  /\ MaxDepth \in Nat \ {0}

-----------------------------------------------------------------------------
\* A mapping holds scalars at paths of keys; "empty" is a mapping without
\* keys.  A value that is no mapping at all has the shape "bad".
None == [shape |-> "none", at |-> <<>>]
NotAMapping == [shape |-> "bad", at |-> <<>>]
Mapping(at) == [shape |-> "map", at |-> at]

Has(m, path) == \E p \in DOMAIN m.at : IsPrefix(path, p)
Keys(m, path) == {p[Len(path) + 1] : p \in {q \in DOMAIN m.at : IsStrictPrefix(path, q)}}
Scalar(m, path) == IF path \in DOMAIN m.at THEN m.at[path] ELSE "mapping"
IsMapping(m, path) == path \notin DOMAIN m.at \/ m.at[path] = "empty"

\* The numbers an author may write, in halves; other scalars are texts, of
\* which two stand for the booleans and one for a list of names.
Halves == [neg |-> 0 - 2, zero |-> 0, half |-> 1, one |-> 2]
IsNumber(v) == v \in DOMAIN Halves
IsInteger(v) == IsNumber(v) /\ Halves[v] % 2 = 0
AtLeast(v, min) == IsNumber(v) /\ Halves[v] >= 2 * min
IsBoolean(v) == v \in {"true", "false"}
IsText(v) == ~IsNumber(v) /\ ~IsBoolean(v) /\ v \notin {"mapping", "empty", "names"}
IsNonEmpty(v) == IsText(v) /\ Trim(v) # Empty

ThinkingLevels == {"off", "minimal", "low", "medium", "high", "xhigh", "max"}

-----------------------------------------------------------------------------
\* The tree of a Recipe: a file that is absent has the content NoFile.
NoFile == [present |-> FALSE]
Files(recipe) ==
  {<<"agents", f>> : f \in {g \in AgentFiles : recipe.files[g].present}}
    \cup {<<"skills", d, "SKILL.md">> : d \in {e \in SkillDirs : recipe.skills[e] # "none"}}
Directories(recipe) == {SubSeq(p, 1, n) : p \in Files(recipe), n \in 1..2} \ Files(recipe)
Exists(recipe, path) == path \in Files(recipe) \cup Directories(recipe)
IsGlob(pattern) == {"*", "**"} \cap ToSet(pattern) # {}

-----------------------------------------------------------------------------
\* Names from an agent up along "from", until the root, an agent that does
\* not exist, one already passed, or the depth that both readers accept.
Following(from, name, passed) == IF passed = <<>> THEN name ELSE from[Last(passed)]
Continues(from, name, passed) ==
  LET next == Following(from, name, passed)
  IN next # "none" /\ next \in DOMAIN from /\ next \notin ToSet(passed)

Lineage(from, name) ==
  LET up[k \in 0..MaxDepth] ==
        IF k = 0 THEN <<>>
        ELSE LET passed == up[k - 1] IN
          IF Continues(from, name, passed)
          THEN Append(passed, Following(from, name, passed)) ELSE passed
  IN up[MaxDepth]

\* The nearest of a lineage that has something, or "none".
Nearest(lineage, Test(_)) ==
  LET at == {i \in DOMAIN lineage : Test(lineage[i])}
  IN IF at = {} THEN "none" ELSE lineage[CHOOSE i \in at : \A j \in at : i <= j]

\* The name of a skill is that of its frontmatter, else of its directory.
SkillName(recipe, path) ==
  IF recipe.skills[path[2]] = "unnamed" THEN path[2] ELSE recipe.skills[path[2]]
=============================================================================
