SPECIFICATION Spec
CONSTANTS
  Tools <- MCTools
  IdOf <- MCIdOf
  Padded <- MCPadded
  Wild = {"re*"}
  AgentFiles = {"a", "b", "c", "D"}
  YamlFiles = {"a", "b", "c"}
  RuntimeYamlFiles = {"a", "b", "c", "D"}
  SkillDirs = {"s", "t"}
  Portable = {"agent", "mid", "base", "more", "gone"}
  Specs = {"p/m1", "p/m2"}
  Camel <- MCCamel
  MaxDepth = 3
  Bound = {"srv"}
  SearchLimit = 1
  Bases <- MCBases
  Edits <- MCEdits
  MaxEdits = 2
  SessionEdits = 1
INVARIANTS CheckedRecipesResolve ResolvedAsInherited OnlyAuthorizedCalls ActiveAsDeclared
CHECK_DEADLOCK FALSE
