------------------------------ MODULE McpPolicy ------------------------------
(*************************************************************************)
(* Which MCP tools a Recipe lets an agent call.  The package selects tools *)
(* of a server, an agent selects tools of the same server, and a call has  *)
(* to pass both selections.  A selection names exact tools, or "*"; "defer" *)
(* and "eager" say which of the selected tools start inactive.             *)
(*************************************************************************)
EXTENDS Naturals, Sequences, FiniteSets, SequencesExt

CONSTANTS
  Tools,     \* names of tools, as servers list them
  IdOf,      \* from a server id as written to its normalised id
  Padded,    \* from a selector with blanks around it to the trimmed one
  Wild       \* selectors that hold a star and are not "*"

-----------------------------------------------------------------------------
\* A list of strings as authored: absent, not a list of strings, or a list.
NoList == [shape |-> "none", items |-> <<>>]
BadList == [shape |-> "bad", items |-> <<>>]
ListOf(items) == [shape |-> "list", items |-> items]

\* The text with nothing in it.
Empty == ""
Trim(value) == IF value \in DOMAIN Padded THEN Padded[value] ELSE value
Trimmed(list) == {Trim(value) : value \in ToSet(list.items)}
TrimEach(list) ==
  [shape |-> list.shape, items |-> [i \in DOMAIN list.items |-> Trim(list.items[i])]]
Given(list) == list.shape # "none"
Repeats(list) == Cardinality(Trimmed(list)) # Len(list.items)
Blank(list) == Empty \in Trimmed(list)
OrElse(list, other) == IF Given(list) THEN list ELSE other

Selection(include, exclude, defer, eager) ==
  [include |-> include, exclude |-> exclude, defer |-> defer, eager |-> eager]

-----------------------------------------------------------------------------
\* mcp-policy.ts: an omitted include selects nothing.
SelectionAllows(selection, tool) ==
  /\ {"*", tool} \cap Trimmed(selection.include) # {}
  /\ tool \notin Trimmed(selection.exclude)

\* A server of a materialised session carries the package's selection and
\* those of the agents it was materialised for.
SessionAllows(server, tool) ==
  /\ SelectionAllows(server.package, tool)
  /\ \E selection \in server.agents : SelectionAllows(selection, tool)

\* What a session shows of what a server lists.
FilterCatalog(server, listed) == {tool \in listed : SessionAllows(server, tool)}

\* The list mcporter enforces once more, or "all".  It is made of the
\* selectors as written, so one with blanks around it names no tool.
ExplicitAllowedTools(server) ==
  LET package == ToSet(server.package.include.items)
      agents == UNION {ToSet(selection.include.items) : selection \in server.agents}
  IN IF "*" \notin package THEN {tool \in package : SessionAllows(server, tool)}
     ELSE IF "*" \notin agents THEN {tool \in agents : SessionAllows(server, tool)}
     ELSE Tools

-----------------------------------------------------------------------------
\* The session guard of one selection.
ValidSelection(selection) ==
  /\ selection.include.shape # "bad" /\ selection.exclude.shape # "bad"
  /\ Trimmed(selection.include) \cap (Wild \cup {Empty}) = {}
  /\ Trimmed(selection.exclude) \cap (Wild \cup {Empty, "*"}) = {}

ValidActivation(list) ==
  /\ Trimmed(list) \cap (Wild \cup {Empty}) = {}
  /\ "*" \in Trimmed(list) => Len(list.items) = 1

Activated(selection) == Trimmed(selection.defer) \cup Trimmed(selection.eager)
=============================================================================
