------------------------------ MODULE RecipeTools ------------------------------
(*************************************************************************)
(* The MCP tools of one Recipe session: what is materialised for the agent, *)
(* which tools Pi is given and which of them are active, what tool search   *)
(* adds, and which calls reach a server.  The session file is the authority *)
(* for the mcp command; the tools of a session are filtered once more.      *)
(*************************************************************************)
EXTENDS RecipeResolver

CONSTANTS
  Bound,        \* servers that the host has an endpoint for
  SearchLimit   \* how many tools one search enables, at most 10 in the code

VARIABLES
  agents,    \* the resolved agents of the Recipe
  session,   \* the session's MCP state, or NoSession
  active,    \* MCP tools that Pi offers to the model
  found,     \* what searches have reported as enabled
  calls      \* calls that reached a server

toolVars == <<session, active, found, calls>>

NoSession == [mode |-> "none", servers |-> <<>>, usable |-> {}, deferred |-> {}, agent |-> "none",
              granted |-> "none"]

-----------------------------------------------------------------------------
\* What the policy of package.json and an agent's block mcp come to.
MissingServers(pkg) ==
  {IdOf[pkg.servers[i].id] : i \in {j \in DOMAIN pkg.servers : pkg.servers[j].required}} \ Bound

Selected(pkg, mcp) ==
  {s \in ToSet(pkg.servers) : /\ IdOf[s.id] \in DOMAIN mcp.servers \cap Bound
                              /\ mcp.servers[IdOf[s.id]].include # ListOf(<<>>)}

Materialized(pkg, mcp) ==
  [id \in {IdOf[s.id] : s \in Selected(pkg, mcp)} |->
     LET server == CHOOSE s \in Selected(pkg, mcp) : IdOf[s.id] = id
     IN [package |-> server.tools, agents |-> {mcp.servers[id]}, required |-> server.required]]

-----------------------------------------------------------------------------
\* createMcpToolSet, for servers that answer ("down" does not) and tools of
\* which some have a schema that cannot be compiled.
Catalog(servers, own, down, id) ==
  IF id \in down THEN {}
  ELSE {tool \in FilterCatalog(servers[id], Tools) : SelectionAllows(own[id], tool)}

ToolNames(servers, own, down) ==
  UNION {{<<id, tool>> : tool \in Catalog(servers, own, down, id)} :
           id \in DOMAIN servers \cap DOMAIN own}

Named(list, tool) == {"*", tool} \cap Trimmed(list) # {}
InitiallyActive(own, usable) ==
  {t \in usable : Named(own[t[1]].defer, t[2]) => Named(own[t[1]].eager, t[2])}

ToolSetThrows(servers, own, down, usable) ==
  \/ \E id \in DOMAIN servers \cap DOMAIN own : servers[id].required /\ id \in down
  \/ \E id \in DOMAIN own :
       LET eager == Trimmed(own[id].eager)
           listed == {t \in ToolNames(servers, own, down) : t[1] = id} IN
       IF "*" \in eager THEN id \notin DOMAIN servers \ down \/ listed \ usable # {}
       ELSE \E tool \in eager : <<id, tool>> \notin usable

-----------------------------------------------------------------------------
ToolsInit == session = NoSession /\ active = {} /\ found = {} /\ calls = {}

\* A session of an agent.  Its MCP configuration is made for it, or is the one
\* that a host made before it for some agent of the Recipe.
Start(pkg, name, host, down, broken) ==
  LET own == agents[name].mcp
      granted == IF host = "none" THEN name ELSE host
      servers == Materialized(pkg, agents[granted].mcp)
      mode == IF own.mode = "none" THEN "cli" ELSE own.mode
      usable == {t \in ToolNames(servers, own.servers, down) : t[2] \notin broken}
      inTools == mode = "tools" IN
  /\ session.mode = "none"
  /\ DOMAIN own.servers # {} /\ DOMAIN agents[granted].mcp.servers # {}
  /\ MissingServers(pkg) = {}
  /\ inTools => ~ToolSetThrows(servers, own.servers, down, usable)
  /\ active' = IF inTools THEN InitiallyActive(own.servers, usable) ELSE {}
  /\ session' = [mode |-> mode, servers |-> servers, agent |-> name, granted |-> granted,
                 usable |-> IF inTools THEN usable ELSE {},
                 deferred |-> IF inTools THEN usable \ active' ELSE {}]
  /\ UNCHANGED <<found, calls>>

\* FAULT: what was active before a search is not among the active tools after it.
SearchReplaces(added) ==
  /\ added # {} /\ added \subseteq session.deferred \ active
  /\ Cardinality(added) <= SearchLimit
  /\ active' = added
  /\ found' = found \cup added
  /\ UNCHANGED <<session, calls>>

Search(added) ==
  /\ added # {} /\ added \subseteq session.deferred \ active
  /\ Cardinality(added) <= SearchLimit
  /\ active' = active \cup added
  /\ found' = found \cup added
  /\ UNCHANGED <<session, calls>>

-----------------------------------------------------------------------------
\* mcporter refuses a tool that is not in its own list, whoever asks.
Reach(id, tool) ==
  /\ tool \in ExplicitAllowedTools(session.servers[id])
  /\ calls' = calls \cup {<<id, tool>>}
  /\ UNCHANGED <<session, active, found>>

\* An active tool is called by the model.
CallTool == \E t \in active : Reach(t[1], t[2])

\* "mcp call" and "mcp run": any server and tool may be written there.
ExactTarget(id, tool) == id \in DOMAIN session.servers /\ SessionAllows(session.servers[id], tool)
CallCommand ==
  /\ session.mode = "cli"
  /\ \E id \in Range(IdOf), tool \in Tools : ExactTarget(id, tool) /\ Reach(id, tool)

StartCall(id, tool) == SessionAllows(session.servers[id], tool) /\ Reach(id, tool)
CallScript ==
  /\ session.mode = "cli"
  /\ \E id \in DOMAIN session.servers, tool \in Tools : StartCall(id, tool)
=============================================================================
