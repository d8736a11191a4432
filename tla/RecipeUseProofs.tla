---------------------------- MODULE RecipeUseProofs ----------------------------
(***************************************************************************)
(* Proofs about RecipeUse: for every set of trees, every edit of them and  *)
(* every line of agents.  Four of its invariants are theorems: which calls *)
(* reach a server, which tools the model is offered, what an agent         *)
(* inherits, and that what the checker passes is resolved.                 *)
(***************************************************************************)
EXTENDS RecipeUse, FiniteSetTheorems, SequenceTheorems, WellFoundedInduction, TLAPS

\* What is below in the order of the numbers.
Below == {p \in Nat \X Nat : p[1] < p[2]}

\* The order of the numbers has no endless descent.
LEMMA BelowWellFounded == IsWellFoundedOn(Below, Nat)
<1>1. OpToRel(<, Nat) = Below
  BY DEF OpToRel, Below
<1>2. QED BY <1>1, NatLessThanWellFounded

\* Some numbers have a least one.
LEMMA LeastOfSome ==
  ASSUME NEW T \in SUBSET Nat, T # {}
  PROVE  \E n \in T : \A m \in T : n <= m
<1>1. PICK n \in T : \A m \in T : <<m, n>> \notin Below
  BY BelowWellFounded, WFMin
<1>2. \A m \in T : ~(m < n)
  BY <1>1 DEF Below
<1>3. QED BY <1>1, <1>2

\* Induction over a set of numbers, where the library's takes an operator.
LEMMA Induction ==
  ASSUME NEW T, 0 \in T, \A n \in Nat : n \in T => n + 1 \in T
  PROVE  \A n \in Nat : n \in T
<1> SUFFICES ASSUME Nat \ T # {} PROVE FALSE
  OBVIOUS
<1>1. PICK n \in Nat \ T : \A m \in Nat \ T : n <= m
  BY LeastOfSome
<1>2. n # 0 /\ n - 1 \in Nat /\ n - 1 \in T
  BY <1>1
<1>3. QED BY <1>1, <1>2

-----------------------------------------------------------------------------
\* The way up from an agent, step by step.
Step(from, name, passed) ==
  IF Continues(from, name, passed) THEN Append(passed, Following(from, name, passed)) ELSE passed
IsWayUp(from, name, up, n) ==
  up = [k \in 0..n |-> IF k = 0 THEN <<>> ELSE Step(from, name, up[k - 1])]
WayUp(from, name) == CHOOSE up : IsWayUp(from, name, up, MaxDepth)

\* There is a way up of every length.
LEMMA WayUpExists ==
  ASSUME NEW from, NEW name
  PROVE  \A n \in Nat : \E up : IsWayUp(from, name, up, n)
<1> DEFINE T == {n \in Nat : \E up : IsWayUp(from, name, up, n)}
<1>1. 0 \in T
  <2> DEFINE up == [k \in 0..0 |-> <<>>]
  <2>1. IsWayUp(from, name, up, 0)
    BY DEF IsWayUp
  <2> QED BY <2>1
<1>2. ASSUME NEW n \in Nat, n \in T PROVE n + 1 \in T
  <2>1. PICK up : IsWayUp(from, name, up, n)
    BY <1>2
  <2> DEFINE more == [k \in 0..(n + 1) |-> IF k = n + 1 THEN Step(from, name, up[n]) ELSE up[k]]
  <2>2. IsWayUp(from, name, more, n + 1)
    <3>1. ASSUME NEW k \in 0..(n + 1)
          PROVE  more[k] = IF k = 0 THEN <<>> ELSE Step(from, name, more[k - 1])
      BY <2>1 DEF IsWayUp
    <3>2. QED BY <3>1 DEF IsWayUp
  <2>3. QED BY <2>2
<1>3. \A n \in Nat : n \in T
  <2> HIDE DEF T
  <2> QED BY <1>1, <1>2, Induction
<1> QED BY <1>3

\* The line of an agent is the way up as far as it may go.
LEMMA LineageIsWayUp ==
  ASSUME NEW from, NEW name
  PROVE  /\ IsWayUp(from, name, WayUp(from, name), MaxDepth)
         /\ Lineage(from, name) = WayUp(from, name)[MaxDepth]
<1>1. IsWayUp(from, name, WayUp(from, name), MaxDepth)
  BY WayUpExists, SourceAssumption DEF WayUp
<1>2. Lineage(from, name) = WayUp(from, name)[MaxDepth]
  BY DEF Lineage, WayUp, IsWayUp, Step
<1> QED BY <1>1, <1>2

\* The line of an agent is one of agents that exist.
LEMMA LineageOfSome ==
  ASSUME NEW from, NEW name
  PROVE  Lineage(from, name) \in Seq(DOMAIN from)
<1> DEFINE up == WayUp(from, name)
           T == {n \in Nat : n <= MaxDepth => up[n] \in Seq(DOMAIN from)}
<1>1. IsWayUp(from, name, up, MaxDepth) /\ Lineage(from, name) = up[MaxDepth]
  BY LineageIsWayUp
<1>2. up[0] = <<>> /\ \A k \in 1..MaxDepth : up[k] = Step(from, name, up[k - 1])
  BY <1>1, SourceAssumption DEF IsWayUp
<1> HIDE DEF up
<1>3. 0 \in T
  <2>1. <<>> \in Seq(DOMAIN from)
    OBVIOUS
  <2> QED BY <1>2, <2>1
<1>4. ASSUME NEW n \in Nat, n \in T PROVE n + 1 \in T
  <2> SUFFICES ASSUME n + 1 <= MaxDepth PROVE up[n + 1] \in Seq(DOMAIN from)
    OBVIOUS
  <2>1. up[n] \in Seq(DOMAIN from)
    BY <1>4, SourceAssumption
  <2>2. up[n + 1] = Step(from, name, up[n])
    BY <1>2, SourceAssumption
  <2>3. CASE Continues(from, name, up[n])
    <3>1. Following(from, name, up[n]) \in DOMAIN from
      BY <2>3 DEF Continues
    <3> QED BY <2>1, <2>2, <2>3, <3>1 DEF Step
  <2>4. CASE ~Continues(from, name, up[n])
    BY <2>1, <2>2, <2>4 DEF Step
  <2> QED BY <2>3, <2>4
<1>5. \A n \in Nat : n \in T
  <2> HIDE DEF T
  <2> QED BY <1>3, <1>4, Induction
<1> QED BY <1>1, <1>5, SourceAssumption

-----------------------------------------------------------------------------
\* What the agents of a line come to, from its root down.
IsOver(sources, line, over, first) ==
  over = [i \in first..(Len(line) + 1) |->
            IF i > Len(line) THEN Bare ELSE Overlay(over[i + 1], sources[line[i]])]
Over(sources, line) == CHOOSE over : IsOver(sources, line, over, 1)

\* What the agents of a line come to is defined at every place of it.
LEMMA OverExists ==
  ASSUME NEW sources, NEW line, Len(line) \in Nat
  PROVE  IsOver(sources, line, Over(sources, line), 1)
<1> DEFINE T == {n \in Nat : n <= Len(line) =>
                   \E over : IsOver(sources, line, over, Len(line) + 1 - n)}
<1>1. 0 \in T
  <2> DEFINE over == [i \in (Len(line) + 1)..(Len(line) + 1) |-> Bare]
  <2>1. IsOver(sources, line, over, Len(line) + 1)
    BY DEF IsOver
  <2> QED BY <2>1
<1>2. ASSUME NEW n \in Nat, n \in T PROVE n + 1 \in T
  <2> SUFFICES ASSUME n + 1 <= Len(line)
               PROVE  \E over : IsOver(sources, line, over, Len(line) - n)
    OBVIOUS
  <2>1. PICK over : IsOver(sources, line, over, Len(line) + 1 - n)
    BY <1>2
  <2> DEFINE at == Len(line) - n
             more == [i \in at..(Len(line) + 1) |->
                        IF i = at THEN Overlay(over[at + 1], sources[line[at]]) ELSE over[i]]
  <2>2. IsOver(sources, line, more, at)
    <3>1. ASSUME NEW i \in at..(Len(line) + 1)
          PROVE  more[i] = IF i > Len(line) THEN Bare ELSE Overlay(more[i + 1], sources[line[i]])
      <4>1. at \in 1..Len(line) /\ at + 1 = Len(line) + 1 - n
        OBVIOUS
      <4>2. \A j \in (at + 1)..(Len(line) + 1) :
              over[j] = IF j > Len(line) THEN Bare ELSE Overlay(over[j + 1], sources[line[j]])
        BY <2>1, <4>1 DEF IsOver
      <4>3. CASE i = at
        BY <4>1, <4>3
      <4>4. CASE i # at
        <5>1. i \in (at + 1)..(Len(line) + 1) /\ more[i] = over[i]
          BY <4>1, <4>4
        <5>2. i <= Len(line) => more[i + 1] = over[i + 1]
          BY <4>1, <5>1
        <5> QED BY <4>2, <5>1, <5>2
      <4> QED BY <4>3, <4>4
    <3>2. QED BY <3>1 DEF IsOver
  <2> QED BY <2>2
<1>3. \A n \in Nat : n \in T
  <2> HIDE DEF T
  <2> QED BY <1>1, <1>2, Induction
<1>4. \E over : IsOver(sources, line, over, 1)
  BY <1>3
<1> QED BY <1>4 DEF Over

\* resolveRecipe's definition of an agent, place by place of its line.
LEMMA DefinitionIsOver ==
  ASSUME NEW sources, NEW name
  PROVE  LET line == LineageOf(sources, name)
             over == Over(sources, line) IN
         /\ line \in Seq(DOMAIN sources)
         /\ Definition(sources, name) = over[1]
         /\ over[Len(line) + 1] = Bare
         /\ \A i \in 1..Len(line) : over[i] = Overlay(over[i + 1], sources[line[i]])
<1> DEFINE line == LineageOf(sources, name)
           over == Over(sources, line)
<1>1. line \in Seq(DOMAIN sources) /\ Len(line) \in Nat
  BY LineageOfSome DEF LineageOf, Froms
<1>2. IsOver(sources, line, over, 1)
  BY <1>1, OverExists
<1>3. Definition(sources, name) = over[1]
  BY DEF Definition, Over, IsOver
<1>4. over[Len(line) + 1] = Bare
  BY <1>1, <1>2 DEF IsOver
<1>5. ASSUME NEW i \in 1..Len(line) PROVE over[i] = Overlay(over[i + 1], sources[line[i]])
  BY <1>1, <1>2 DEF IsOver
<1> QED BY <1>1, <1>3, <1>4, <1>5

-----------------------------------------------------------------------------
\* A Recipe that is resolved: its agents are the files read, none of which has
\* a finding, and the author's line of an agent is the resolver's.
Sourced == RecipeAgentSources(recipe)

\* Each of them is valid, has a root and a model, and is defined along its line.
LEMMA ResolvedAgents ==
  ASSUME agents = ResolveRecipe(recipe), agents # <<>>
  PROVE  /\ DOMAIN agents = DOMAIN Sourced
         /\ \A name \in DOMAIN agents :
              /\ agents[name] = Definition(Sourced, name)
              /\ Sourced[name] = ParseFile(FileOf(name))
              /\ ValidFile(FileOf(name))
              /\ Rooted(Sourced, name)
              /\ ResolvedModelProvided(Sourced, name)
              /\ ~McpChainInvalid(Sourced, name)
              /\ Line(name) = LineageOf(Sourced, name)
<1>1. agents = Definitions(Sourced) /\ ~AgentFindings(recipe)
  BY DEF ResolveRecipe, Sourced
<1>2. \A f \in AgentFilesRead(recipe) : ValidFile(recipe.files[f])
  BY <1>1 DEF AgentFindings
<1>3. \A name \in DOMAIN Sourced :
        /\ Rooted(Sourced, name) /\ ResolvedModelProvided(Sourced, name)
        /\ ~InvalidMcpPolicy(recipe.pkg, Sourced, name)
  BY <1>1 DEF AgentFindings, Sourced
<1>4. DOMAIN agents = DOMAIN Sourced /\ \A name \in DOMAIN agents : agents[name] = Definition(Sourced, name)
  BY <1>1, <1>3 DEF Definitions
<1>5. \A name \in DOMAIN Sourced : Sourced[name] = ParseFile(FileOf(name))
  <2>1. {f \in AgentFilesRead(recipe) : ValidFile(recipe.files[f])} = AgentFilesRead(recipe)
    BY <1>2
  <2> QED BY <2>1 DEF Sourced, RecipeAgentSources, FileOf
<1>6. \A name \in DOMAIN Sourced : ~McpChainInvalid(Sourced, name)
  BY <1>3 DEF InvalidMcpPolicy
<1>7. \A name : Line(name) = LineageOf(Sourced, name)
  <2>1. \A name \in DOMAIN Sourced : Sourced[name].from = FileOf(name).from
    BY <1>5 DEF ParseFile
  <2>2. [n \in DOMAIN agents |-> FileOf(n).from] = Froms(Sourced)
    BY <1>4, <2>1 DEF Froms
  <2> QED BY <2>2 DEF Line, LineageOf
<1>8. \A name \in DOMAIN Sourced : ValidFile(FileOf(name))
  <2> TAKE name \in DOMAIN Sourced
  <2>1. \E f \in AgentFilesRead(recipe) : recipe.files[f].name = name
    BY <1>2 DEF Sourced, RecipeAgentSources
  <2>2. PICK f \in AgentFilesRead(recipe) : FileOf(name) = recipe.files[f]
    BY <2>1 DEF FileOf
  <2> QED BY <1>2, <2>2
<1> QED BY <1>3, <1>4, <1>5, <1>6, <1>7, <1>8

\* What passes from place to place down a line, unless a place has its own, is
\* in the end what the nearest place has that has any.
PassedOn(v, own, says, last, i) ==
  /\ \A k \in says : k >= i /\ (\A j \in says : j >= i => k <= j) => v[i] = own[k]
  /\ (\A k \in says : k < i) => v[i] = v[last + 1]

\* So the first place of the line has what the nearest place has passed on.
LEMMA PassedDown ==
  ASSUME NEW last \in Nat, NEW v, NEW own, NEW says \in SUBSET (1..last),
         \A i \in 1..last : v[i] = IF i \in says THEN own[i] ELSE v[i + 1]
  PROVE  PassedOn(v, own, says, last, 1)
<1> DEFINE Good(i) == PassedOn(v, own, says, last, i)
           T == {n \in Nat : n <= last => Good(last + 1 - n)}
<1>0. (\A k \in says : k \in Int) /\ \A i \in 1..last : i \in Int
  OBVIOUS
<1>1. 0 \in T
  BY DEF PassedOn
<1>2. ASSUME NEW i \in 1..last, Good(i + 1) PROVE Good(i)
  <2>1. CASE i \in says
    <3>1. \A k \in says : k >= i /\ (\A j \in says : j >= i => k <= j) => k = i
      BY <2>1
    <3> QED BY <2>1, <3>1 DEF PassedOn
  <2>2. CASE i \notin says
    <3>1. v[i] = v[i + 1]
      BY <2>2
    <3>2. \A k \in says : k >= i <=> k >= i + 1
      BY <2>2
    <3>3. PassedOn(v, own, says, last, i + 1)
      BY <1>2
    <3> HIDE DEF T, Good
    <3>4. ASSUME NEW k \in says, k >= i, \A j \in says : j >= i => k <= j
          PROVE  v[i] = own[k]
      <4>1. k >= i + 1 /\ \A j \in says : j >= i + 1 => k <= j
        BY <3>2, <3>4
      <4>2. v[i + 1] = own[k]
        BY <3>3, <4>1 DEF PassedOn
      <4> QED BY <3>1, <4>2
    <3>5. ASSUME \A k \in says : k < i PROVE v[i] = v[last + 1]
      <4>1. ASSUME NEW k \in says PROVE k < i + 1
        <5>1. k < i
          BY <3>5
        <5> QED BY <1>0, <5>1
      <4>2. v[i + 1] = v[last + 1]
        BY <3>3, <4>1 DEF PassedOn
      <4> QED BY <3>1, <4>2
    <3>6. PassedOn(v, own, says, last, i)
      BY <3>4, <3>5 DEF PassedOn
    <3> QED BY <3>6 DEF Good
  <2> QED BY <2>1, <2>2
<1> HIDE DEF Good
<1>3. ASSUME NEW n \in Nat, n \in T PROVE n + 1 \in T
  <2> SUFFICES ASSUME n + 1 <= last PROVE Good(last - n)
    OBVIOUS
  <2>1. last - n \in 1..last /\ Good((last - n) + 1)
    BY <1>3
  <2> QED BY <1>2, <2>1
<1>4. \A n \in Nat : n \in T
  <2> HIDE DEF T
  <2> QED BY <1>1, <1>3, Induction
<1>5. last \in T
  BY <1>4
<1>6. Good(1)
  BY <1>5
<1> QED BY <1>6 DEF Good

\* The place that Nearest chooses among those where there is something.
First(at) == CHOOSE i \in at : \A j \in at : i <= j

Passes(v, own, says, last) ==
  /\ last \in Nat /\ says \in SUBSET (1..last)
  /\ \A i \in 1..last : v[i] = IF i \in says THEN own[i] ELSE v[i + 1]

\* The first place of a line has what the nearest one has that has any.
LEMMA NearestWins ==
  ASSUME NEW v, NEW own, NEW says, NEW last, Passes(v, own, says, last)
  PROVE  /\ says = {} => v[1] = v[last + 1]
         /\ says # {} => First(says) \in says /\ v[1] = own[First(says)]
<1>1. PassedOn(v, own, says, last, 1)
  BY PassedDown DEF Passes
<1>2. says = {} => v[1] = v[last + 1]
  BY <1>1 DEF PassedOn
<1>3. ASSUME says # {} PROVE First(says) \in says /\ v[1] = own[First(says)]
  <2>1. says \in SUBSET Nat
    BY DEF Passes
  <2>2. \E i \in says : \A j \in says : i <= j
    BY <1>3, <2>1, LeastOfSome
  <2>3. First(says) \in says /\ \A j \in says : First(says) <= j
    BY <2>2 DEF First
  <2>4. First(says) >= 1
    <3>1. last \in Nat /\ \A i \in says : i \in 1..last
      BY DEF Passes
    <3>2. First(says) \in 1..last
      BY <2>3, <3>1
    <3> QED BY <3>1, <3>2
  <2> QED BY <1>1, <2>3, <2>4 DEF PassedOn
<1> QED BY <1>2, <1>3

\* The block mcp of a definition is the one of the nearest agent that has
\* any.
LEMMA DefinitionMcp ==
  ASSUME NEW sources, NEW name
  PROVE  LET line == LineageOf(sources, name)
             at == {i \in DOMAIN line : sources[line[i]].mcp.declared} IN
         /\ at = {} => Definition(sources, name).mcp = NoMcp
         /\ at # {} => /\ First(at) \in at /\ line[First(at)] \in DOMAIN sources
                       /\ Definition(sources, name).mcp = sources[line[First(at)]].mcp
<1> DEFINE line == LineageOf(sources, name)
           over == Over(sources, line)
           at == {i \in DOMAIN line : sources[line[i]].mcp.declared}
           last == Len(line)
           v == [i \in 1..(last + 1) |-> over[i].mcp]
           own == [i \in 1..last |-> sources[line[i]].mcp]
<1>1. /\ line \in Seq(DOMAIN sources)
      /\ Definition(sources, name) = over[1]
      /\ over[last + 1] = Bare
      /\ \A i \in 1..last : over[i] = Overlay(over[i + 1], sources[line[i]])
  BY DefinitionIsOver
<1> HIDE DEF line, over
<1>2. DOMAIN line = 1..last /\ last \in Nat /\ \A i \in DOMAIN line : line[i] \in DOMAIN sources
  BY <1>1
<1> HIDE DEF last
<1>3. \A i \in 1..last : v[i] = IF i \in at THEN own[i] ELSE v[i + 1]
  <2> TAKE i \in 1..last
  <2>1. over[i] = Overlay(over[i + 1], sources[line[i]])
    BY <1>1
  <2>2. over[i].mcp = MergeMcp(over[i + 1].mcp, sources[line[i]].mcp)
    BY <2>1 DEF Overlay
  <2> QED BY <1>2, <2>2 DEF MergeMcp
<1>4. at \in SUBSET (1..last)
  BY <1>2
<1>5. v[1] = Definition(sources, name).mcp /\ v[last + 1] = NoMcp
  BY <1>1, <1>2 DEF Bare
<1>6. \A i \in at : line[i] \in DOMAIN sources /\ own[i] = sources[line[i]].mcp
  BY <1>2
<1>9. Passes(v, own, at, last)
  BY <1>2, <1>3, <1>4 DEF Passes
<1> HIDE DEF v, own, at
<1>7. /\ at = {} => v[1] = v[last + 1]
      /\ at # {} => First(at) \in at /\ v[1] = own[First(at)]
  BY <1>9, NearestWins
<1>8. /\ at = {} => Definition(sources, name).mcp = NoMcp
      /\ at # {} => /\ First(at) \in at /\ line[First(at)] \in DOMAIN sources
                    /\ Definition(sources, name).mcp = sources[line[First(at)]].mcp
  BY <1>5, <1>6, <1>7
<1> QED BY <1>8 DEF at, line

-----------------------------------------------------------------------------
\* The agents are those of the Recipe as it is, a refusal is one of it, and
\* the report is one of it: none of the three survives a change.
UpToDate ==
  /\ agents # <<>> => agents = ResolveRecipe(recipe) /\ report # Unchecked
  /\ refused => ResolveRecipe(recipe) = <<>> /\ report # Unchecked
  /\ report # Unchecked => report = CheckRecipe(recipe)

Own == agents[session.agent].mcp.servers
Mine == agents[session.granted].mcp.servers

NothingYet == session.mode = "none" => session = NoSession /\ active = {} /\ found = {} /\ calls = {}

\* A session has what was materialised for an agent of the Recipe.
SessionMade ==
  session.mode # "none" =>
    /\ agents # <<>> /\ {session.agent, session.granted} \subseteq DOMAIN agents
    /\ session.servers = Materialized(recipe.pkg, agents[session.granted].mcp)

\* In the mode tools, what may ever be active passed both the session's
\* selections and the agent's own.
ToolsMade ==
  session.mode # "none" =>
    IF session.mode = "tools"
    THEN /\ session.usable \subseteq ToolNames(session.servers, Own, {})
         /\ session.deferred = session.usable \ InitiallyActive(Own, session.usable)
         /\ active = InitiallyActive(Own, session.usable) \cup found
         /\ found \subseteq session.usable
    ELSE active = {} /\ session.deferred = {}

CallsMade ==
  session.mode # "none" =>
    \A t \in calls :
      IF session.mode = "tools" THEN t \in session.usable
      ELSE t[1] \in DOMAIN session.servers /\ SessionAllows(session.servers[t[1]], t[2])

IInv == UpToDate /\ NothingYet /\ SessionMade /\ ToolsMade /\ CallsMade

\* The invariant holds of a Recipe that nobody has touched.
LEMMA InitInv == Init => IInv
  BY DEF Init, ToolsInit, IInv, UpToDate, NothingYet, SessionMade, ToolsMade, CallsMade, NoSession

\* A change of a file leaves nothing that speaks of the tree as it was.
LEMMA EditInv ==
  ASSUME IInv, Edit
  PROVE  IInv'
<1>1. report = Unchecked /\ UNCHANGED <<report, refused, agents, session, active, found, calls>>
  BY DEF Edit, toolVars
<1>2. agents = <<>> /\ ~refused /\ session.mode = "none"
  BY <1>1 DEF IInv, UpToDate, SessionMade
<1>3. UpToDate'
  BY <1>1, <1>2 DEF UpToDate
<1>4. NothingYet' /\ SessionMade' /\ ToolsMade' /\ CallsMade'
  BY <1>1, <1>2 DEF IInv, NothingYet, SessionMade, ToolsMade, CallsMade
<1> QED BY <1>3, <1>4 DEF IInv

\* The checker's report is of the tree it read.
LEMMA CheckInv ==
  ASSUME IInv, Check
  PROVE  IInv'
<1>1. report = Unchecked /\ UNCHANGED <<recipe, edits, refused, agents, session, active, found, calls>>
  BY DEF Check, toolVars
<1>2. agents = <<>> /\ ~refused /\ session.mode = "none"
  BY <1>1 DEF IInv, UpToDate, SessionMade
<1>3. UpToDate'
  BY <1>1, <1>2 DEF UpToDate, Check
<1>4. NothingYet' /\ SessionMade' /\ ToolsMade' /\ CallsMade'
  BY <1>1, <1>2 DEF IInv, NothingYet, SessionMade, ToolsMade, CallsMade
<1> QED BY <1>3, <1>4 DEF IInv

\* So are the agents, or the refusal, that resolveRecipe makes.
LEMMA ResolveInv ==
  ASSUME IInv, Resolve
  PROVE  IInv'
<1>1. /\ report # Unchecked /\ agents = <<>>
      /\ agents' = ResolveRecipe(recipe) /\ refused' = (agents' = <<>>)
      /\ UNCHANGED <<recipe, edits, report, session, active, found, calls>>
  BY DEF Resolve, toolVars
<1>2. session.mode = "none"
  BY <1>1 DEF IInv, SessionMade
<1>3. UpToDate'
  BY <1>1 DEF UpToDate, IInv
<1>4. NothingYet' /\ SessionMade' /\ ToolsMade' /\ CallsMade'
  BY <1>1, <1>2 DEF IInv, NothingYet, SessionMade, ToolsMade, CallsMade
<1> QED BY <1>3, <1>4 DEF IInv

\* The agent selected is one of those resolved.
LEMMA SelectedAgent ==
  ASSUME NEW some, NEW requested \in DOMAIN some \cup {Empty}, SelectAgent(some, requested) # "none"
  PROVE  SelectAgent(some, requested) \in DOMAIN some
<1>1. ASSUME DOMAIN some = {} PROVE Cardinality(DOMAIN some) # 1
  <2>1. Cardinality(DOMAIN some) = 0
    BY <1>1, FS_EmptySet
  <2> QED BY <2>1
<1>2. CASE requested # Empty
  BY <1>2 DEF SelectAgent
<1>3. CASE requested = Empty /\ "agent" \in DOMAIN some
  BY <1>3 DEF SelectAgent
<1>4. CASE requested = Empty /\ "agent" \notin DOMAIN some
  <2>1. Cardinality(DOMAIN some) = 1
    BY <1>4 DEF SelectAgent
  <2>2. SelectAgent(some, requested) = CHOOSE n \in DOMAIN some : TRUE
    BY <1>4, <2>1 DEF SelectAgent
  <2> QED BY <1>1, <2>1, <2>2
<1> QED BY <1>2, <1>3, <1>4

\* A server that does not answer adds no tool.
LEMMA MoreWhenAllAnswer ==
  ASSUME NEW servers, NEW own, NEW down
  PROVE  ToolNames(servers, own, down) \subseteq ToolNames(servers, own, {})
<1>1. \A id : Catalog(servers, own, down, id) \subseteq Catalog(servers, own, {}, id)
  BY DEF Catalog
<1>2. ASSUME NEW t \in ToolNames(servers, own, down) PROVE t \in ToolNames(servers, own, {})
  <2>1. PICK id \in DOMAIN servers \cap DOMAIN own :
          t \in {<<id, tool>> : tool \in Catalog(servers, own, down, id)}
    BY DEF ToolNames
  <2>2. PICK tool \in Catalog(servers, own, down, id) : t = <<id, tool>>
    BY <2>1
  <2>3. tool \in Catalog(servers, own, {}, id)
    BY <1>1
  <2> QED BY <2>1, <2>2, <2>3 DEF ToolNames
<1> QED BY <1>2

\* A session starts with what its agent's blocks make of the tools there are.
LEMMA StartSessionInv ==
  ASSUME IInv, StartSession
  PROVE  IInv'
<1>1. PICK requested \in DOMAIN agents \cup {Empty}, host \in DOMAIN agents \cup {"none"},
           down \in SUBSET Bound, broken \in {{}} \cup {{tool} : tool \in Tools} :
             /\ SelectAgent(agents, requested) # "none"
             /\ Start(recipe.pkg, SelectAgent(agents, requested), host, down, broken)
  BY DEF StartSession
<1> DEFINE name == SelectAgent(agents, requested)
           granted == IF host = "none" THEN name ELSE host
           own == agents[name].mcp
           servers == Materialized(recipe.pkg, agents[granted].mcp)
           usable == {t \in ToolNames(servers, own.servers, down) : t[2] \notin broken}
<1>2. agents # <<>> /\ UNCHANGED <<recipe, edits, report, refused, agents>>
  BY DEF StartSession
<1>3. name \in DOMAIN agents
  BY <1>1, SelectedAgent
<1>4. granted \in DOMAIN agents
  BY <1>3
<1>5. /\ session.mode = "none"
      /\ UNCHANGED <<found, calls>>
      /\ session'.mode = IF own.mode = "none" THEN "cli" ELSE own.mode
      /\ session'.servers = servers /\ session'.agent = name /\ session'.granted = granted
      /\ session'.usable = IF session'.mode = "tools" THEN usable ELSE {}
      /\ session'.deferred = IF session'.mode = "tools" THEN usable \ active' ELSE {}
      /\ active' = IF session'.mode = "tools" THEN InitiallyActive(own.servers, usable) ELSE {}
  BY <1>1 DEF Start
<1>6. found = {} /\ calls = {}
  BY <1>5 DEF IInv, NothingYet
<1>7. usable \subseteq ToolNames(servers, own.servers, {})
  BY MoreWhenAllAnswer
<1> HIDE DEF name, granted, servers, usable
<1>8. UpToDate'
  BY <1>2 DEF IInv, UpToDate
<1>9. NothingYet'
  BY <1>5 DEF NothingYet
<1>10. SessionMade'
  BY <1>2, <1>3, <1>4, <1>5 DEF SessionMade, servers
<1>11. ToolsMade'
  BY <1>2, <1>5, <1>6, <1>7 DEF ToolsMade, Own
<1>12. CallsMade'
  BY <1>5, <1>6 DEF CallsMade
<1> QED BY <1>8, <1>9, <1>10, <1>11, <1>12 DEF IInv

\* A search, an activation or a call keeps to what the session was made with.
LEMMA UseInv ==
  ASSUME IInv, Use
  PROVE  IInv'
<1>1. UNCHANGED <<recipe, edits, report, refused, agents>>
  BY DEF Use
<1>2. ASSUME NEW added, added \subseteq session.deferred, Search(added)
      PROVE  IInv'
  <2>1. UNCHANGED <<session, calls>> /\ active' = active \cup added /\ found' = found \cup added
        /\ added # {}
    BY <1>2 DEF Search
  <2>2. UpToDate' /\ SessionMade' /\ CallsMade'
    BY <1>1, <2>1 DEF IInv, UpToDate, SessionMade, CallsMade
  <2>3. session.mode # "none"
    BY <1>2, <2>1 DEF IInv, NothingYet, NoSession
  <2>4. NothingYet'
    BY <2>1, <2>3 DEF NothingYet
  <2>5. ToolsMade'
    <3>1. CASE session.mode = "tools"
      BY <1>1, <1>2, <2>1, <2>3, <3>1 DEF IInv, ToolsMade, Own
    <3>2. CASE session.mode # "tools"
      BY <1>1, <1>2, <2>1, <2>3, <3>2 DEF IInv, ToolsMade, Search
    <3> QED BY <3>1, <3>2
  <2> QED BY <2>2, <2>4, <2>5 DEF IInv
<1>3. ASSUME NEW id, NEW tool, Reach(id, tool), session.mode # "none",
             IF session.mode = "tools" THEN <<id, tool>> \in session.usable
             ELSE id \in DOMAIN session.servers /\ SessionAllows(session.servers[id], tool)
      PROVE  IInv'
  <2>1. UNCHANGED <<session, active, found>> /\ calls' = calls \cup {<<id, tool>>}
    BY <1>3 DEF Reach
  <2>2. UpToDate' /\ SessionMade'
    BY <1>1, <2>1 DEF IInv, UpToDate, SessionMade
  <2>3. NothingYet' /\ ToolsMade'
    BY <1>1, <1>3, <2>1 DEF IInv, NothingYet, ToolsMade, Own
  <2>4. CallsMade'
    BY <1>3, <2>1 DEF IInv, CallsMade
  <2> QED BY <2>2, <2>3, <2>4 DEF IInv
<1>4. CASE CallTool
  <2>1. PICK t \in active : Reach(t[1], t[2])
    BY <1>4 DEF CallTool
  <2>2. session.mode = "tools"
    BY <2>1 DEF IInv, NothingYet, ToolsMade
  <2>3. t \in session.usable
    BY <2>1, <2>2 DEF IInv, ToolsMade, InitiallyActive
  <2>4. t = <<t[1], t[2]>>
    BY <2>2, <2>3 DEF IInv, ToolsMade, ToolNames
  <2> QED BY <1>3, <2>1, <2>2, <2>3, <2>4
<1>5. CASE CallCommand
  <2>1. PICK id \in Range(IdOf), tool \in Tools : ExactTarget(id, tool) /\ Reach(id, tool)
    BY <1>5 DEF CallCommand
  <2>2. session.mode = "cli"
    BY <1>5 DEF CallCommand
  <2> QED BY <1>3, <2>1, <2>2 DEF ExactTarget
<1>6. CASE CallScript
  <2>1. PICK id \in DOMAIN session.servers, tool \in Tools : StartCall(id, tool)
    BY <1>6 DEF CallScript
  <2>2. session.mode = "cli"
    BY <1>6 DEF CallScript
  <2> QED BY <1>3, <2>1, <2>2 DEF StartCall
<1> QED BY <1>2, <1>4, <1>5, <1>6 DEF Use

\* What changes nothing keeps the invariant.
LEMMA StutterInv ==
  ASSUME IInv, UNCHANGED vars
  PROVE  IInv'
<1>1. UNCHANGED <<recipe, report, refused, agents, session, active, found, calls>>
  BY DEF vars, toolVars
<1> QED BY <1>1 DEF IInv, UpToDate, NothingYet, SessionMade, ToolsMade, CallsMade, Own

\* What the session, its tools and its calls come from, in every behaviour.
THEOREM RecipeInvariant == Spec => []IInv
<1>1. Init => IInv
  BY InitInv
<1>2. IInv /\ [Next]_vars => IInv'
  BY EditInv, CheckInv, ResolveInv, StartSessionInv, UseInv, StutterInv DEF Next
<1> QED BY <1>1, <1>2, PTL DEF Spec

-----------------------------------------------------------------------------
\* A block that is there is declared, in whatever state it is.
LEMMA ParsedDeclared ==
  ASSUME NEW mcp
  PROVE  ParseMcp(mcp).declared = (mcp.shape # "none")
<1>1. CASE mcp.shape = "none"
  BY <1>1 DEF ParseMcp, NoMcp
<1>2. CASE mcp.shape # "none"
  BY <1>2 DEF ParseMcp
<1> QED BY <1>1, <1>2

\* The block mcp of a resolved agent is what the parser makes of the one that
\* the nearest file of its line holds.
LEMMA McpAsWritten ==
  ASSUME agents = ResolveRecipe(recipe), agents # <<>>, NEW name \in DOMAIN agents,
         DOMAIN agents[name].mcp.servers # {}
  PROVE  /\ NearestOf(name, Declares).mcp.shape # "none"
         /\ agents[name].mcp = ParseMcp(NearestOf(name, Declares).mcp)
         /\ ~agents[name].mcp.invalid
<1> DEFINE line == LineageOf(Sourced, name)
           at == {i \in DOMAIN line : Sourced[line[i]].mcp.declared}
           first == First(at)
<1>1. /\ DOMAIN agents = DOMAIN Sourced
      /\ \A n \in DOMAIN agents : Sourced[n] = ParseFile(FileOf(n))
      /\ agents[name] = Definition(Sourced, name)
      /\ ~McpChainInvalid(Sourced, name)
      /\ Line(name) = line
  BY ResolvedAgents
<1>2. /\ at = {} => Definition(Sourced, name).mcp = NoMcp
      /\ at # {} => /\ first \in at /\ line[first] \in DOMAIN Sourced
                    /\ Definition(Sourced, name).mcp = Sourced[line[first]].mcp
  BY DefinitionMcp
<1>3. at # {}
  <2> SUFFICES ASSUME at = {} PROVE FALSE
    OBVIOUS
  <2>1. agents[name].mcp = NoMcp
    BY <1>1, <1>2
  <2>2. agents[name].mcp.servers = <<>>
    BY <2>1 DEF NoMcp
  <2>3. DOMAIN agents[name].mcp.servers = {}
    BY <2>2
  <2> QED BY <2>3
<1>4. line \in Seq(DOMAIN Sourced)
  BY DefinitionIsOver
<1>5. \A n \in DOMAIN Sourced : /\ Sourced[n].mcp = ParseMcp(FileOf(n).mcp)
                                /\ Sourced[n].mcp.declared = Declares(n)
  BY <1>1, ParsedDeclared DEF ParseFile, Declares
<1>6. at = {i \in DOMAIN line : Declares(line[i])}
  BY <1>4, <1>5
<1>7. Nearest(line, Declares) = line[first]
  BY <1>3, <1>6 DEF Nearest, First
<1>8. NearestOf(name, Declares) = FileOf(line[first])
  BY <1>1, <1>7 DEF NearestOf
<1>9. Declares(line[first]) /\ agents[name].mcp = ParseMcp(FileOf(line[first]).mcp)
  BY <1>1, <1>2, <1>3, <1>5
<1>10. ~agents[name].mcp.invalid
  <2>1. line[first] \in ToSet(line)
    BY <1>2, <1>3 DEF ToSet
  <2> QED BY <1>1, <1>2, <1>3, <2>1 DEF McpChainInvalid
<1> QED BY <1>8, <1>9, <1>10 DEF Declares

\* Of a server there is one spelling in the block, so one selection.
LEMMA OneWritten ==
  ASSUME agents = ResolveRecipe(recipe), agents # <<>>, NEW name \in DOMAIN agents,
         NEW id \in DOMAIN agents[name].mcp.servers
  PROVE  \E lists : /\ Written(name, id) = {lists}
                    /\ agents[name].mcp.servers[id] =
                         Selection(lists.include, lists.exclude, lists.defer, lists.eager)
<1> DEFINE mcp == NearestOf(name, Declares).mcp
           k == CHOOSE w \in DOMAIN mcp.servers : IdOf[w] = id
<1>1. mcp.shape # "none" /\ agents[name].mcp = ParseMcp(mcp) /\ ~agents[name].mcp.invalid
  BY McpAsWritten
<1> HIDE DEF mcp
<1>2. /\ DOMAIN ParseMcp(mcp).servers = {IdOf[w] : w \in DOMAIN mcp.servers}
      /\ \A i \in {IdOf[w] : w \in DOMAIN mcp.servers} :
           LET under == mcp.servers[CHOOSE w \in DOMAIN mcp.servers : IdOf[w] = i] IN
           ParseMcp(mcp).servers[i] =
             Selection(under.include, under.exclude, under.defer, under.eager)
  BY <1>1 DEF ParseMcp
<1>3. ~\E a, b \in DOMAIN mcp.servers : a # b /\ IdOf[a] = IdOf[b]
  BY <1>1 DEF ParseMcp
<1>4. k \in DOMAIN mcp.servers /\ IdOf[k] = id
  BY <1>1, <1>2
<1>5. {w \in DOMAIN mcp.servers : IdOf[w] = id} = {k}
  BY <1>3, <1>4
<1>6. Written(name, id) = {mcp.servers[k]}
  BY <1>5 DEF Written, mcp
<1>7. agents[name].mcp.servers[id] =
        Selection(mcp.servers[k].include, mcp.servers[k].exclude, mcp.servers[k].defer,
                  mcp.servers[k].eager)
  BY <1>1, <1>2
<1> QED BY <1>6, <1>7

\* A selection lets through what the author's lists let through.
LEMMA AllowsIsSelected ==
  ASSUME NEW lists, NEW tool
  PROVE  Allows(lists, tool) <=> SelectionAllows(lists, tool)
  BY DEF Allows, SelectionAllows, Trimmed

\* A selection that lets a tool through is one of the agent's file that does.
LEMMA WrittenAllows ==
  ASSUME agents = ResolveRecipe(recipe), agents # <<>>, NEW name \in DOMAIN agents,
         NEW id \in DOMAIN agents[name].mcp.servers, NEW tool,
         SelectionAllows(agents[name].mcp.servers[id], tool)
  PROVE  \E lists \in Written(name, id) : Allows(lists, tool)
<1>1. PICK lists : /\ Written(name, id) = {lists}
                   /\ agents[name].mcp.servers[id] =
                        Selection(lists.include, lists.exclude, lists.defer, lists.eager)
  BY OneWritten
<1>2. SelectionAllows(lists, tool)
  BY <1>1 DEF SelectionAllows, Selection
<1> QED BY <1>1, <1>2, AllowsIsSelected

\* What is materialised carries the selection of the package, and that of the
\* agent it was materialised for.
LEMMA MaterializedFromPackage ==
  ASSUME NEW pkg, NEW mcp, NEW id \in DOMAIN Materialized(pkg, mcp)
  PROVE  /\ id \in DOMAIN mcp.servers
         /\ \E s \in ToSet(pkg.servers) :
              IdOf[s.id] = id /\ Materialized(pkg, mcp)[id].package = s.tools
         /\ Materialized(pkg, mcp)[id].agents = {mcp.servers[id]}
<1> DEFINE server == CHOOSE s \in Selected(pkg, mcp) : IdOf[s.id] = id
<1>1. id \in {IdOf[s.id] : s \in Selected(pkg, mcp)}
  BY DEF Materialized
<1>2. server \in Selected(pkg, mcp) /\ IdOf[server.id] = id
  BY <1>1
<1>3. Materialized(pkg, mcp)[id] =
        [package |-> server.tools, agents |-> {mcp.servers[id]}, required |-> server.required]
  BY <1>1 DEF Materialized
<1>4. server \in ToSet(pkg.servers) /\ id \in DOMAIN mcp.servers
  BY <1>2 DEF Selected
<1> HIDE DEF server
<1> QED BY <1>2, <1>3, <1>4

\* A call that a session let through was allowed by the author twice over.
LEMMA InvAuthorized == IInv => OnlyAuthorizedCalls
<1> SUFFICES ASSUME IInv, NEW t \in calls
             PROVE  AuthorAllows(IF session.mode = "tools" THEN session.agent ELSE session.granted,
                                 t[1], t[2])
  BY DEF OnlyAuthorizedCalls
<1>1. session.mode # "none"
  BY DEF IInv, NothingYet
<1>2. /\ agents # <<>> /\ session.agent \in DOMAIN agents /\ session.granted \in DOMAIN agents
      /\ session.servers = Materialized(recipe.pkg, agents[session.granted].mcp)
  BY <1>1 DEF IInv, SessionMade
<1>3. agents = ResolveRecipe(recipe)
  BY <1>2 DEF IInv, UpToDate
<1>4. t[1] \in DOMAIN session.servers /\ SessionAllows(session.servers[t[1]], t[2])
  <2>1. CASE session.mode # "tools"
    BY <1>1, <2>1 DEF IInv, CallsMade
  <2>2. CASE session.mode = "tools"
    <3>1. t \in ToolNames(session.servers, Own, {})
      BY <1>1, <2>2 DEF IInv, CallsMade, ToolsMade
    <3>2. PICK id \in DOMAIN session.servers \cap DOMAIN Own :
            t \in {<<id, tool>> : tool \in Catalog(session.servers, Own, {}, id)}
      BY <3>1 DEF ToolNames
    <3>3. PICK tool \in Catalog(session.servers, Own, {}, id) : t = <<id, tool>>
      BY <3>2
    <3>4. t[1] = id /\ t[2] = tool
      BY <3>3
    <3> QED BY <3>2, <3>3, <3>4 DEF Catalog, FilterCatalog
  <2> QED BY <2>1, <2>2
<1>5. /\ t[1] \in DOMAIN Mine
      /\ \E s \in ToSet(recipe.pkg.servers) :
           IdOf[s.id] = t[1] /\ session.servers[t[1]].package = s.tools
      /\ session.servers[t[1]].agents = {Mine[t[1]]}
  BY <1>2, <1>4, MaterializedFromPackage DEF Mine
<1>6. SelectionAllows(session.servers[t[1]].package, t[2]) /\ SelectionAllows(Mine[t[1]], t[2])
  BY <1>4, <1>5 DEF SessionAllows
<1>7. \E s \in ToSet(recipe.pkg.servers) : IdOf[s.id] = t[1] /\ Allows(s.tools, t[2])
  BY <1>5, <1>6, AllowsIsSelected
<1>8. CASE session.mode # "tools"
  <2>1. \E lists \in Written(session.granted, t[1]) : Allows(lists, t[2])
    BY <1>2, <1>3, <1>5, <1>6, WrittenAllows DEF Mine
  <2> QED BY <1>7, <1>8, <2>1 DEF AuthorAllows
<1>9. CASE session.mode = "tools"
  <2>1. t \in ToolNames(session.servers, Own, {})
    BY <1>1, <1>9 DEF IInv, CallsMade, ToolsMade
  <2>2. PICK id \in DOMAIN session.servers \cap DOMAIN Own :
          t \in {<<id, tool>> : tool \in Catalog(session.servers, Own, {}, id)}
    BY <2>1 DEF ToolNames
  <2>3. PICK tool \in Catalog(session.servers, Own, {}, id) : t = <<id, tool>>
    BY <2>2
  <2>4. t[1] = id /\ t[2] = tool
    BY <2>3
  <2>5. t[1] \in DOMAIN Own /\ SelectionAllows(Own[t[1]], t[2])
    BY <2>2, <2>3, <2>4 DEF Catalog
  <2>6. \E lists \in Written(session.agent, t[1]) : Allows(lists, t[2])
    BY <1>2, <1>3, <2>5, WrittenAllows DEF Own
  <2> QED BY <1>7, <1>9, <2>6 DEF AuthorAllows
<1> QED BY <1>8, <1>9

\* No call reaches a server unless package.json and the agent's own block both
\* allow the tool, whoever started the session and whatever is inherited.
THEOREM AuthorizedCalls == Spec => []OnlyAuthorizedCalls
  BY RecipeInvariant, InvAuthorized, PTL

\* What the tools offered to the model are follows from what the author says.
LEMMA InvActive == IInv => ActiveAsDeclared
<1> SUFFICES ASSUME IInv, session.mode = "tools"
             PROVE  active = {t \in session.usable :
                                \/ ~Marks(session.agent, t[1], "defer", t[2])
                                \/ Marks(session.agent, t[1], "eager", t[2])
                                \/ t \in found}
  BY DEF ActiveAsDeclared
<1>1. /\ agents # <<>> /\ session.agent \in DOMAIN agents
      /\ active = InitiallyActive(Own, session.usable) \cup found
      /\ found \subseteq session.usable
      /\ session.usable \subseteq ToolNames(session.servers, Own, {})
  BY DEF IInv, SessionMade, ToolsMade
<1>2. agents = ResolveRecipe(recipe)
  BY <1>1 DEF IInv, UpToDate
<1>3. \A t \in session.usable : t[1] \in DOMAIN Own
  <2> TAKE t \in session.usable
  <2>1. PICK id \in DOMAIN session.servers \cap DOMAIN Own :
          t \in {<<id, tool>> : tool \in Catalog(session.servers, Own, {}, id)}
    BY <1>1 DEF ToolNames
  <2> QED BY <2>1
<1>4. ASSUME NEW t \in session.usable
      PROVE  /\ Marks(session.agent, t[1], "defer", t[2]) <=> Named(Own[t[1]].defer, t[2])
             /\ Marks(session.agent, t[1], "eager", t[2]) <=> Named(Own[t[1]].eager, t[2])
  <2>1. PICK lists : /\ Written(session.agent, t[1]) = {lists}
                     /\ Own[t[1]] =
                          Selection(lists.include, lists.exclude, lists.defer, lists.eager)
    BY <1>1, <1>2, <1>3, OneWritten DEF Own
  <2>2. Own[t[1]].defer = lists["defer"] /\ Own[t[1]].eager = lists["eager"]
    BY <2>1 DEF Selection
  <2> QED BY <2>1, <2>2 DEF Marks, Named, Trimmed
<1>5. InitiallyActive(Own, session.usable) =
        {t \in session.usable : \/ ~Marks(session.agent, t[1], "defer", t[2])
                                \/ Marks(session.agent, t[1], "eager", t[2])}
  BY <1>4 DEF InitiallyActive
<1> QED BY <1>1, <1>5

\* The tools offered to the model are exactly the usable ones that no block
\* defers, that one names as eager, or that a search has reported.
THEOREM ActiveTools == Spec => []ActiveAsDeclared
  BY RecipeInvariant, InvActive, PTL

-----------------------------------------------------------------------------
\* The line of a resolved agent, file by file, and what each step up adds.
Above(name) == Over(Sourced, Line(name))

\* A resolved agent is what the files of its line come to, the nearest over all.
LEMMA AgentLine ==
  ASSUME agents = ResolveRecipe(recipe), agents # <<>>, NEW name \in DOMAIN agents
  PROVE  /\ Line(name) \in Seq(DOMAIN agents)
         /\ agents[name] = Above(name)[1]
         /\ Above(name)[Len(Line(name)) + 1] = Bare
         /\ \A i \in 1..Len(Line(name)) :
              Above(name)[i] = Overlay(Above(name)[i + 1], ParseFile(FileOf(Line(name)[i])))
<1>1. /\ DOMAIN agents = DOMAIN Sourced
      /\ \A n \in DOMAIN agents : Sourced[n] = ParseFile(FileOf(n))
      /\ agents[name] = Definition(Sourced, name)
      /\ Line(name) = LineageOf(Sourced, name)
  BY ResolvedAgents
<1>2. /\ Line(name) \in Seq(DOMAIN Sourced)
      /\ Definition(Sourced, name) = Above(name)[1]
      /\ Above(name)[Len(Line(name)) + 1] = Bare
      /\ \A i \in 1..Len(Line(name)) :
           Above(name)[i] = Overlay(Above(name)[i + 1], Sourced[Line(name)[i]])
  BY <1>1, DefinitionIsOver DEF Above
<1>3. \A i \in 1..Len(Line(name)) : Line(name)[i] \in DOMAIN agents
  BY <1>1, <1>2
<1> QED BY <1>1, <1>2, <1>3

\* A file names a model as the parser reads it.
LEMMA ParsedName ==
  ASSUME NEW file
  PROVE  /\ ParseFile(file).config.name =
              IF ModelName(file) \in {Empty, "none"} THEN "none" ELSE ModelName(file)
         /\ ParseFile(file).config.thinking =
              IF Says(file, "thinking_level") \in {Empty, "none"} THEN "none"
              ELSE Says(file, "thinking_level")
<1> DEFINE key == IF file.ai.shape = "none" THEN "name" ELSE "model"
<1>1. /\ ParseFile(file).config.name = Text(Model(file), key)
      /\ ParseFile(file).config.thinking = Text(Model(file), "thinking_level")
  BY DEF ParseFile, ModelConfig, Model
<1>2. ASSUME NEW k
      PROVE  Text(Model(file), k) = IF Says(file, k) \in {Empty, "none"} THEN "none" ELSE Says(file, k)
  BY DEF Text, Says
<1>3. ModelName(file) = Says(file, key)
  BY DEF ModelName
<1> QED BY <1>1, <1>2, <1>3

\* Of the line of a resolved agent somebody names a model.
LEMMA SomebodyNames ==
  ASSUME agents = ResolveRecipe(recipe), agents # <<>>, NEW name \in DOMAIN agents
  PROVE  \E i \in 1..Len(Line(name)) : Names(Line(name)[i])
<1>1. PICK n \in ToSet(Line(name)) : Sourced[n].config.name # "none"
  BY ResolvedAgents DEF ResolvedModelProvided
<1>2. PICK i \in 1..Len(Line(name)) : n = Line(name)[i]
  BY <1>1, AgentLine DEF ToSet
<1>3. n \in DOMAIN agents
  BY <1>2, AgentLine
<1>4. Sourced[n] = ParseFile(FileOf(n))
  BY <1>3, ResolvedAgents
<1> QED BY <1>1, <1>2, <1>4, ParsedName DEF Names

\* The model and its settings are those of the nearest agent that has any.
LEMMA ModelOfNearest ==
  ASSUME agents = ResolveRecipe(recipe), agents # <<>>, NEW name \in DOMAIN agents
  PROVE  ModelInherited(name)
<1> DEFINE line == Line(name)
           last == Len(line)
           over == Above(name)
           speaks(n) == Names(n) \/ Thinks(n)
           naming == {i \in 1..last : Names(line[i])}
           speaking == {i \in 1..last : speaks(line[i])}
           name1 == [i \in 1..(last + 1) |-> over[i].config.name]
           name2 == [i \in 1..last |-> ModelName(FileOf(line[i]))]
           think1 == [i \in 1..(last + 1) |-> over[i].config.thinking]
           think2 == [i \in 1..last |-> IF Thinks(line[i])
                                        THEN Says(FileOf(line[i]), "thinking_level") ELSE "none"]
<1>1. /\ line \in Seq(DOMAIN agents) /\ agents[name] = over[1] /\ over[last + 1] = Bare
      /\ \A i \in 1..last : over[i] = Overlay(over[i + 1], ParseFile(FileOf(line[i])))
  BY AgentLine
<1>2. naming # {} /\ speaking # {}
  BY SomebodyNames
<1> HIDE DEF line, over
<1>3. last \in Nat /\ DOMAIN line = 1..last
  BY <1>1
<1> HIDE DEF last
<1>4. ASSUME NEW i \in 1..last
      PROVE  /\ over[i].config.name = IF i \in naming THEN ModelName(FileOf(line[i]))
                                      ELSE over[i + 1].config.name
             /\ over[i].config.thinking = IF i \in speaking THEN think2[i]
                                          ELSE over[i + 1].config.thinking
  <2> DEFINE raw == ParseFile(FileOf(line[i]))
  <2>1. over[i] = Overlay(over[i + 1], raw)
    BY <1>1
  <2>2. over[i].config = MergeModelConfig(over[i + 1].config, raw.config)
    BY <2>1 DEF Overlay
  <2>3. /\ raw.config.name = IF Names(line[i]) THEN ModelName(FileOf(line[i])) ELSE "none"
        /\ raw.config.thinking = think2[i]
        /\ (think2[i] # "none") = Thinks(line[i])
        /\ Names(line[i]) => ModelName(FileOf(line[i])) # "none"
    BY ParsedName DEF Names, Thinks
  <2> HIDE DEF raw, think2
  <2>4. CASE Names(line[i])
    BY <2>2, <2>3, <2>4 DEF MergeModelConfig
  <2>5. CASE ~Names(line[i])
    <3>1. raw.config.name = "none"
      BY <2>3, <2>5
    <3>2. /\ over[i].config.name = over[i + 1].config.name
          /\ over[i].config.thinking = IF raw.config.thinking # "none" THEN raw.config.thinking
                                       ELSE over[i + 1].config.thinking
      BY <2>2, <3>1 DEF MergeModelConfig
    <3>3. i \in speaking <=> raw.config.thinking # "none"
      BY <2>3, <2>5
    <3> QED BY <2>3, <2>5, <3>2, <3>3
  <2> QED BY <2>4, <2>5
<1>5. Passes(name1, name2, naming, last) /\ Passes(think1, think2, speaking, last)
  BY <1>3, <1>4 DEF Passes
<1>6. name1[1] = agents[name].config.name /\ think1[1] = agents[name].config.thinking
  BY <1>1, <1>3
<1>7. /\ naming = {i \in DOMAIN line : Names(line[i])}
      /\ speaking = {i \in DOMAIN line : speaks(line[i])}
  BY <1>3
<1>8. /\ \A i \in naming : name2[i] = ModelName(FileOf(line[i]))
      /\ \A i \in speaking : think2[i] = IF Thinks(line[i])
                                          THEN Says(FileOf(line[i]), "thinking_level") ELSE "none"
  OBVIOUS
<1>9. /\ Nearest(line, Names) = line[First(naming)]
      /\ Nearest(line, speaks) = line[First(speaking)]
  BY <1>2, <1>7 DEF Nearest, First
<1> HIDE DEF name1, name2, think1, think2, naming, speaking
<1>10. /\ First(naming) \in naming /\ name1[1] = name2[First(naming)]
       /\ First(speaking) \in speaking /\ think1[1] = think2[First(speaking)]
  BY <1>2, <1>5, NearestWins
<1>11. agents[name].config.name = ModelName(FileOf(Nearest(line, Names)))
  BY <1>6, <1>8, <1>9, <1>10
<1>12. agents[name].config.thinking =
         IF Thinks(Nearest(line, speaks)) THEN Says(FileOf(Nearest(line, speaks)), "thinking_level")
         ELSE "none"
  BY <1>6, <1>8, <1>9, <1>10
<1> QED BY <1>11, <1>12 DEF ModelInherited, NearestOf, line

\* What a block sets under a key of a section is what the nearest agent of the
\* line sets there that names a model or sets it.
Sections == {"stream", "openrouter", "anthropic", "vercel"}
Raw(name, field, i) == ParseFile(FileOf(Line(name)[i])).config[field]
Speakers(name, field, key) ==
  {i \in 1..Len(Line(name)) : Names(Line(name)[i]) \/ key \in DOMAIN Raw(name, field, i)}

\* mergeRecipeAgentModelConfig, section by section: one that names a model
\* starts over.
LEMMA MergedSection ==
  ASSUME NEW base, NEW overlay, NEW field \in Sections, NEW key
  PROVE  LET merged == MergeModelConfig(base, overlay)[field] IN
         /\ overlay.name # "none" \/ key \in DOMAIN overlay[field] =>
              /\ key \in DOMAIN merged <=> key \in DOMAIN overlay[field]
              /\ key \in DOMAIN merged => merged[key] = overlay[field][key]
         /\ ~(overlay.name # "none" \/ key \in DOMAIN overlay[field]) =>
              /\ key \in DOMAIN merged <=> key \in DOMAIN base[field]
              /\ key \in DOMAIN merged => merged[key] = base[field][key]
<1>1. CASE overlay.name # "none"
  BY <1>1 DEF MergeModelConfig
<1>2. CASE overlay.name = "none"
  <2>1. MergeModelConfig(base, overlay)[field] = Spread(base[field], overlay[field])
    <3>1. /\ MergeModelConfig(base, overlay)["stream"] = Spread(base["stream"], overlay["stream"])
          /\ MergeModelConfig(base, overlay)["openrouter"] =
               Spread(base["openrouter"], overlay["openrouter"])
          /\ MergeModelConfig(base, overlay)["anthropic"] =
               Spread(base["anthropic"], overlay["anthropic"])
          /\ MergeModelConfig(base, overlay)["vercel"] = Spread(base["vercel"], overlay["vercel"])
      BY <1>2 DEF MergeModelConfig
    <3> QED BY <3>1 DEF Sections
  <2> QED BY <1>2, <2>1 DEF Spread
<1> QED BY <1>1, <1>2

\* A resolved agent has in its sections what the nearest speaker of its line says.
LEMMA SectionOfNearest ==
  ASSUME agents = ResolveRecipe(recipe), agents # <<>>, NEW name \in DOMAIN agents,
         NEW field \in Sections, NEW key
  PROVE  LET at == Speakers(name, field, key)
             raw == Raw(name, field, First(at)) IN
         /\ at # {} /\ First(at) \in at
         /\ key \in DOMAIN agents[name].config[field] <=> key \in DOMAIN raw
         /\ key \in DOMAIN agents[name].config[field] => agents[name].config[field][key] = raw[key]
<1> DEFINE line == Line(name)
           last == Len(line)
           over == Above(name)
           at == Speakers(name, field, key)
           there == [i \in 1..(last + 1) |-> IF key \in DOMAIN over[i].config[field] THEN 1 ELSE 0]
           value == [i \in 1..(last + 1) |-> IF key \in DOMAIN over[i].config[field]
                                             THEN over[i].config[field][key] ELSE "none"]
           given == [i \in 1..last |-> IF key \in DOMAIN Raw(name, field, i) THEN 1 ELSE 0]
           gift == [i \in 1..last |-> IF key \in DOMAIN Raw(name, field, i)
                                      THEN Raw(name, field, i)[key] ELSE "none"]
<1>1. /\ line \in Seq(DOMAIN agents) /\ agents[name] = over[1] /\ over[last + 1] = Bare
      /\ \A i \in 1..last : over[i] = Overlay(over[i + 1], ParseFile(FileOf(line[i])))
  BY AgentLine
<1>2. at # {}
  BY SomebodyNames DEF Speakers
<1>3. last \in Nat /\ at \in SUBSET (1..last)
  BY <1>1 DEF Speakers
<1>4. ASSUME NEW i \in 1..last
      PROVE  /\ there[i] = IF i \in at THEN given[i] ELSE there[i + 1]
             /\ value[i] = IF i \in at THEN gift[i] ELSE value[i + 1]
  <2> DEFINE raw == ParseFile(FileOf(line[i]))
  <2>1. over[i] = Overlay(over[i + 1], raw)
    BY <1>1
  <2>2. over[i].config = MergeModelConfig(over[i + 1].config, raw.config)
    BY <2>1 DEF Overlay
  <2>3. raw.config[field] = Raw(name, field, i)
    BY DEF Raw
  <2>4. (raw.config.name # "none") <=> Names(line[i])
    BY ParsedName DEF Names
  <2>5. i \in at <=> raw.config.name # "none" \/ key \in DOMAIN raw.config[field]
    BY <2>3, <2>4 DEF Speakers
  <2> HIDE DEF raw, at, line, last, over
  <2>6. /\ i \in at =>
             /\ key \in DOMAIN over[i].config[field] <=> key \in DOMAIN Raw(name, field, i)
             /\ key \in DOMAIN over[i].config[field] =>
                  over[i].config[field][key] = Raw(name, field, i)[key]
        /\ i \notin at =>
             /\ key \in DOMAIN over[i].config[field] <=> key \in DOMAIN over[i + 1].config[field]
             /\ key \in DOMAIN over[i].config[field] =>
                  over[i].config[field][key] = over[i + 1].config[field][key]
    BY <2>2, <2>3, <2>5, MergedSection
  <2>7. i \in 1..(last + 1) /\ i + 1 \in 1..(last + 1)
    BY <1>3
  <2>8. /\ there[i] = IF key \in DOMAIN over[i].config[field] THEN 1 ELSE 0
        /\ there[i + 1] = IF key \in DOMAIN over[i + 1].config[field] THEN 1 ELSE 0
        /\ given[i] = IF key \in DOMAIN Raw(name, field, i) THEN 1 ELSE 0
        /\ value[i] = IF key \in DOMAIN over[i].config[field]
                      THEN over[i].config[field][key] ELSE "none"
        /\ value[i + 1] = IF key \in DOMAIN over[i + 1].config[field]
                          THEN over[i + 1].config[field][key] ELSE "none"
        /\ gift[i] = IF key \in DOMAIN Raw(name, field, i) THEN Raw(name, field, i)[key] ELSE "none"
    BY <2>7
  <2> HIDE DEF there, value, given, gift
  <2>9. CASE i \in at
    BY <2>6, <2>8, <2>9
  <2>10. CASE i \notin at
    BY <2>6, <2>8, <2>10
  <2> QED BY <2>9, <2>10
<1>5. Passes(there, given, at, last) /\ Passes(value, gift, at, last)
  BY <1>3, <1>4 DEF Passes
<1>6. /\ there[1] = IF key \in DOMAIN agents[name].config[field] THEN 1 ELSE 0
      /\ key \in DOMAIN agents[name].config[field] => value[1] = agents[name].config[field][key]
  BY <1>1, <1>3
<1>7. \A i \in at : /\ given[i] = IF key \in DOMAIN Raw(name, field, i) THEN 1 ELSE 0
                    /\ key \in DOMAIN Raw(name, field, i) => gift[i] = Raw(name, field, i)[key]
  BY <1>3
<1> HIDE DEF there, value, given, gift, at, last, line, over
<1>8. First(at) \in at /\ there[1] = given[First(at)] /\ value[1] = gift[First(at)]
  BY <1>2, <1>5, NearestWins
<1>9. /\ at # {} /\ First(at) \in at
      /\ key \in DOMAIN agents[name].config[field] <=> key \in DOMAIN Raw(name, field, First(at))
      /\ key \in DOMAIN agents[name].config[field] =>
           agents[name].config[field][key] = Raw(name, field, First(at))[key]
  BY <1>2, <1>6, <1>7, <1>8
<1> QED BY <1>9 DEF at

\* A key appended to a path of one key makes a path of two.
LEMMA AppendedToOne ==
  ASSUME NEW first, NEW key
  PROVE  Append(<<first>>, key) = <<first, key>>
<1> DEFINE s == Append(<<first>>, key)
           t == <<first, key>>
           S == {first, key}
<1>1. <<first>> \in Seq(S)
  OBVIOUS
<1>2. s \in Seq(S) /\ Len(s) = 2 /\ s[1] = first /\ s[2] = key
  BY <1>1
<1>3. t \in Seq(S) /\ Len(t) = 2 /\ t[1] = first /\ t[2] = key
  OBVIOUS
<1> HIDE DEF s, t
<1>4. Len(s) = Len(t) /\ \A i \in 1..Len(s) : s[i] = t[i]
  <2>1. \A i \in 1..2 : i = 1 \/ i = 2
    OBVIOUS
  <2> QED BY <1>2, <1>3, <2>1
<1>5. s = t
  BY <1>2, <1>3, <1>4, SeqEqual
<1> QED BY <1>5 DEF s, t

\* An option of the stream is there when the file has it in one of its
\* spellings.
LEMMA ParsedOptions ==
  ASSUME NEW file, ValidFile(file), NEW camel
  PROVE  LET stream == ParseFile(file).config.stream
             keys == OptionKeys(file, camel) IN
         /\ camel \in DOMAIN stream <=> keys # {}
         /\ keys # {} => \E k \in keys :
              stream[camel] = OptionGiven(file, k)
<1> DEFINE m == Model(file)
           legacy == file.ai.shape = "none"
           options == IF legacy THEN LegacyOptions(m) ELSE Keys(m, <<"options">>)
           option(key) == IF legacy THEN LegacyOption(m, key) ELSE Under(m, <<"options", key>>)
           at == CHOOSE key \in options : Camel[key] = camel
           stream == ParseFile(file).config.stream
<1>1. stream = [c \in {Camel[key] : key \in options} |->
                  option(CHOOSE key \in options : Camel[key] = c)]
  BY DEF ParseFile, ModelConfig, Model
<1>2. OptionKeys(file, camel) = {k \in options : Camel[k] = camel}
  <2>1. CASE legacy
    BY <2>1 DEF OptionKeys, OptionsAt, Older, IsBlank, LegacyOptions
  <2>2. CASE ~legacy
    <3>1. Keys(file.ai, <<"options">>) \subseteq DOMAIN Camel
      BY <2>2 DEF ValidFile, ValidAiBlock, KeysWithin
    <3> QED BY <2>2, <3>1 DEF OptionKeys, OptionsAt, Model, Older
  <2> QED BY <2>1, <2>2
<1>3. \A key : option(key) = OptionGiven(file, key)
  <2> SUFFICES ASSUME NEW key PROVE option(key) = OptionGiven(file, key)
    OBVIOUS
  <2>1. CASE legacy
    <3>1. Append(OptionsAt(file), key) = <<key>>
      BY <2>1 DEF OptionsAt, Older
    <3> QED BY <2>1, <3>1 DEF LegacyOption, OptionGiven, Older
  <2>2. CASE ~legacy
    <3>1. Append(OptionsAt(file), key) = <<"options", key>>
      <4>1. OptionsAt(file) = <<"options">>
        BY <2>2 DEF OptionsAt, Older
      <4> HIDE DEF option, options, legacy, m
      <4>2. Append(<<"options">>, key) = <<"options", key>>
        BY AppendedToOne
      <4> QED BY <4>1, <4>2
    <3>2. ~(Older(file) /\ key = "cache_retention")
      BY <2>2 DEF Older
    <3>3. OptionGiven(file, key) = Under(Model(file), Append(OptionsAt(file), key))
      BY <3>2 DEF OptionGiven
    <3>4. option(key) = Under(Model(file), <<"options", key>>)
      BY <2>2
    <3> QED
      <4> HIDE DEF option, legacy, m
      <4> QED BY <3>1, <3>3, <3>4
  <2> QED BY <2>1, <2>2
<1> HIDE DEF options, m, option
<1>4. camel \in DOMAIN stream <=> OptionKeys(file, camel) # {}
  BY <1>1, <1>2
<1>5. ASSUME OptionKeys(file, camel) # {}
      PROVE  \E k \in OptionKeys(file, camel) : stream[camel] = OptionGiven(file, k)
  <2>1. at \in options /\ Camel[at] = camel
    BY <1>2, <1>5
  <2>2. stream[camel] = option(at)
    BY <1>1, <1>4, <1>5
  <2> QED BY <1>2, <1>3, <2>1, <2>2
<1> QED BY <1>4, <1>5

\* The options of the stream are those of the nearest agent that sets them.
LEMMA OptionsOfNearest ==
  ASSUME agents = ResolveRecipe(recipe), agents # <<>>, NEW name \in DOMAIN agents
  PROVE  OptionsInherited(name)
<1> SUFFICES ASSUME NEW camel \in Range(Camel)
             PROVE  LET stream == agents[name].config.stream
                        speaks(n) == Names(n) \/ OptionKeys(FileOf(n), camel) # {}
                        file == FileOf(Nearest(Line(name), speaks))
                        keys == OptionKeys(file, camel) IN
                    IF keys = {} THEN camel \notin DOMAIN stream
                    ELSE /\ camel \in DOMAIN stream
                         /\ \E k \in keys :
                              stream[camel] = OptionGiven(file, k)
  BY DEF OptionsInherited, NearestOf
<1> DEFINE line == Line(name)
           at == Speakers(name, "stream", camel)
           file == FileOf(line[First(at)])
           speaks(n) == Names(n) \/ OptionKeys(FileOf(n), camel) # {}
           stream == agents[name].config.stream
<1>1. line \in Seq(DOMAIN agents) /\ DOMAIN line = 1..Len(line)
  BY AgentLine
<1>2. \A n \in DOMAIN agents : ValidFile(FileOf(n))
  BY ResolvedAgents
<1>3. /\ at # {} /\ First(at) \in at
      /\ camel \in DOMAIN agents[name].config["stream"] <=>
           camel \in DOMAIN Raw(name, "stream", First(at))
      /\ camel \in DOMAIN agents[name].config["stream"] =>
           agents[name].config["stream"][camel] = Raw(name, "stream", First(at))[camel]
  <2>1. "stream" \in Sections
    BY DEF Sections
  <2> QED BY <2>1, SectionOfNearest
<1>4. \A i \in 1..Len(line) : line[i] \in DOMAIN agents
  BY <1>1
<1>5. at = {i \in DOMAIN line : speaks(line[i])}
  <2>1. ASSUME NEW i \in 1..Len(line)
        PROVE  camel \in DOMAIN Raw(name, "stream", i) <=> OptionKeys(FileOf(line[i]), camel) # {}
    BY <1>2, <1>4, ParsedOptions DEF Raw
  <2> QED BY <1>1, <2>1 DEF Speakers
<1>6. Nearest(line, speaks) = line[First(at)]
  BY <1>3, <1>5 DEF Nearest, First
<1>7. ValidFile(file) /\ Raw(name, "stream", First(at)) = ParseFile(file).config.stream
  <2>1. First(at) \in 1..Len(line)
    BY <1>3 DEF Speakers
  <2> QED BY <1>2, <1>4, <2>1 DEF Raw
<1> HIDE DEF file
<1>8. /\ camel \in DOMAIN ParseFile(file).config.stream <=> OptionKeys(file, camel) # {}
      /\ OptionKeys(file, camel) # {} =>
           \E k \in OptionKeys(file, camel) :
             ParseFile(file).config.stream[camel] = OptionGiven(file, k)
  BY <1>7, ParsedOptions
<1>9. /\ camel \in DOMAIN stream <=> OptionKeys(file, camel) # {}
      /\ OptionKeys(file, camel) # {} =>
           \E k \in OptionKeys(file, camel) :
             stream[camel] = OptionGiven(file, k)
  BY <1>3, <1>7, <1>8
<1>10. FileOf(Nearest(line, speaks)) = file
  BY <1>6 DEF file
<1> QED BY <1>9, <1>10

\* The section of a provider is taken from the block as it is.
LEMMA ParsedSection ==
  ASSUME NEW file, NEW section \in DOMAIN SectionAt
  PROVE  ParseFile(file).config[section] = Section(Model(file), SectionAt[section])
<1>1. section \in {"openrouter", "anthropic", "vercel"}
  BY DEF SectionAt
<1>2. CASE section = "openrouter"
  BY <1>2 DEF SectionAt, ParseFile, ModelConfig, Model
<1>3. CASE section = "anthropic"
  BY <1>3 DEF SectionAt, ParseFile, ModelConfig, Model
<1>4. CASE section = "vercel"
  BY <1>4 DEF SectionAt, ParseFile, ModelConfig, Model
<1> QED BY <1>1, <1>2, <1>3, <1>4

\* The providers' sections are those of the nearest agent that sets them.
LEMMA ProvidersOfNearest ==
  ASSUME agents = ResolveRecipe(recipe), agents # <<>>, NEW name \in DOMAIN agents
  PROVE  ProvidersInherited(name)
<1> DEFINE given(section, n) == Keys(Model(FileOf(n)), SectionAt[section])
<1> SUFFICES ASSUME NEW section \in DOMAIN SectionAt, NEW key
             PROVE  LET settings == agents[name].config[section]
                        speaks(n) == Names(n) \/ key \in given(section, n)
                        speaker == Nearest(Line(name), speaks) IN
                    /\ key \in DOMAIN settings <=> key \in given(section, speaker)
                    /\ key \in DOMAIN settings =>
                         settings[key] = Under(Model(FileOf(speaker)), Append(SectionAt[section], key))
  BY DEF ProvidersInherited
<1> DEFINE line == Line(name)
           at == Speakers(name, section, key)
           settings == agents[name].config[section]
           speaks(n) == Names(n) \/ key \in given(section, n)
<1>1. line \in Seq(DOMAIN agents) /\ DOMAIN line = 1..Len(line)
  BY AgentLine
<1>2. section \in Sections
  BY DEF SectionAt, Sections
<1>3. /\ at # {} /\ First(at) \in at
      /\ key \in DOMAIN settings <=> key \in DOMAIN Raw(name, section, First(at))
      /\ key \in DOMAIN settings => settings[key] = Raw(name, section, First(at))[key]
  BY <1>2, SectionOfNearest
<1>4. \A i : Raw(name, section, i) = Section(Model(FileOf(line[i])), SectionAt[section])
  BY ParsedSection DEF Raw
<1>5. \A i : /\ DOMAIN Raw(name, section, i) = given(section, line[i])
             /\ \A k \in given(section, line[i]) :
                  Raw(name, section, i)[k] =
                    Under(Model(FileOf(line[i])), Append(SectionAt[section], k))
  BY <1>4 DEF Section
<1>6. at = {i \in DOMAIN line : speaks(line[i])}
  BY <1>1, <1>5 DEF Speakers
<1>7. Nearest(line, speaks) = line[First(at)]
  BY <1>3, <1>6 DEF Nearest, First
<1> QED BY <1>3, <1>5, <1>7

\* A list (tools, skills, subagents) is that of the nearest agent that gives
\* one.
LEMMA ListsOfNearest ==
  ASSUME agents = ResolveRecipe(recipe), agents # <<>>, NEW name \in DOMAIN agents
  PROVE  ListsInherited(name)
<1> SUFFICES ASSUME NEW field \in {"tools", "skills", "subagents"}
             PROVE  LET gives(n) == Given(FileOf(n)[field]) IN
                    agents[name][field] =
                      IF \E n \in ToSet(Line(name)) : gives(n)
                      THEN TrimEach(FileOf(Nearest(Line(name), gives))[field]) ELSE NoList
  BY DEF ListsInherited, NearestOf, Somebody
<1> DEFINE line == Line(name)
           last == Len(line)
           over == Above(name)
           gives(n) == Given(FileOf(n)[field])
           at == {i \in 1..last : gives(line[i])}
           v == [i \in 1..(last + 1) |-> over[i][field]]
           own == [i \in 1..last |-> TrimEach(FileOf(line[i])[field])]
<1>1. /\ line \in Seq(DOMAIN agents) /\ agents[name] = over[1] /\ over[last + 1] = Bare
      /\ \A i \in 1..last : over[i] = Overlay(over[i + 1], ParseFile(FileOf(line[i])))
  BY AgentLine
<1> HIDE DEF line, over
<1>2. last \in Nat /\ DOMAIN line = 1..last
  BY <1>1
<1> HIDE DEF last
<1>3. \A i \in 1..last : v[i] = IF i \in at THEN own[i] ELSE v[i + 1]
  <2> TAKE i \in 1..last
  <2> DEFINE raw == ParseFile(FileOf(line[i]))
  <2>1. over[i] = Overlay(over[i + 1], raw)
    BY <1>1
  <2>2. over[i][field] = OrElse(raw[field], over[i + 1][field])
    <3>1. /\ over[i]["tools"] = OrElse(raw["tools"], over[i + 1]["tools"])
          /\ over[i]["skills"] = OrElse(raw["skills"], over[i + 1]["skills"])
          /\ over[i]["subagents"] = OrElse(raw["subagents"], over[i + 1]["subagents"])
      BY <2>1 DEF Overlay
    <3> QED BY <3>1
  <2>3. raw[field] = TrimEach(FileOf(line[i])[field])
    <3>1. /\ raw["tools"] = TrimEach(FileOf(line[i])["tools"])
          /\ raw["skills"] = TrimEach(FileOf(line[i])["skills"])
          /\ raw["subagents"] = TrimEach(FileOf(line[i])["subagents"])
      BY DEF ParseFile
    <3> QED BY <3>1
  <2>4. Given(raw[field]) <=> gives(line[i])
    BY <2>3 DEF Given, TrimEach
  <2> HIDE DEF raw
  <2> QED BY <1>2, <2>2, <2>3, <2>4 DEF OrElse
<1>4. Passes(v, own, at, last)
  BY <1>2, <1>3 DEF Passes
<1>5. v[1] = agents[name][field] /\ v[last + 1] = NoList
  <2>1. Bare["tools"] = NoList /\ Bare["skills"] = NoList /\ Bare["subagents"] = NoList
    BY DEF Bare
  <2> QED BY <1>1, <1>2, <2>1
<1>6. /\ \A i \in at : own[i] = TrimEach(FileOf(line[i])[field])
      /\ at = {i \in DOMAIN line : gives(line[i])}
      /\ (\E n \in ToSet(line) : gives(n)) <=> at # {}
  BY <1>2 DEF ToSet
<1>7. at # {} => Nearest(line, gives) = line[First(at)]
  BY <1>6 DEF Nearest, First
<1> HIDE DEF v, own, at
<1>8. /\ at = {} => v[1] = v[last + 1]
      /\ at # {} => First(at) \in at /\ v[1] = own[First(at)]
  BY <1>4, NearestWins
<1>9. agents[name][field] = IF \E n \in ToSet(line) : gives(n)
                            THEN TrimEach(FileOf(Nearest(line, gives))[field]) ELSE NoList
  BY <1>5, <1>6, <1>7, <1>8
<1> QED BY <1>9 DEF line

\* A setting, by its path, is that of the nearest agent of the line that sets it.
LEMMA SettingOfNearest ==
  ASSUME agents = ResolveRecipe(recipe), agents # <<>>, NEW name \in DOMAIN agents, NEW path
  PROVE  LET at == {i \in DOMAIN Line(name) : Sets(FileOf(Line(name)[i]), path)} IN
         /\ path \in DOMAIN agents[name].session <=> at # {}
         /\ at # {} => /\ First(at) \in at
                       /\ agents[name].session[path] =
                            FileOf(Line(name)[First(at)]).session.at[path]
<1> DEFINE line == Line(name)
           last == Len(line)
           over == Above(name)
           at == {i \in DOMAIN line : Sets(FileOf(line[i]), path)}
           there == [i \in 1..(last + 1) |-> IF path \in DOMAIN over[i].session THEN 1 ELSE 0]
           value == [i \in 1..(last + 1) |-> IF path \in DOMAIN over[i].session
                                             THEN over[i].session[path] ELSE "none"]
           given == [i \in 1..last |-> 1]
           gift == [i \in 1..last |-> FileOf(line[i]).session.at[path]]
<1>1. /\ line \in Seq(DOMAIN agents) /\ agents[name] = over[1] /\ over[last + 1] = Bare
      /\ \A i \in 1..last : over[i] = Overlay(over[i + 1], ParseFile(FileOf(line[i])))
  BY AgentLine
<1> HIDE DEF line, over
<1>2. last \in Nat /\ DOMAIN line = 1..last
  BY <1>1
<1> HIDE DEF last
<1>3. ASSUME NEW i \in 1..last
      PROVE  /\ there[i] = IF i \in at THEN given[i] ELSE there[i + 1]
             /\ value[i] = IF i \in at THEN gift[i] ELSE value[i + 1]
  <2> DEFINE file == FileOf(line[i])
  <2>1. over[i] = Overlay(over[i + 1], ParseFile(file))
    BY <1>1
  <2>2. over[i].session = Spread(over[i + 1].session, SessionConfig(file))
    BY <2>1 DEF Overlay, ParseFile, MergeSessionConfig
  <2>3. /\ path \in DOMAIN SessionConfig(file) <=> Sets(file, path)
        /\ Sets(file, path) => SessionConfig(file)[path] = file.session.at[path]
    BY DEF SessionConfig, Sets
  <2>4. i \in at <=> Sets(file, path)
    BY <1>2
  <2>5. gift[i] = file.session.at[path] /\ given[i] = 1
    OBVIOUS
  <2>6. i \in 1..(last + 1) /\ i + 1 \in 1..(last + 1)
    BY <1>2
  <2>7. /\ there[i] = IF path \in DOMAIN over[i].session THEN 1 ELSE 0
        /\ there[i + 1] = IF path \in DOMAIN over[i + 1].session THEN 1 ELSE 0
        /\ value[i] = IF path \in DOMAIN over[i].session THEN over[i].session[path] ELSE "none"
        /\ value[i + 1] = IF path \in DOMAIN over[i + 1].session
                          THEN over[i + 1].session[path] ELSE "none"
    BY <2>6
  <2> HIDE DEF file, at, there, value, given, gift
  <2>8. /\ i \in at => path \in DOMAIN over[i].session /\ over[i].session[path] = file.session.at[path]
        /\ i \notin at => /\ path \in DOMAIN over[i].session <=> path \in DOMAIN over[i + 1].session
                          /\ path \in DOMAIN over[i].session =>
                               over[i].session[path] = over[i + 1].session[path]
    BY <2>2, <2>3, <2>4 DEF Spread
  <2>9. CASE i \in at
    BY <2>5, <2>7, <2>8, <2>9
  <2>10. CASE i \notin at
    BY <2>7, <2>8, <2>10
  <2> QED BY <2>9, <2>10
<1>4. Passes(there, given, at, last) /\ Passes(value, gift, at, last)
  BY <1>2, <1>3 DEF Passes
<1>5. /\ there[1] = IF path \in DOMAIN agents[name].session THEN 1 ELSE 0
      /\ path \in DOMAIN agents[name].session => value[1] = agents[name].session[path]
      /\ there[last + 1] = 0
  BY <1>1, <1>2 DEF Bare
<1>6. \A i \in at : given[i] = 1 /\ gift[i] = FileOf(line[i]).session.at[path]
  BY <1>2
<1> HIDE DEF there, value, given, gift, at
<1>7. /\ at = {} => there[1] = there[last + 1]
      /\ at # {} => First(at) \in at /\ there[1] = given[First(at)] /\ value[1] = gift[First(at)]
  BY <1>4, NearestWins
<1>8. /\ path \in DOMAIN agents[name].session <=> at # {}
      /\ at # {} => /\ First(at) \in at
                    /\ agents[name].session[path] = FileOf(line[First(at)]).session.at[path]
  BY <1>5, <1>6, <1>7
<1> QED BY <1>8 DEF at, line

\* So the session's settings are inherited one by one.
LEMMA SettingsOfNearest ==
  ASSUME agents = ResolveRecipe(recipe), agents # <<>>, NEW name \in DOMAIN agents
  PROVE  SettingsInherited(name)
<1> DEFINE line == Line(name)
           at(path) == {i \in DOMAIN line : Sets(FileOf(line[i]), path)}
<1>1. line \in Seq(DOMAIN agents)
  BY AgentLine
<1>2. ASSUME NEW n \in ToSet(line), NEW path, Sets(FileOf(n), path)
      PROVE  LET sets(m) == Sets(FileOf(m), path) IN
             /\ path \in DOMAIN agents[name].session
             /\ agents[name].session[path] = FileOf(Nearest(line, sets)).session.at[path]
  <2> DEFINE sets(m) == Sets(FileOf(m), path)
  <2>1. at(path) # {}
    BY <1>1, <1>2 DEF ToSet
  <2>2. Nearest(line, sets) = line[First(at(path))]
    BY <2>1 DEF Nearest, First
  <2>3. /\ path \in DOMAIN agents[name].session
        /\ agents[name].session[path] = FileOf(line[First(at(path))]).session.at[path]
    BY <2>1, SettingOfNearest
  <2> QED BY <2>2, <2>3
<1>3. ASSUME NEW path \in DOMAIN agents[name].session
      PROVE  \E n \in ToSet(line) : Sets(FileOf(n), path)
  <2>1. at(path) # {}
    BY SettingOfNearest
  <2> QED BY <1>1, <2>1 DEF ToSet
<1> QED BY <1>2, <1>3 DEF SettingsInherited, NearestOf, Somebody

\* Texts in their order, the one of the farthest agent first.
From(said, i) == {j \in said : j >= i}
InOrder(content, text, said, texts) ==
  /\ content \in Seq(texts) /\ Len(content) = Cardinality(said)
  /\ \A i \in said : content[Cardinality(From(said, i))] = text[i]

\* A text of a nearer agent goes after those of the farther ones.
LEMMA AddedLast ==
  ASSUME NEW content, NEW text, NEW said \in SUBSET Nat, NEW texts, IsFiniteSet(said),
         InOrder(content, text, said, texts), NEW i \in Nat, \A j \in said : i < j,
         text[i] \in texts
  PROVE  InOrder(Append(content, text[i]), text, said \cup {i}, texts)
<1> DEFINE more == said \cup {i}
           longer == Append(content, text[i])
<1>1. content \in Seq(texts) /\ Len(content) = Cardinality(said)
  BY DEF InOrder
<1>2. i \notin said
  OBVIOUS
<1>3. IsFiniteSet(more) /\ Cardinality(more) = Cardinality(said) + 1
  BY <1>2, FS_AddElement
<1>4. longer \in Seq(texts) /\ Len(longer) = Len(content) + 1
  BY <1>1
<1>5. ASSUME NEW j \in more PROVE longer[Cardinality(From(more, j))] = text[j]
  <2>1. CASE j = i
    <3>1. From(more, j) = more
      <4>1. \A k \in more : k >= j
        BY <2>1
      <4> QED BY <4>1 DEF From
    <3>2. longer[Len(content) + 1] = text[i]
      BY <1>1
    <3> QED BY <1>1, <1>3, <2>1, <3>1, <3>2
  <2>2. CASE j # i
    <3>1. j \in said /\ From(more, j) = From(said, j)
      BY <2>2 DEF From
    <3>2. From(said, j) \in SUBSET said /\ j \in From(said, j)
      BY <3>1 DEF From
    <3>3. IsFiniteSet(From(said, j)) /\ Cardinality(From(said, j)) <= Cardinality(said)
      BY <3>2, FS_Subset
    <3>4. Cardinality(From(said, j)) \in Nat /\ Cardinality(From(said, j)) # 0
      BY <3>2, <3>3, FS_CardinalityType, FS_EmptySet
    <3>5. Cardinality(From(said, j)) \in 1..Len(content)
      <4>1. Len(content) \in Nat
        BY <1>1
      <4> QED BY <1>1, <3>3, <3>4, <4>1
    <3>6. content[Cardinality(From(said, j))] = text[j]
      BY <3>1 DEF InOrder
    <3>7. \A k \in 1..Len(content) : longer[k] = content[k]
      BY <1>1
    <3> QED BY <3>1, <3>5, <3>6, <3>7
  <2> QED BY <2>1, <2>2
<1> QED BY <1>1, <1>3, <1>4, <1>5 DEF InOrder

\* A text alone is in order.
LEMMA OnlyText ==
  ASSUME NEW text, NEW i \in Nat, NEW texts, text[i] \in texts
  PROVE  InOrder(<<text[i]>>, text, {i}, texts)
<1>1. From({i}, i) = {i}
  BY DEF From
<1>2. Cardinality({i}) = 1
  BY FS_Singleton
<1>3. <<text[i]>> \in Seq(texts) /\ Len(<<text[i]>>) = 1
  OBVIOUS
<1> QED BY <1>1, <1>2, <1>3 DEF InOrder

\* Those whose text counts, of the agents from a place in the line on.
Spoken(says, replaces, last, i) == {k \in i..last : k \in says /\ \A j \in i..(k - 1) : j \notin replaces}

\* The instructions are those of the whole line, the root's first, or those
\* since the agent that replaces.
LEMMA InstructionsOfLine ==
  ASSUME agents = ResolveRecipe(recipe), agents # <<>>, NEW name \in DOMAIN agents
  PROVE  InstructionsInherited(name)
<1> DEFINE line == Line(name)
           last == Len(line)
           over == Above(name)
           system(i) == FileOf(line[i]).system
           parsed(i) == ParseInstructions(system(i))
           says == {i \in 1..last : system(i).shape # "none"}
           replaces == {i \in says : system(i).mode = "replace"}
           text == [i \in 1..last |-> Trim(system(i).content)]
           texts == {text[i] : i \in 1..last}
           said(i) == Spoken(says, replaces, last, i)
           Good(i) == InOrder(over[i].system.content, text, said(i), texts)
           T == {n \in Nat : n <= last => Good(last + 1 - n)}
<1>1. /\ line \in Seq(DOMAIN agents) /\ agents[name] = over[1] /\ over[last + 1] = Bare
      /\ \A i \in 1..last : over[i] = Overlay(over[i + 1], ParseFile(FileOf(line[i])))
  BY AgentLine
<1> HIDE DEF line, over
<1>2. last \in Nat /\ DOMAIN line = 1..last
  BY <1>1
<1> HIDE DEF last
<1>3. says \in SUBSET (1..last) /\ replaces \in SUBSET says /\ \A i \in 1..last : text[i] \in texts
  OBVIOUS
<1>4. ASSUME NEW i \in 1..last
      PROVE  /\ i \notin says => over[i].system.content = over[i + 1].system.content
             /\ i \in replaces => over[i].system.content = <<text[i]>>
             /\ i \in says \ replaces =>
                  over[i].system.content = Append(over[i + 1].system.content, text[i])
  <2>1. over[i] = Overlay(over[i + 1], ParseFile(FileOf(line[i])))
    BY <1>1
  <2>2. over[i].system = MergeInstructions(over[i + 1].system, parsed(i))
    BY <2>1 DEF Overlay, ParseFile
  <2>3. /\ text[i] = parsed(i).content
        /\ parsed(i).shape = system(i).shape /\ parsed(i).mode = system(i).mode
    BY DEF ParseInstructions
  <2> HIDE DEF parsed
  <2>4. ASSUME system(i).shape = "none" PROVE over[i].system.content = over[i + 1].system.content
    BY <2>2, <2>3, <2>4 DEF MergeInstructions
  <2>5. ASSUME system(i).shape # "none", system(i).mode = "replace"
        PROVE  over[i].system.content = <<text[i]>>
    BY <2>2, <2>3, <2>5 DEF MergeInstructions
  <2>6. ASSUME system(i).shape # "none", system(i).mode # "replace"
        PROVE  over[i].system.content = Append(over[i + 1].system.content, text[i])
    BY <2>2, <2>3, <2>6 DEF MergeInstructions
  <2> QED BY <2>4, <2>5, <2>6
<1> HIDE DEF says, replaces, text, texts
<1>5. Good(last + 1)
  <2>1. over[last + 1].system.content = <<>>
    BY <1>1 DEF Bare
  <2>2. said(last + 1) = {}
    BY <1>2 DEF Spoken
  <2>3. Cardinality({}) = 0
    BY FS_EmptySet
  <2>4. <<>> \in Seq(texts) /\ Len(<<>>) = 0
    OBVIOUS
  <2> QED BY <2>1, <2>2, <2>3, <2>4 DEF InOrder
<1>6. ASSUME NEW i \in 1..last, Good(i + 1) PROVE Good(i)
  <2>1. CASE i \notin says
    <3>1. said(i) = said(i + 1)
      BY <1>2, <1>3, <2>1 DEF Spoken
    <3> QED BY <1>4, <1>6, <2>1, <3>1
  <2>2. CASE i \in replaces
    <3>1. said(i) = {i}
      BY <1>2, <1>3, <2>2 DEF Spoken
    <3>2. over[i].system.content = <<text[i]>>
      BY <1>4, <2>2
    <3>4. i \in Nat /\ text[i] \in texts
      BY <1>2, <1>3
    <3>3. InOrder(<<text[i]>>, text, {i}, texts)
      BY <3>4, OnlyText
    <3> QED BY <3>1, <3>2, <3>3
  <2>3. CASE i \in says /\ i \notin replaces
    <3>1. said(i) = said(i + 1) \cup {i}
      BY <1>2, <1>3, <2>3 DEF Spoken
    <3>2. said(i + 1) \in SUBSET (1..last) /\ \A j \in said(i + 1) : i < j
      BY <1>2 DEF Spoken
    <3> DEFINE rest == said(i + 1)
               base == over[i + 1].system.content
    <3>4. rest \in SUBSET Nat /\ \A j \in rest : i < j
      BY <1>2, <3>2
    <3>5. InOrder(base, text, rest, texts)
      BY <1>6
    <3>7. rest \in SUBSET (1..last)
      BY <3>2
    <3> HIDE DEF rest, base
    <3>8. IsFiniteSet(1..last)
      BY <1>2, FS_Interval
    <3>3. IsFiniteSet(rest)
      BY <3>7, <3>8, FS_Subset
    <3>9. i \in Nat /\ text[i] \in texts
      BY <1>2, <1>3
    <3>6. InOrder(Append(base, text[i]), text, rest \cup {i}, texts)
      BY <3>3, <3>4, <3>5, <3>9, AddedLast
    <3> QED BY <1>4, <2>3, <3>1, <3>6 DEF rest, base
  <2> QED BY <2>1, <2>2, <2>3
<1> HIDE DEF Good
<1>7. 0 \in T
  BY <1>2, <1>5
<1>8. ASSUME NEW n \in Nat, n \in T PROVE n + 1 \in T
  <2> SUFFICES ASSUME n + 1 <= last PROVE Good(last - n)
    BY <1>2
  <2>1. last - n \in 1..last /\ Good((last - n) + 1)
    BY <1>2, <1>8
  <2> QED BY <1>6, <2>1
<1>9. \A n \in Nat : n \in T
  <2> HIDE DEF T
  <2> QED BY <1>7, <1>8, Induction
<1>10. Good(1)
  <2>1. last \in T
    BY <1>2, <1>9
  <2> QED BY <1>2, <2>1
<1>11. InOrder(agents[name].system.content, text, said(1), texts)
  BY <1>1, <1>10 DEF Good
<1>12. said(1) = {i \in DOMAIN line : /\ system(i).shape # "none"
                                     /\ \A j \in 1..(i - 1) :
                                          ~(system(j).shape # "none" /\ system(j).mode = "replace")}
  BY <1>2, <1>3 DEF Spoken, says, replaces
<1>13. \A i \in said(1) : text[i] = Trim(system(i).content)
  BY DEF Spoken, text
<1> DEFINE mine == said(1)
<1>14. mine = {i \in DOMAIN line : /\ system(i).shape # "none"
                                  /\ \A j \in 1..(i - 1) :
                                       ~(system(j).shape # "none" /\ system(j).mode = "replace")}
  BY <1>12
<1>15. /\ Len(agents[name].system.content) = Cardinality(mine)
       /\ \A i \in mine : agents[name].system.content[Cardinality({j \in mine : j >= i})] =
                            Trim(system(i).content)
  BY <1>11, <1>13 DEF InOrder, From
<1> HIDE DEF mine
<1> QED BY <1>14, <1>15 DEF InstructionsInherited, line

\* A resolved Recipe is as its line says, field by field.
LEMMA InvInherited == IInv => ResolvedAsInherited
<1> SUFFICES ASSUME IInv, NEW name \in DOMAIN agents
             PROVE  /\ ModelInherited(name) /\ OptionsInherited(name) /\ ProvidersInherited(name)
                    /\ ListsInherited(name) /\ SettingsInherited(name) /\ InstructionsInherited(name)
  BY DEF ResolvedAsInherited
<1>1. agents # <<>>
  OBVIOUS
<1>2. agents = ResolveRecipe(recipe)
  BY <1>1 DEF IInv, UpToDate
<1> QED BY <1>1, <1>2, ModelOfNearest, OptionsOfNearest, ProvidersOfNearest, ListsOfNearest,
           SettingsOfNearest, InstructionsOfLine

\* Whatever Recipe is resolved, what an agent comes to is what the nearest agent
\* of its line says, field by field, however long the line is.
THEOREM InheritedAsWritten == Spec => []ResolvedAsInherited
  BY RecipeInvariant, InvInherited, PTL

-----------------------------------------------------------------------------
\* A change of the tree, which remains one.
With(f, k, value) == [x \in DOMAIN f \cup {k} |-> IF x = k THEN value ELSE f[x]]
Sub(f, k) == IF k \in DOMAIN f THEN f[k] ELSE <<>>

IsOld(tree, at, old) == old = [i \in 1..Len(at) |-> IF i = 1 THEN tree ELSE Sub(old[i - 1], at[i - 1])]
Old(tree, at) == CHOOSE old : IsOld(tree, at, old)
IsNew(old, at, value, new) ==
  new = [i \in 1..(Len(at) + 1) |-> IF i > Len(at) THEN value ELSE With(old[i], at[i], new[i + 1])]
New(old, at, value) == CHOOSE new : IsNew(old, at, value, new)

\* An edit, from the place it is made back to the root of the tree.
LEMMA EditedIsNew ==
  ASSUME NEW tree, NEW at, NEW value
  PROVE  Edited(tree, at, value) = New(Old(tree, at), at, value)[1]
BY DEF Edited, New, Old, IsNew, IsOld, With, Sub

\* An edit of one entry of package.json, of one file or of one skill.
LEMMA EditedByTwo ==
  ASSUME NEW tree, NEW at, Len(at) = 2, NEW value
  PROVE  Edited(tree, at, value) = With(tree, at[1], With(Sub(tree, at[1]), at[2], value))
<1> DEFINE o == [i \in 1..2 |-> IF i = 1 THEN tree ELSE Sub(tree, at[1])]
           old == Old(tree, at)
           n2 == With(Sub(tree, at[1]), at[2], value)
           n == [i \in 1..3 |-> IF i = 3 THEN value ELSE IF i = 2 THEN n2 ELSE With(tree, at[1], n2)]
           new == New(old, at, value)
<1>1. IsOld(tree, at, old)
  <2>1. IsOld(tree, at, o)
    BY DEF IsOld
  <2> QED BY <2>1 DEF Old
<1>2. old[1] = tree /\ old[2] = Sub(tree, at[1])
  <2> HIDE DEF old
  <2>1. \A i \in 1..2 : old[i] = IF i = 1 THEN tree ELSE Sub(old[i - 1], at[i - 1])
    BY <1>1 DEF IsOld
  <2> QED BY <2>1
<1> HIDE DEF old
<1>3. IsNew(old, at, value, new)
  <2>1. IsNew(old, at, value, n)
    BY <1>2 DEF IsNew
  <2> QED BY <2>1 DEF New
<1> HIDE DEF new
<1>4. \A i \in 1..3 : new[i] = IF i > 2 THEN value ELSE With(old[i], at[i], new[i + 1])
  BY <1>3 DEF IsNew
<1>5. new[3] = value /\ new[2] = With(old[2], at[2], new[3]) /\ new[1] = With(old[1], at[1], new[2])
  BY <1>4
<1>6. Edited(tree, at, value) = new[1]
  BY EditedIsNew DEF new, old
<1> QED BY <1>2, <1>5, <1>6

\* An edit of one field of a file.
LEMMA EditedByThree ==
  ASSUME NEW tree, NEW at, Len(at) = 3, NEW value
  PROVE  Edited(tree, at, value) =
           With(tree, at[1], With(Sub(tree, at[1]), at[2],
                                  With(Sub(Sub(tree, at[1]), at[2]), at[3], value)))
<1> DEFINE a == Sub(tree, at[1])
           b == Sub(a, at[2])
           o == [i \in 1..3 |-> IF i = 1 THEN tree ELSE IF i = 2 THEN a ELSE b]
           old == Old(tree, at)
           n3 == With(b, at[3], value)
           n2 == With(a, at[2], n3)
           n == [i \in 1..4 |-> IF i = 4 THEN value ELSE IF i = 3 THEN n3
                                ELSE IF i = 2 THEN n2 ELSE With(tree, at[1], n2)]
           new == New(old, at, value)
<1>1. IsOld(tree, at, old)
  <2>1. IsOld(tree, at, o)
    <3> HIDE DEF a, b
    <3>1. Sub(tree, at[1]) = a /\ Sub(a, at[2]) = b
      BY DEF a, b
    <3> QED BY <3>1 DEF IsOld
  <2> QED BY <2>1 DEF Old
<1>2. old[1] = tree /\ old[2] = a /\ old[3] = b
  <2> HIDE DEF old
  <2>1. \A i \in 1..3 : old[i] = IF i = 1 THEN tree ELSE Sub(old[i - 1], at[i - 1])
    BY <1>1 DEF IsOld
  <2> QED BY <2>1
<1> HIDE DEF old, a, b
<1>3. IsNew(old, at, value, new)
  <2>1. IsNew(old, at, value, n)
    <3> HIDE DEF n3, n2
    <3>1. n3 = With(b, at[3], value) /\ n2 = With(a, at[2], n3)
      BY DEF n3, n2
    <3> QED BY <1>2, <3>1 DEF IsNew
  <2> QED BY <2>1 DEF New
<1> HIDE DEF new
<1>4. \A i \in 1..4 : new[i] = IF i > 3 THEN value ELSE With(old[i], at[i], new[i + 1])
  BY <1>3 DEF IsNew
<1>5. /\ new[4] = value /\ new[3] = With(old[3], at[3], new[4])
      /\ new[2] = With(old[2], at[2], new[3]) /\ new[1] = With(old[1], at[1], new[2])
  BY <1>4
<1>6. Edited(tree, at, value) = new[1]
  BY EditedIsNew DEF new, old
<1> QED BY <1>2, <1>5, <1>6 DEF a, b

Holds(file) == IsFile(file) /\ file.present
Fits(key, value) ==
  key # "present" /\ (key \in BlockFields => IsBlock(value)) /\ (key = "mcp" => IsMcp(value))

\* A file of which one field is changed is a file.
LEMMA FileChanged ==
  ASSUME NEW file, Holds(file), NEW key, NEW value, Fits(key, value)
  PROVE  IsFile(With(file, key, value))
<1> DEFINE new == With(file, key, value)
<1>1. \A x \in DOMAIN file : x \in DOMAIN new /\ (x # key => new[x] = file[x])
  BY DEF With
<1>2. new[key] = value
  BY DEF With
<1> HIDE DEF new
<1> USE DEF Holds, Fits
<1>3. "present" \in DOMAIN new /\ BlockFields \cup {"mcp"} \subseteq DOMAIN new
  BY <1>1 DEF IsFile
<1>4. \A k \in BlockFields : IsBlock(new[k])
  BY <1>1, <1>2 DEF IsFile
<1>5. IsMcp(new.mcp)
  BY <1>1, <1>2 DEF IsFile
<1>6. IsFile(new)
  BY <1>3, <1>4, <1>5 DEF IsFile
<1> QED BY <1>6 DEF new

\* An edit of a tree makes a tree.
LEMMA EditedTree ==
  ASSUME NEW tree, IsTree(tree), NEW edit, IsEdit(edit),
         edit.at[1] = "files" /\ Len(edit.at) > 2 => tree.files[edit.at[2]].present
  PROVE  IsTree(Edited(tree, edit.at, edit.value))
<1> DEFINE new == Edited(tree, edit.at, edit.value)
           a == edit.at[1]
           b == edit.at[2]
           c == edit.at[3]
           part == Sub(tree, a)
           inner == IF Len(edit.at) = 2 THEN edit.value ELSE With(Sub(part, b), c, edit.value)
<1>1. new = With(tree, a, With(part, b, inner))
  <2>1. CASE Len(edit.at) = 2
    BY <2>1, EditedByTwo
  <2>2. CASE Len(edit.at) = 3
    BY <2>2, EditedByThree
  <2> QED BY <2>1, <2>2 DEF IsEdit
<1>2. a \in {"pkg", "files", "skills"} /\ part = tree[a]
  BY DEF IsTree, IsEdit, Sub
<1>3. /\ {"pkg", "files", "skills"} \subseteq DOMAIN new
      /\ \A x \in {"pkg", "files", "skills"} : x # a => new[x] = tree[x]
      /\ new[a] = With(part, b, inner)
  <2> HIDE DEF new, inner, part, a, b
  <2>1. {"pkg", "files", "skills"} \subseteq DOMAIN tree
    BY DEF IsTree
  <2> QED BY <1>1, <2>1 DEF With
<1>4. /\ \A x \in DOMAIN tree[a] : x \in DOMAIN new[a] /\ (x # b => new[a][x] = tree[a][x])
      /\ b \in DOMAIN new[a] /\ new[a][b] = inner
  <2> HIDE DEF new, inner, part, a, b
  <2> QED BY <1>2, <1>3 DEF With
<1>5. a = "pkg" => \A key \in {"agents", "skills"} : key = b => IsPatterns(inner)
  BY DEF IsEdit
<1>6. a = "pkg" /\ b = "servers" => IsServers(inner)
  BY DEF IsEdit
<1>7. ASSUME a = "files", b \in AgentFiles PROVE IsFile(inner)
  <2>1. CASE Len(edit.at) = 2
    BY <1>7, <2>1 DEF IsEdit
  <2>2. CASE Len(edit.at) = 3
    <3>1. b \in DOMAIN tree.files /\ IsFile(tree.files[b]) /\ tree.files[b].present
      BY <1>7, <2>2 DEF IsTree
    <3>2. Sub(part, b) = tree.files[b]
      BY <1>2, <1>7, <3>1 DEF Sub
    <3>3. /\ c # "present"
          /\ c \in BlockFields => IsBlock(edit.value)
          /\ c = "mcp" => IsMcp(edit.value)
      BY <1>7, <2>2 DEF IsEdit
    <3>4. IsFile(With(tree.files[b], c, edit.value))
      <4> DEFINE file == tree.files[b]
                 value == edit.value
      <4>1. Holds(file)
        BY <3>1 DEF Holds
      <4>2. Fits(c, value)
        BY <3>3 DEF Fits
      <4> HIDE DEF file, value, c
      <4>3. IsFile(With(file, c, value))
        BY <4>1, <4>2, FileChanged
      <4> QED BY <4>3 DEF file, value
    <3> QED BY <2>2, <3>2, <3>4
  <2> QED BY <2>1, <2>2 DEF IsEdit
<1> HIDE DEF new, inner, part, a, b
<1>8. \A key \in {"agents", "skills"} : key \in DOMAIN new.pkg /\ IsPatterns(new.pkg[key])
  <2> TAKE key \in {"agents", "skills"}
  <2>1. key \in DOMAIN tree.pkg /\ IsPatterns(tree.pkg[key])
    BY DEF IsTree
  <2> QED BY <1>3, <1>4, <1>5, <2>1
<1>9. \A f \in AgentFiles : f \in DOMAIN new.files /\ IsFile(new.files[f])
  <2> TAKE f \in AgentFiles
  <2>1. f \in DOMAIN tree.files /\ IsFile(tree.files[f])
    BY DEF IsTree
  <2> QED BY <1>3, <1>4, <1>7, <2>1
<1>10. "servers" \in DOMAIN new.pkg /\ IsServers(new.pkg.servers)
  <2>1. "servers" \in DOMAIN tree.pkg /\ IsServers(tree.pkg.servers)
    BY DEF IsTree
  <2> QED BY <1>3, <1>4, <1>6, <2>1
<1>11. IsTree(new)
  BY <1>3, <1>8, <1>9, <1>10 DEF IsTree
<1> QED BY <1>11 DEF new

\* Whatever is edited, in whatever order, the Recipe is a tree.
LEMMA TreeKept == Spec => []IsTree(recipe)
<1>1. Init => IsTree(recipe)
  BY TreesAssumption DEF Init
<1>2. IsTree(recipe) /\ [Next]_vars => IsTree(recipe)'
  <2> SUFFICES ASSUME IsTree(recipe), [Next]_vars PROVE IsTree(recipe')
    OBVIOUS
  <2>1. CASE Edit
    <3>1. PICK edit \in Edits : Applies(edit) /\ recipe' = Edited(recipe, edit.at, edit.value)
      BY <2>1 DEF Edit
    <3>2. IsEdit(edit)
      BY TreesAssumption
    <3> QED BY <3>1, <3>2, EditedTree DEF Applies
  <2>2. CASE Check \/ Resolve \/ StartSession \/ Use
    BY <2>2 DEF Check, Resolve, StartSession, Use
  <2>3. CASE UNCHANGED vars
    BY <2>3 DEF vars
  <2> QED BY <2>1, <2>2, <2>3 DEF Next
<1> QED BY <1>1, <1>2, PTL DEF Spec

-----------------------------------------------------------------------------
\* What a pattern matches, name by name from its end.
Starts(pattern, path, i, open, rest) ==
  IF pattern[i] = "**" THEN
    IF i = Len(pattern) THEN open ELSE {j \in 1..(Len(path) + 1) : \E k \in rest : j <= k}
  ELSE {j \in 1..Len(path) : pattern[i] \in {"*", path[j]} /\ j + 1 \in rest}

End(path) == {Len(path) + 1}
IsMatch(pattern, path, open, starts, first) ==
  starts = [i \in first..(Len(pattern) + 1) |->
              IF i > Len(pattern) THEN End(path)
              ELSE Starts(pattern, path, i, open, starts[i + 1])]
Match(pattern, path, open) == CHOOSE starts : IsMatch(pattern, path, open, starts, 1)

\* From every name of a pattern there are the places where its match may
\* start.
LEMMA MatchExists ==
  ASSUME NEW pattern, Len(pattern) \in Nat, NEW path, NEW open
  PROVE  \E starts : IsMatch(pattern, path, open, starts, 1)
<1> DEFINE T == {n \in Nat : n <= Len(pattern) =>
                   \E starts : IsMatch(pattern, path, open, starts, Len(pattern) + 1 - n)}
<1>1. 0 \in T
  <2> DEFINE starts == [i \in (Len(pattern) + 1)..(Len(pattern) + 1) |-> End(path)]
  <2>1. IsMatch(pattern, path, open, starts, Len(pattern) + 1)
    BY DEF IsMatch
  <2> QED BY <2>1
<1>2. ASSUME NEW n \in Nat, n \in T PROVE n + 1 \in T
  <2> SUFFICES ASSUME n + 1 <= Len(pattern)
               PROVE  \E starts : IsMatch(pattern, path, open, starts, Len(pattern) - n)
    OBVIOUS
  <2>1. PICK starts : IsMatch(pattern, path, open, starts, Len(pattern) + 1 - n)
    BY <1>2
  <2> DEFINE at == Len(pattern) - n
             more == [i \in at..(Len(pattern) + 1) |->
                        IF i = at THEN Starts(pattern, path, at, open, starts[at + 1]) ELSE starts[i]]
  <2>2. IsMatch(pattern, path, open, more, at)
    <3>1. ASSUME NEW i \in at..(Len(pattern) + 1)
          PROVE  more[i] = IF i > Len(pattern) THEN End(path)
                           ELSE Starts(pattern, path, i, open, more[i + 1])
      <4>1. at \in 1..Len(pattern) /\ at + 1 = Len(pattern) + 1 - n
        OBVIOUS
      <4>2. \A j \in (at + 1)..(Len(pattern) + 1) :
              starts[j] = IF j > Len(pattern) THEN End(path)
                          ELSE Starts(pattern, path, j, open, starts[j + 1])
        BY <2>1, <4>1 DEF IsMatch
      <4>3. CASE i = at
        BY <4>1, <4>3
      <4>4. CASE i # at
        <5>1. i \in (at + 1)..(Len(pattern) + 1) /\ more[i] = starts[i]
          BY <4>1, <4>4
        <5>2. i <= Len(pattern) => more[i + 1] = starts[i + 1]
          BY <4>1, <5>1
        <5> QED BY <4>2, <5>1, <5>2
      <4> QED BY <4>3, <4>4
    <3>2. QED BY <3>1 DEF IsMatch
  <2> QED BY <2>2
<1>3. \A n \in Nat : n \in T
  <2> HIDE DEF T
  <2> QED BY <1>1, <1>2, Induction
<1> QED BY <1>3

\* Every pattern ends somewhere: "last" is the number of its names.
EntryStarts(pattern, path) == Match(pattern, path, 1..Len(path))

\* globToRegExp of the runtime, by the places where a match may start.
LEMMA EntryMatchesAre ==
  ASSUME NEW pattern, Len(pattern) \in Nat, NEW path
  PROVE  EntryMatches(pattern, path) <=> 1 \in EntryStarts(pattern, path)[1]
BY DEF EntryMatches, EntryStarts, Match, IsMatch, Starts, End

GlobBefore(pattern, path, i, rest) ==
  IF pattern[i] = "**" THEN {j \in 1..(Len(path) + 1) : \E k \in rest : j <= k}
  ELSE {j \in 1..Len(path) : pattern[i] \in {"*", path[j]} /\ j + 1 \in rest}
IsGlobStarts(pattern, path, starts) ==
  starts = [i \in 1..(Len(pattern) + 1) |->
              IF i > Len(pattern) THEN End(path) ELSE GlobBefore(pattern, path, i, starts[i + 1])]
GlobStarts(pattern, path) == CHOOSE starts : IsGlobStarts(pattern, path, starts)

\* So is glob_match_parts of the checker.
LEMMA GlobMatchesAre ==
  ASSUME NEW pattern, Len(pattern) \in Nat, NEW path, Len(path) \in Nat
  PROVE  /\ GlobMatches(pattern, path) <=> 1 \in GlobStarts(pattern, path)[1]
         /\ IsGlobStarts(pattern, path, GlobStarts(pattern, path))
<1>1. GlobMatches(pattern, path) <=> 1 \in GlobStarts(pattern, path)[1]
  BY DEF GlobMatches, GlobStarts, IsGlobStarts, GlobBefore, End
<1> DEFINE open == 1..(Len(path) + 1)
<1>2. PICK starts : IsMatch(pattern, path, open, starts, 1)
  BY MatchExists
<1>3. IsGlobStarts(pattern, path, starts)
  <2>1. /\ starts[Len(pattern) + 1] = End(path)
        /\ starts = [i \in 1..(Len(pattern) + 1) |-> starts[i]]
    <3> HIDE DEF open
    <3> QED BY <1>2 DEF IsMatch
  <2>2. ASSUME NEW i \in 1..Len(pattern)
        PROVE  starts[i] = GlobBefore(pattern, path, i, starts[i + 1])
    <3>1. starts[i] = Starts(pattern, path, i, open, starts[i + 1])
      <4> HIDE DEF open
      <4> QED BY <1>2 DEF IsMatch
    <3> DEFINE rest == starts[i + 1]
    <3>2. i = Len(pattern) => rest = End(path)
      BY <2>1
    <3> HIDE DEF rest
    <3>3. CASE i = Len(pattern)
      <4>1. Starts(pattern, path, i, open, rest) = GlobBefore(pattern, path, i, rest)
        <5>1. pattern[i] = "**" => open = {j \in 1..(Len(path) + 1) : \E k \in rest : j <= k}
          BY <3>2, <3>3 DEF End
        <5> HIDE DEF open
        <5> QED BY <3>3, <5>1 DEF Starts, GlobBefore
      <4> QED BY <3>1, <4>1 DEF rest
    <3>4. CASE i # Len(pattern)
      <4>1. Starts(pattern, path, i, open, rest) = GlobBefore(pattern, path, i, rest)
        BY <3>4 DEF Starts, GlobBefore
      <4> QED BY <3>1, <4>1 DEF rest
    <3> QED BY <3>3, <3>4
  <2>3. ASSUME NEW i \in 1..(Len(pattern) + 1)
        PROVE  starts[i] = IF i > Len(pattern) THEN End(path)
                           ELSE GlobBefore(pattern, path, i, starts[i + 1])
    <3>1. CASE i \in 1..Len(pattern)
      BY <2>2, <3>1
    <3>2. CASE i = Len(pattern) + 1
      BY <2>1, <3>2
    <3> QED BY <3>1, <3>2
  <2> QED BY <2>1, <2>3 DEF IsGlobStarts
<1> QED BY <1>1, <1>3 DEF GlobStarts

\* From the end of a pattern, name by name, to its start.
LEMMA Downwards ==
  ASSUME NEW last \in Nat, NEW T, last + 1 \in T, \A i \in 1..last : i + 1 \in T => i \in T
  PROVE  \A i \in 1..(last + 1) : i \in T
<1> DEFINE U == {n \in Nat : n <= last => last + 1 - n \in T}
<1>1. 0 \in U
  OBVIOUS
<1>2. ASSUME NEW n \in Nat, n \in U PROVE n + 1 \in U
  <2> SUFFICES ASSUME n + 1 <= last PROVE last - n \in T
    OBVIOUS
  <2>1. last - n \in 1..last /\ (last - n) + 1 \in T
    BY <1>2
  <2> QED BY <2>1
<1>3. \A n \in Nat : n \in U
  <2> HIDE DEF U
  <2> QED BY <1>1, <1>2, Induction
<1>4. ASSUME NEW i \in 1..(last + 1) PROVE i \in T
  <2>1. last + 1 - i \in Nat /\ last + 1 - i <= last /\ last + 1 - (last + 1 - i) = i
    OBVIOUS
  <2>2. last + 1 - i \in U
    BY <1>3, <2>1
  <2> QED BY <2>1, <2>2
<1> QED BY <1>4

\* One name of the runtime's match.
LEMMA EntrySteps ==
  ASSUME NEW pattern, Len(pattern) \in Nat, NEW path
  PROVE  LET e == EntryStarts(pattern, path) IN
         /\ e[Len(pattern) + 1] = End(path)
         /\ \A i \in 1..Len(pattern) : e[i] = Starts(pattern, path, i, 1..Len(path), e[i + 1])
<1> DEFINE open == 1..Len(path)
           e == Match(pattern, path, open)
<1> HIDE DEF open
<1>1. IsMatch(pattern, path, open, e, 1)
  BY MatchExists DEF Match
<1> HIDE DEF e
<1>2. e[Len(pattern) + 1] = End(path)
  BY <1>1 DEF IsMatch
<1>3. ASSUME NEW i \in 1..Len(pattern) PROVE e[i] = Starts(pattern, path, i, open, e[i + 1])
  BY <1>1 DEF IsMatch
<1>4. /\ e[Len(pattern) + 1] = End(path)
      /\ \A i \in 1..Len(pattern) : e[i] = Starts(pattern, path, i, open, e[i + 1])
  BY <1>2, <1>3
<1> QED BY <1>4 DEF e, open, EntryStarts

\* One name of the checker's match.
LEMMA GlobSteps ==
  ASSUME NEW pattern, Len(pattern) \in Nat, NEW path, Len(path) \in Nat
  PROVE  LET g == GlobStarts(pattern, path) IN
         /\ g[Len(pattern) + 1] = End(path)
         /\ \A i \in 1..Len(pattern) : g[i] = GlobBefore(pattern, path, i, g[i + 1])
<1> DEFINE g == GlobStarts(pattern, path)
<1>1. IsGlobStarts(pattern, path, g)
  BY GlobMatchesAre
<1> HIDE DEF g
<1>2. g[Len(pattern) + 1] = End(path)
  BY <1>1 DEF IsGlobStarts
<1>3. ASSUME NEW i \in 1..Len(pattern) PROVE g[i] = GlobBefore(pattern, path, i, g[i + 1])
  BY <1>1 DEF IsGlobStarts
<1> QED BY <1>2, <1>3 DEF g

\* The runtime's patterns match what the checker's match.
LEMMA EntryIsGlob ==
  ASSUME NEW pattern, Len(pattern) \in Nat, NEW path, Len(path) \in Nat,
         EntryMatches(pattern, path)
  PROVE  GlobMatches(pattern, path)
<1> DEFINE e == EntryStarts(pattern, path)
           g == GlobStarts(pattern, path)
           last == Len(pattern)
           T == {i \in Nat : e[i] \subseteq g[i]}
<1>1. /\ e[last + 1] = End(path)
      /\ \A i \in 1..last : e[i] = Starts(pattern, path, i, 1..Len(path), e[i + 1])
  BY EntrySteps
<1>2. /\ g[last + 1] = End(path)
      /\ \A i \in 1..last : g[i] = GlobBefore(pattern, path, i, g[i + 1])
  BY GlobSteps
<1> HIDE DEF e, g
<1>3. last + 1 \in T
  BY <1>1, <1>2
<1>4. ASSUME NEW i \in 1..last, i + 1 \in T PROVE i \in T
  <2>1. e[i] = Starts(pattern, path, i, 1..Len(path), e[i + 1])
    BY <1>1
  <2>2. g[i] = GlobBefore(pattern, path, i, g[i + 1])
    BY <1>2
  <2>3. i = last => g[i + 1] = End(path)
    BY <1>2
  <2>4. e[i + 1] \subseteq g[i + 1]
    BY <1>4
  <2>5. ASSUME NEW j \in e[i] PROVE j \in g[i]
    <3>1. CASE pattern[i] = "**" /\ i = last
      BY <2>1, <2>2, <2>3, <2>5, <3>1 DEF Starts, GlobBefore, End
    <3>2. CASE pattern[i] = "**" /\ i # last
      BY <2>1, <2>2, <2>4, <2>5, <3>2 DEF Starts, GlobBefore
    <3>3. CASE pattern[i] # "**"
      BY <2>1, <2>2, <2>4, <2>5, <3>3 DEF Starts, GlobBefore
    <3> QED BY <3>1, <3>2, <3>3
  <2> QED BY <2>5
<1>5. \A i \in 1..(last + 1) : i \in T
  <2> HIDE DEF T
  <2> QED BY <1>3, <1>4, Downwards
<1>6. e[1] \subseteq g[1]
  BY <1>5
<1> QED BY <1>6, EntryMatchesAre, GlobMatchesAre DEF e, g

\* A name in a pattern is in the paths that it matches.
LEMMA GlobNames ==
  ASSUME NEW pattern, Len(pattern) \in Nat, NEW path, Len(path) \in Nat,
         GlobMatches(pattern, path)
  PROVE  \A k \in 1..Len(pattern) :
           pattern[k] \in {"*", "**"} \/ \E j \in 1..Len(path) : pattern[k] = path[j]
<1> DEFINE g == GlobStarts(pattern, path)
           last == Len(pattern)
           named(k) == pattern[k] \in {"*", "**"} \/ \E j \in 1..Len(path) : pattern[k] = path[j]
           T == {i \in Nat : g[i] # {} => \A k \in i..last : named(k)}
<1>1. /\ g[last + 1] = End(path)
      /\ \A i \in 1..last : g[i] = GlobBefore(pattern, path, i, g[i + 1])
  BY GlobSteps
<1> HIDE DEF g, named
<1>2. last + 1 \in T
  OBVIOUS
<1>3. ASSUME NEW i \in 1..last, i + 1 \in T PROVE i \in T
  <2> SUFFICES ASSUME g[i] # {} PROVE \A k \in i..last : named(k)
    OBVIOUS
  <2>1. g[i] = GlobBefore(pattern, path, i, g[i + 1])
    BY <1>1
  <2>2. g[i + 1] # {} /\ named(i)
    <3>1. CASE pattern[i] = "**"
      BY <2>1, <3>1 DEF GlobBefore, named
    <3>2. CASE pattern[i] # "**"
      BY <2>1, <3>2 DEF GlobBefore, named
    <3> QED BY <3>1, <3>2
  <2>3. \A k \in (i + 1)..last : named(k)
    BY <1>3, <2>2
  <2> QED BY <2>2, <2>3
<1>4. \A i \in 1..(last + 1) : i \in T
  <2> HIDE DEF T
  <2> QED BY <1>2, <1>3, Downwards
<1>5. 1 \in T /\ 1 \in g[1]
  BY <1>4, GlobMatchesAre DEF g
<1>6. \A k \in 1..last : named(k)
  BY <1>5
<1> QED BY <1>6 DEF named

\* Where only the checker's pattern matches, the runtime's matches whatever
\* is one name below.
LEMMA GlobIsEntryOrAbove ==
  ASSUME NEW pattern, Len(pattern) \in Nat, NEW path, Len(path) \in Nat,
         GlobMatches(pattern, path), ~EntryMatches(pattern, path),
         NEW below, Len(below) = Len(path) + 1, \A j \in 1..Len(path) : below[j] = path[j]
  PROVE  EntryMatches(pattern, below)
<1> DEFINE e == EntryStarts(pattern, path)
           b == EntryStarts(pattern, below)
           g == GlobStarts(pattern, path)
           last == Len(pattern)
<1>1. /\ e[last + 1] = End(path)
      /\ \A i \in 1..last : e[i] = Starts(pattern, path, i, 1..Len(path), e[i + 1])
  BY EntrySteps
<1>2. /\ g[last + 1] = End(path)
      /\ \A i \in 1..last : g[i] = GlobBefore(pattern, path, i, g[i + 1])
  BY GlobSteps
<1>3. \A i \in 1..last : b[i] = Starts(pattern, below, i, 1..Len(below), b[i + 1])
  BY EntrySteps
<1>4. 1 \in g[1] /\ ~(1 \in e[1]) /\ (1 \in b[1] <=> EntryMatches(pattern, below))
  BY EntryMatchesAre, GlobMatchesAre
<1> HIDE DEF e, g, b
<1>5. last > 0 /\ pattern[last] = "**"
  <2> SUFFICES ASSUME ~(last > 0 /\ pattern[last] = "**") PROVE FALSE
    OBVIOUS
  <2> DEFINE T == {i \in Nat : g[i] \subseteq e[i]}
  <2>1. last + 1 \in T
    BY <1>1, <1>2
  <2>2. ASSUME NEW i \in 1..last, i + 1 \in T PROVE i \in T
    <3>1. e[i] = Starts(pattern, path, i, 1..Len(path), e[i + 1])
      BY <1>1
    <3>2. g[i] = GlobBefore(pattern, path, i, g[i + 1])
      BY <1>2
    <3>3. ASSUME NEW j \in g[i] PROVE j \in e[i]
      <4>1. CASE pattern[i] = "**"
        <5>1. i # last
          BY <4>1
        <5> QED BY <2>2, <3>1, <3>2, <3>3, <4>1, <5>1 DEF Starts, GlobBefore
      <4>2. CASE pattern[i] # "**"
        BY <2>2, <3>1, <3>2, <3>3, <4>2 DEF Starts, GlobBefore
      <4> QED BY <4>1, <4>2
    <3> QED BY <3>3
  <2>3. \A i \in 1..(last + 1) : i \in T
    <3> HIDE DEF T
    <3> QED BY <2>1, <2>2, Downwards
  <2> QED BY <1>4, <2>3
<1>6. 1 \in b[1]
  <2> DEFINE T == {i \in Nat : i = last + 1 \/ g[i] \subseteq b[i]}
  <2>1. last + 1 \in T
    OBVIOUS
  <2>2. ASSUME NEW i \in 1..last, i + 1 \in T PROVE i \in T
    <3>1. b[i] = Starts(pattern, below, i, 1..Len(below), b[i + 1])
      BY <1>3
    <3>2. g[i] = GlobBefore(pattern, path, i, g[i + 1])
      BY <1>2
    <3>3. ASSUME NEW j \in g[i] PROVE j \in b[i]
      <4>1. CASE i = last
        BY <1>5, <3>1, <3>2, <3>3, <4>1 DEF Starts, GlobBefore
      <4>2. CASE i # last
        <5>1. g[i + 1] \subseteq b[i + 1]
          BY <2>2, <4>2
        <5>2. CASE pattern[i] = "**"
          BY <3>1, <3>2, <3>3, <4>2, <5>1, <5>2 DEF Starts, GlobBefore
        <5>3. CASE pattern[i] # "**"
          BY <3>1, <3>2, <3>3, <5>1, <5>3 DEF Starts, GlobBefore
        <5> QED BY <5>2, <5>3
      <4> QED BY <4>1, <4>2
    <3> QED BY <3>3
  <2>3. \A i \in 1..(last + 1) : i \in T
    <3> HIDE DEF T
    <3> QED BY <2>1, <2>2, Downwards
  <2> QED BY <1>4, <1>5, <2>3
<1> QED BY <1>4, <1>6

-----------------------------------------------------------------------------
\* The first name of a path of at most three.
LEMMA FirstName ==
  ASSUME NEW S, NEW s \in Seq(S), Len(s) \in {1, 2, 3}
  PROVE  SubSeq(s, 1, 1) = <<s[1]>>
<1>1. /\ SubSeq(s, 1, 1) \in Seq(S) /\ Len(SubSeq(s, 1, 1)) = 1
      /\ SubSeq(s, 1, 1)[1] = s[1]
  BY SubSeqProperties
<1> DEFINE t == SubSeq(s, 1, 1)
<1> HIDE DEF t
<1>2. t \in Seq(S) /\ Len(t) = 1 /\ t[1] = s[1]
  BY <1>1 DEF t
<1>3. t = <<s[1]>>
  BY <1>2
<1> QED BY <1>3 DEF t

\* Its first two.
LEMMA FirstNames ==
  ASSUME NEW S, NEW s \in Seq(S), Len(s) \in {2, 3}
  PROVE  SubSeq(s, 1, 2) = <<s[1], s[2]>>
<1>1. /\ SubSeq(s, 1, 2) \in Seq(S) /\ Len(SubSeq(s, 1, 2)) = 2
      /\ SubSeq(s, 1, 2)[1] = s[1] /\ SubSeq(s, 1, 2)[2] = s[2]
  BY SubSeqProperties
<1> DEFINE t == SubSeq(s, 1, 2)
<1> HIDE DEF t
<1>2. t \in Seq(S) /\ Len(t) = 2 /\ t[1] = s[1] /\ t[2] = s[2]
  BY <1>1 DEF t
<1>3. t = <<s[1], s[2]>>
  BY <1>2
<1> QED BY <1>3 DEF t

\* The directories that a path is in.
LEMMA PrefixOfPath ==
  \A a, b, c : /\ SubSeq(<<a>>, 1, 1) = <<a>> /\ SubSeq(<<a, b>>, 1, 1) = <<a>>
              /\ SubSeq(<<a, b>>, 1, 2) = <<a, b>>
              /\ SubSeq(<<a, b, c>>, 1, 1) = <<a>> /\ SubSeq(<<a, b, c>>, 1, 2) = <<a, b>>
<1> TAKE a, b, c
<1>1. <<a>> \in Seq({a}) /\ <<a, b>> \in Seq({a, b}) /\ <<a, b, c>> \in Seq({a, b, c})
  OBVIOUS
<1>2. SubSeq(<<a>>, 1, 1) = <<a>>
  <2>1. SubSeq(<<a>>, 1, 1) = <<<<a>>[1]>>
    BY <1>1, FirstName
  <2> QED BY <2>1
<1>3. SubSeq(<<a, b>>, 1, 1) = <<a>> /\ SubSeq(<<a, b>>, 1, 2) = <<a, b>>
  <2>1. SubSeq(<<a, b>>, 1, 1) = <<<<a, b>>[1]>>
    BY <1>1, FirstName
  <2>2. SubSeq(<<a, b>>, 1, 2) = <<<<a, b>>[1], <<a, b>>[2]>>
    BY <1>1, FirstNames
  <2> QED BY <2>1, <2>2
<1>4. SubSeq(<<a, b, c>>, 1, 1) = <<a>> /\ SubSeq(<<a, b, c>>, 1, 2) = <<a, b>>
  <2>1. SubSeq(<<a, b, c>>, 1, 1) = <<<<a, b, c>>[1]>>
    BY <1>1, FirstName
  <2>2. SubSeq(<<a, b, c>>, 1, 2) = <<<<a, b, c>>[1], <<a, b, c>>[2]>>
    BY <1>1, FirstNames
  <2> QED BY <2>1, <2>2
<1> QED BY <1>2, <1>3, <1>4

\* The paths of a tree.
AgentPath(f) == <<"agents", f>>
SkillPath(d) == <<"skills", d, "SKILL.md">>
SkillDir(d) == <<"skills", d>>
AgentsThere == {f \in AgentFiles : recipe.files[f].present}
SkillsThere == {d \in SkillDirs : recipe.skills[d] # "none"}

\* The files of a tree: those of agents, and a SKILL.md for a skill.
LEMMA FilesAre ==
  Files(recipe) = {AgentPath(f) : f \in AgentsThere} \cup {SkillPath(d) : d \in SkillsThere}
BY DEF Files, AgentPath, SkillPath, AgentsThere, SkillsThere

\* Its directories: agents, skills, and one for every skill.
LEMMA DirectoriesAre ==
  \A p : p \in Directories(recipe) <=>
           \/ p = <<"agents">> /\ AgentsThere # {}
           \/ p = <<"skills">> /\ SkillsThere # {}
           \/ \E d \in SkillsThere : p = SkillDir(d)
<1>1. \A f : /\ SubSeq(AgentPath(f), 1, 1) = <<"agents">>
             /\ SubSeq(AgentPath(f), 1, 2) = AgentPath(f)
  BY PrefixOfPath DEF AgentPath
<1>2. \A d : /\ SubSeq(SkillPath(d), 1, 1) = <<"skills">>
             /\ SubSeq(SkillPath(d), 1, 2) = SkillDir(d)
  BY PrefixOfPath DEF SkillPath, SkillDir
<1>3. \A n : n \in 1..2 <=> n = 1 \/ n = 2
  OBVIOUS
<1>4. \A f, d : /\ AgentPath(f) # SkillDir(d) /\ AgentPath(f) # <<"agents">>
                /\ AgentPath(f) # <<"skills">>
                /\ SkillPath(d) # <<"agents">> /\ SkillPath(d) # <<"skills">>
  BY DEF AgentPath, SkillPath, SkillDir
<1>5. \A d, e : SkillPath(d) # SkillDir(e)
  BY DEF SkillPath, SkillDir
<1>6. \A p : p \in Directories(recipe) <=>
        /\ \E q \in Files(recipe) : p = SubSeq(q, 1, 1) \/ p = SubSeq(q, 1, 2)
        /\ p \notin Files(recipe)
  BY <1>3 DEF Directories
<1>7. \A p : (\E q \in Files(recipe) : p = SubSeq(q, 1, 1) \/ p = SubSeq(q, 1, 2)) <=>
        \/ \E f \in AgentsThere : p = <<"agents">> \/ p = AgentPath(f)
        \/ \E d \in SkillsThere : p = <<"skills">> \/ p = SkillDir(d)
  BY <1>1, <1>2, FilesAre
<1> QED BY <1>4, <1>5, <1>6, <1>7, FilesAre

-----------------------------------------------------------------------------
\* A Recipe that the checker passes and that is none of the known ways in which
\* the two readers disagree.
Agreed ==
  IsTree(recipe) /\ PackageErrors(recipe) = {} /\ AgentsErrors(recipe) = {} /\ ~Overlooked

Keyed == {"agents", "skills"}

\* Without a diagnostic its condition does not hold.
LEMMA NoError == \A code, when : Error(code, when) = {} => ~when
BY DEF Error

\* A package.json without a diagnostic has none of any part .
LEMMA PackageParts ==
  ASSUME PackageErrors(recipe) = {}
  PROVE  /\ recipe.pkg.pi /\ recipe.pkg.name /\ ~recipe.pkg.odd
         /\ \A key \in Keyed : ResourceErrors(recipe, key) = {}
         /\ ChannelErrors(recipe.pkg.channels) = {}
         /\ ServerErrors(recipe.pkg) = {}
         /\ RuntimeErrors(recipe.pkg.runtime) = {}
<1>1. /\ Error("package.pi_missing", ~recipe.pkg.pi) = {}
      /\ Error("package.name_missing", ~recipe.pkg.name) = {}
      /\ Error("pi.unknown_key", recipe.pkg.odd) = {}
  BY DEF PackageErrors
<1>2. recipe.pkg.pi /\ recipe.pkg.name /\ ~recipe.pkg.odd
  BY <1>1 DEF Error
<1>3. \A key \in Keyed : ResourceErrors(recipe, key) = {}
  <2>1. UNION {ResourceErrors(recipe, key) : key \in {"agents", "skills"}} = {}
    BY DEF PackageErrors
  <2> QED BY <2>1 DEF Keyed
<1> DEFINE c == ChannelErrors(recipe.pkg.channels)
           s == ServerErrors(recipe.pkg)
           r == RuntimeErrors(recipe.pkg.runtime)
           others == Error("package.pi_missing", ~recipe.pkg.pi)
                       \cup Error("package.name_missing", ~recipe.pkg.name)
                       \cup DependencyErrors(recipe.pkg) \cup ExampleErrors(recipe.pkg)
                       \cup Error("pi.unknown_key", recipe.pkg.odd)
                       \cup UNION {ResourceErrors(recipe, key) : key \in {"agents", "skills"}}
<1>4. PackageErrors(recipe) = others \cup c \cup s \cup r
  BY DEF PackageErrors
<1> HIDE DEF c, s, r, others
<1>5. c = {} /\ s = {} /\ r = {}
  BY <1>4
<1> QED BY <1>2, <1>3, <1>5 DEF c, s, r

\* The resource patterns of such a package.json: no repetition, none that
\* leaves the Recipe, none without a match.
LEMMA PatternsFit ==
  ASSUME PackageErrors(recipe) = {}, NEW key \in Keyed
  PROVE  /\ recipe.pkg[key].shape # "bad"
         /\ Cardinality(ToSet(recipe.pkg[key].items)) = Len(recipe.pkg[key].items)
         /\ \A p \in Patterns(recipe, key) : ".." \notin ToSet(p) /\ PathMatches(recipe, p) # {}
         /\ key = "agents" => ResourcePaths(recipe, key) # {}
<1> DEFINE list == recipe.pkg[key]
<1>1. ResourceErrors(recipe, key) = {}
  BY PackageParts
<1>2. /\ Error("pi.resource_invalid", list.shape = "bad") = {}
      /\ Error("pi.resource_duplicate", Cardinality(ToSet(list.items)) # Len(list.items)) = {}
      /\ Error("package.resource_invalid", \E p \in Patterns(recipe, key) : ".." \in ToSet(p)) = {}
      /\ Error("package.resource_unmatched",
               \E p \in Patterns(recipe, key) : ".." \notin ToSet(p) /\ PathMatches(recipe, p) = {}) = {}
      /\ Error("package.agents_missing", key = "agents" /\ ResourcePaths(recipe, key) = {}) = {}
  BY <1>1 DEF ResourceErrors
<1>3. list.shape # "bad"
  BY <1>2 DEF Error
<1>4. Cardinality(ToSet(list.items)) = Len(list.items)
  BY <1>2 DEF Error
<1>5. ~\E p \in Patterns(recipe, key) : ".." \in ToSet(p)
  BY <1>2 DEF Error
<1>6. ~\E p \in Patterns(recipe, key) : ".." \notin ToSet(p) /\ PathMatches(recipe, p) = {}
  BY <1>2 DEF Error
<1>7. key = "agents" => ResourcePaths(recipe, key) # {}
  BY <1>2 DEF Error
<1> QED BY <1>3, <1>4, <1>5, <1>6, <1>7

\* What is one name below a directory.
Under1(p, below) == Len(below) = Len(p) + 1 /\ \A j \in 1..Len(p) : below[j] = p[j]
Known == Files(recipe) \cup Directories(recipe)

\* A path of the tree is finite, every directory has something in it, and no
\* name in a path is one of a step up or of the directory itself.
LEMMA KnownPaths ==
  ASSUME NEW p \in Known
  PROVE  /\ Len(p) \in Nat
         /\ p \in Directories(recipe) => \E below \in Known : Under1(p, below)
         /\ IsTree(recipe) => \A j \in 1..Len(p) : p[j] \notin {".", ".."}
<1>1. CASE p \in Files(recipe)
  <2>1. p \notin Directories(recipe)
    BY <1>1 DEF Directories
  <2>2. CASE \E f \in AgentsThere : p = AgentPath(f)
    <3>1. PICK f \in AgentsThere : p = AgentPath(f)
      BY <2>2
    <3>2. f \notin {".", ".."}
      BY <3>1, NamesAssumption DEF AgentsThere
    <3>3. Len(p) = 2 /\ p[1] = "agents" /\ p[2] = f
      BY <3>1 DEF AgentPath
    <3> QED BY <2>1, <3>2, <3>3
  <2>3. CASE \E d \in SkillsThere : p = SkillPath(d)
    <3>1. PICK d \in SkillsThere : p = SkillPath(d)
      BY <2>3
    <3>2. d \notin {".", ".."}
      BY <3>1, NamesAssumption DEF SkillsThere
    <3>3. Len(p) = 3 /\ p[1] = "skills" /\ p[2] = d /\ p[3] = "SKILL.md"
      BY <3>1 DEF SkillPath
    <3> QED BY <2>1, <3>2, <3>3
  <2> QED BY <1>1, <2>2, <2>3, FilesAre
<1>2. CASE p = <<"agents">> /\ AgentsThere # {}
  <2>1. PICK f \in AgentsThere : TRUE
    BY <1>2
  <2>2. AgentPath(f) \in Known
    BY FilesAre DEF Known
  <2>3. Under1(p, AgentPath(f))
    BY <1>2 DEF Under1, AgentPath
  <2> QED BY <1>2, <2>2, <2>3
<1>3. CASE p = <<"skills">> /\ SkillsThere # {}
  <2>1. PICK d \in SkillsThere : TRUE
    BY <1>3
  <2>2. SkillDir(d) \in Known
    BY DirectoriesAre DEF Known
  <2>3. Under1(p, SkillDir(d))
    BY <1>3 DEF Under1, SkillDir
  <2> QED BY <1>3, <2>2, <2>3
<1>4. CASE \E d \in SkillsThere : p = SkillDir(d)
  <2>1. PICK d \in SkillsThere : p = SkillDir(d)
    BY <1>4
  <2>2. SkillPath(d) \in Known
    BY FilesAre DEF Known
  <2>3. Under1(p, SkillPath(d))
    BY <2>1 DEF Under1, SkillPath, SkillDir
  <2>4. d \notin {".", ".."}
    BY NamesAssumption DEF SkillsThere
  <2>5. Len(p) = 2 /\ p[1] = "skills" /\ p[2] = d
    BY <2>1 DEF SkillDir
  <2> QED BY <2>2, <2>3, <2>4, <2>5
<1>5. p \in Files(recipe) \/ p \in Directories(recipe)
  BY DEF Known
<1> QED BY <1>1, <1>2, <1>3, <1>4, <1>5, DirectoriesAre

\* A pattern stands for the same files to both readers, or for what is right
\* below what the checker takes.
LEMMA PatternAgrees ==
  ASSUME IsTree(recipe), PackageErrors(recipe) = {}, ~EndsAtAFile, NEW key \in Keyed,
         NEW pattern \in ToSet(recipe.pkg[key].items)
  PROVE  /\ {".", ".."} \cap ToSet(pattern) = {}
         /\ EntriesOf(recipe, pattern) \subseteq PathMatches(recipe, pattern)
         /\ \A p \in Files(recipe) : p \in PathMatches(recipe, pattern) => p \in EntriesOf(recipe, pattern)
         /\ \A p, below \in Known :
              p \in PathMatches(recipe, pattern) /\ Under1(p, below) =>
                p \in EntriesOf(recipe, pattern) \/ below \in EntriesOf(recipe, pattern)
         /\ EntriesOf(recipe, pattern) # {}
<1>1. pattern \in Seq(STRING)
  BY DEF IsTree, IsPatterns, Keyed
<1>2. pattern \in Patterns(recipe, key)
  <2>1. Given(recipe.pkg[key])
    BY DEF IsTree, IsPatterns, IsList, Keyed, Given, ToSet
  <2> QED BY <2>1 DEF Patterns
<1>3. ".." \notin ToSet(pattern) /\ PathMatches(recipe, pattern) # {}
  BY <1>2, PatternsFit
<1>4. CASE ~IsGlob(pattern)
  <2>1. /\ EntriesOf(recipe, pattern) = {p \in Known : p = pattern}
        /\ PathMatches(recipe, pattern) = {p \in {pattern} : p \in Known}
    BY <1>4 DEF EntriesOf, PathMatches, Known, Exists
  <2>2. pattern \in Known
    BY <1>3, <2>1
  <2>3. "." \notin ToSet(pattern)
    BY <1>1, <2>2, KnownPaths DEF ToSet
  <2> QED BY <1>3, <2>1, <2>2, <2>3
<1>5. CASE IsGlob(pattern)
  <2>1. /\ EntriesOf(recipe, pattern) = {p \in Known : EntryMatches(pattern, p)}
        /\ PathMatches(recipe, pattern) = {p \in Known : GlobMatches(pattern, p)}
    BY <1>5 DEF EntriesOf, PathMatches, Known
  <2>2. Len(pattern) \in Nat /\ \A p \in Known : Len(p) \in Nat
    BY <1>1, KnownPaths
  <2>3. \A p \in Files(recipe) : GlobMatches(pattern, p) => EntryMatches(pattern, p)
    BY <1>5 DEF EndsAtAFile, Keyed
  <2>4. \A p \in Known : EntryMatches(pattern, p) => GlobMatches(pattern, p)
    BY <2>2, EntryIsGlob
  <2>5. \A p, below \in Known :
          GlobMatches(pattern, p) /\ Under1(p, below) => EntryMatches(pattern, p) \/ EntryMatches(pattern, below)
    BY <2>2, GlobIsEntryOrAbove DEF Under1
  <2>6. PICK q \in Known : GlobMatches(pattern, q)
    BY <1>3, <2>1
  <2>7. \E p \in Known : EntryMatches(pattern, p)
    <3>1. CASE q \in Files(recipe)
      BY <2>3, <2>6, <3>1
    <3>2. CASE q \in Directories(recipe)
      BY <2>5, <2>6, <3>2, KnownPaths
    <3> QED BY <3>1, <3>2 DEF Known
  <2>8. "." \notin ToSet(pattern)
    <3>1. \A k \in 1..Len(pattern) :
            pattern[k] \in {"*", "**"} \/ \E j \in 1..Len(q) : pattern[k] = q[j]
      BY <2>2, <2>6, GlobNames
    <3>2. \A j \in 1..Len(q) : q[j] # "."
      BY KnownPaths
    <3>3. \A k \in 1..Len(pattern) : pattern[k] # "."
      BY <3>1, <3>2
    <3> QED BY <1>1, <3>3 DEF ToSet
  <2> QED BY <1>3, <2>1, <2>3, <2>4, <2>5, <2>7, <2>8 DEF Known
<1> QED BY <1>4, <1>5

-----------------------------------------------------------------------------
\* So do all the patterns of a kind,.
LEMMA PathsAgree ==
  ASSUME IsTree(recipe), PackageErrors(recipe) = {}, ~EndsAtAFile, NEW key \in Keyed
  PROVE  LET checked == ResourcePaths(recipe, key)
             read == PackageResourcePaths(recipe, key) IN
         /\ ~ResourcesThrow(recipe, key)
         /\ checked \subseteq Known /\ read \subseteq checked
         /\ \A p \in Files(recipe) : p \in checked => p \in read
         /\ \A p, below \in Known : p \in checked /\ Under1(p, below) => p \in read \/ below \in read
<1> DEFINE checked == ResourcePaths(recipe, key)
           read == PackageResourcePaths(recipe, key)
           items == ToSet(recipe.pkg[key].items)
<1>1. checked = UNION {PathMatches(recipe, p) : p \in Patterns(recipe, key)}
  <2>1. {q \in Patterns(recipe, key) : ".." \notin ToSet(q)} = Patterns(recipe, key)
    BY PatternsFit
  <2> QED BY <2>1 DEF ResourcePaths
<1>2. \A p : PathMatches(recipe, p) \subseteq Known
  BY DEF PathMatches, Known, Exists
<1>3. checked \subseteq Known
  BY <1>1, <1>2
<1>4. CASE ~Given(recipe.pkg[key])
  <2>1. items = {}
    BY <1>4 DEF IsTree, IsPatterns, IsList, Keyed, Given, ToSet
  <2>2. read = {p \in {<<key>>} : p \in Known}
    BY <1>4 DEF PackageResourcePaths, Exists, Known
  <2>3. Patterns(recipe, key) = {p \in {<<key>>} : p \in Known}
    BY <1>4 DEF Patterns, Exists, Known
  <2>4. PathMatches(recipe, <<key>>) = {p \in {<<key>>} : p \in Known}
    <3>1. ~IsGlob(<<key>>)
      BY DEF IsGlob, ToSet, Keyed
    <3> QED BY <3>1 DEF PathMatches, Exists, Known
  <2>5. checked = read
    BY <1>1, <2>2, <2>3, <2>4
  <2>6. ~ResourcesThrow(recipe, key)
    BY <2>1 DEF ResourcesThrow
  <2> QED BY <1>3, <2>5, <2>6
<1>5. CASE Given(recipe.pkg[key])
  <2>1. Patterns(recipe, key) = items
    BY <1>5 DEF Patterns
  <2>2. read = UNION {EntriesOf(recipe, pattern) : pattern \in items}
    BY <1>5 DEF PackageResourcePaths
  <2>3. \A pattern \in items :
          /\ {".", ".."} \cap ToSet(pattern) = {}
          /\ EntriesOf(recipe, pattern) \subseteq PathMatches(recipe, pattern)
          /\ \A p \in Files(recipe) : p \in PathMatches(recipe, pattern) => p \in EntriesOf(recipe, pattern)
          /\ \A p, below \in Known :
               p \in PathMatches(recipe, pattern) /\ Under1(p, below) =>
                 p \in EntriesOf(recipe, pattern) \/ below \in EntriesOf(recipe, pattern)
          /\ EntriesOf(recipe, pattern) # {}
    BY PatternAgrees
  <2>4. ~ResourcesThrow(recipe, key)
    BY <2>3 DEF ResourcesThrow
  <2>5. read \subseteq checked
    BY <1>1, <2>1, <2>2, <2>3
  <2>6. \A p \in Files(recipe) : p \in checked => p \in read
    BY <1>1, <2>1, <2>2, <2>3
  <2>7. \A p, below \in Known : p \in checked /\ Under1(p, below) => p \in read \/ below \in read
    BY <1>1, <2>1, <2>2, <2>3
  <2> QED BY <1>3, <2>4, <2>5, <2>6, <2>7
<1> QED BY <1>4, <1>5

\* Of two names one is in a set.
LEMMA SomeOfTwo ==
  ASSUME NEW a, NEW b, NEW S
  PROVE  Cardinality({a, b} \cap S) > 0 <=> a \in S \/ b \in S
<1> DEFINE T == {a, b} \cap S
<1>1. IsFiniteSet({a, b}) 
  <2>1. IsFiniteSet({a} \cup {b}) /\ {a} \cup {b} = {a, b}
    BY FS_Singleton, FS_AddElement
  <2> QED BY <2>1
<1>2. IsFiniteSet(T)
  BY <1>1, FS_Intersection
<1>3. Cardinality(T) \in Nat /\ (Cardinality(T) = 0 <=> T = {})
  <2> HIDE DEF T
  <2> QED BY <1>2, FS_CardinalityType, FS_EmptySet
<1> QED BY <1>3

\* The files that the checker reads are those that the runtime reads.
LEMMA FilesAgree ==
  ASSUME IsTree(recipe), PackageErrors(recipe) = {}, ~Overlooked
  PROVE  /\ AgentFilesRead(recipe) = {f \in AgentFiles : AgentPath(f) \in AgentPaths(recipe)}
         /\ AgentPaths(recipe) = {AgentPath(f) : f \in AgentFilesRead(recipe)}
<1> DEFINE checked == ResourcePaths(recipe, "agents")
           read == PackageResourcePaths(recipe, "agents")
<1>1. ~EndsAtAFile /\ \A f \in RuntimeYamlFiles \ YamlFiles : ~(TimesRead(recipe, f) > 0)
  BY DEF Overlooked
<1>2. /\ read \subseteq checked
      /\ \A p \in Files(recipe) : p \in checked => p \in read
      /\ \A p, below \in Known : p \in checked /\ Under1(p, below) => p \in read \/ below \in read
      /\ checked \subseteq Known
  BY <1>1, PathsAgree DEF Keyed
<1> HIDE DEF checked, read
<1>3. \A f : /\ AgentPath(f)[Len(AgentPath(f))] = f
             /\ SubSeq(AgentPath(f), 1, Len(AgentPath(f)) - 1) = <<"agents">>
             /\ Under1(<<"agents">>, AgentPath(f))
  <2> TAKE f
  <2>1. Len(AgentPath(f)) = 2 /\ AgentPath(f)[2] = f
    BY DEF AgentPath
  <2>2. SubSeq(AgentPath(f), 1, 1) = <<"agents">>
    BY PrefixOfPath DEF AgentPath
  <2>3. Under1(<<"agents">>, AgentPath(f))
    BY DEF AgentPath, Under1
  <2> QED BY <2>1, <2>2, <2>3
<1>4. \A d : SkillPath(d)[Len(SkillPath(d))] = "SKILL.md"
  BY DEF SkillPath
<1>5. "SKILL.md" \notin YamlFiles /\ YamlFiles \subseteq RuntimeYamlFiles /\ YamlFiles \subseteq AgentFiles
  BY NamesAssumption, SourceAssumption
<1>6. \A p : p \in AgentPaths(recipe) <=>
        \E f \in AgentsThere : /\ p = AgentPath(f) /\ f \in YamlFiles
                               /\ AgentPath(f) \in checked \/ <<"agents">> \in checked
  <2>1. \A p : p \in AgentPaths(recipe) <=>
          /\ p \in Files(recipe) /\ p[Len(p)] \in YamlFiles
          /\ p \in checked \/ SubSeq(p, 1, Len(p) - 1) \in checked
    BY DEF AgentPaths, checked
  <2>2. ASSUME NEW p \in AgentPaths(recipe)
        PROVE  \E f \in AgentsThere : /\ p = AgentPath(f) /\ f \in YamlFiles
                                      /\ AgentPath(f) \in checked \/ <<"agents">> \in checked
    <3>1. p \in Files(recipe) /\ p[Len(p)] \in YamlFiles
      BY <2>1, <2>2
    <3>2. ~\E d \in SkillsThere : p = SkillPath(d)
      BY <1>4, <1>5, <3>1
    <3>3. PICK f \in AgentsThere : p = AgentPath(f)
      BY <3>1, <3>2, FilesAre
    <3>4. p[Len(p)] = f /\ SubSeq(p, 1, Len(p) - 1) = <<"agents">>
      BY <1>3, <3>3
    <3>5. p \in checked \/ SubSeq(p, 1, Len(p) - 1) \in checked
      BY <2>1, <2>2
    <3> QED BY <3>1, <3>3, <3>4, <3>5
  <2>3. ASSUME NEW f \in AgentsThere, f \in YamlFiles,
               AgentPath(f) \in checked \/ <<"agents">> \in checked
        PROVE  AgentPath(f) \in AgentPaths(recipe)
    <3> DEFINE p == AgentPath(f)
    <3>1. p \in Files(recipe)
      BY FilesAre
    <3>2. p[Len(p)] = f /\ SubSeq(p, 1, Len(p) - 1) = <<"agents">>
      BY <1>3
    <3> HIDE DEF p
    <3>3. p \in checked \/ SubSeq(p, 1, Len(p) - 1) \in checked
      BY <2>3, <3>2 DEF p
    <3>4. p \in AgentPaths(recipe)
      BY <2>1, <2>3, <3>1, <3>2, <3>3
    <3> QED BY <3>4 DEF p
  <2> QED BY <2>2, <2>3
<1>7. \A f \in AgentFiles : f \in AgentFilesRead(recipe) <=>
        f \in AgentsThere /\ f \in YamlFiles /\ (<<"agents">> \in read \/ AgentPath(f) \in read)
  <2> TAKE f \in AgentFiles
  <2>1. Cardinality({<<"agents">>, AgentPath(f)} \cap read) > 0 <=> <<"agents">> \in read \/ AgentPath(f) \in read
    BY SomeOfTwo
  <2>2. f \in AgentFilesRead(recipe) <=> TimesRead(recipe, f) > 0
    BY DEF AgentFilesRead
  <2>3. CASE f \in AgentsThere /\ f \in RuntimeYamlFiles
    <3>1. TimesRead(recipe, f) = Cardinality({<<"agents">>, AgentPath(f)} \cap read)
      BY <2>3 DEF TimesRead, AgentsThere, AgentPath, read
    <3> QED BY <1>1, <1>5, <2>1, <2>2, <2>3, <3>1
  <2>4. CASE ~(f \in AgentsThere /\ f \in RuntimeYamlFiles)
    <3>1. TimesRead(recipe, f) = 0
      BY <2>4 DEF TimesRead, AgentsThere
    <3> QED BY <1>5, <2>2, <2>4, <3>1
  <2> QED BY <2>3, <2>4
<1>8. \A f \in AgentsThere : AgentPath(f) \in Files(recipe) /\ AgentPath(f) \in Known
  BY FilesAre DEF Known
<1>9. \A f \in AgentsThere :
        AgentPath(f) \in checked \/ <<"agents">> \in checked
          <=> <<"agents">> \in read \/ AgentPath(f) \in read
  BY <1>2, <1>3, <1>8
<1>10. \A f, g : AgentPath(f) = AgentPath(g) => f = g
  BY DEF AgentPath
<1>11. AgentsThere \subseteq AgentFiles /\ AgentFilesRead(recipe) \subseteq AgentFiles
  BY DEF AgentsThere, AgentFilesRead
<1>12. \A f \in AgentFiles : f \in AgentFilesRead(recipe) <=> AgentPath(f) \in AgentPaths(recipe)
  BY <1>6, <1>7, <1>9, <1>10
<1>13. AgentFilesRead(recipe) = {f \in AgentFiles : AgentPath(f) \in AgentPaths(recipe)}
  BY <1>11, <1>12
<1>14. \A p \in AgentPaths(recipe) : \E f \in AgentFilesRead(recipe) : p = AgentPath(f)
  BY <1>6, <1>11, <1>12
<1> QED BY <1>11, <1>12, <1>13, <1>14

-----------------------------------------------------------------------------
\* The SKILL.md files below a path, found one directory after the other.
FoundAt(path, inIt) ==
  IF path \in Files(recipe) THEN {p \in {path} : p[Len(p)] = "SKILL.md"}
  ELSE IF Append(path, "SKILL.md") \in Files(recipe) THEN {Append(path, "SKILL.md")}
  ELSE UNION {inIt[d] : d \in Within(recipe, path)}
IsFound(inIt) == inIt = [path \in Known |-> FoundAt(path, inIt)]
Found == CHOOSE inIt : IsFound(inIt)

SkillsUnder(path) ==
  {p \in {SkillPath(d) : d \in SkillsThere} :
     path = <<"skills">> \/ \E d \in SkillsThere : p = SkillPath(d) /\ path \in {SkillDir(d), SkillPath(d)}}

\* Both readers look below a directory in the same way.
LEMMA SkillFilesAreFound ==
  \A path : /\ SkillFilesIn(recipe, path) = Found[path]
            /\ DiscoverSkillFiles(recipe, path) = Found[path]
<1>1. \A path : SkillFilesIn(recipe, path) = Found[path]
  BY DEF SkillFilesIn, Found, IsFound, FoundAt, Within, Known
<1>2. \A path : DiscoverSkillFiles(recipe, path) = Found[path]
  BY DEF DiscoverSkillFiles, Found, IsFound, FoundAt, Within, Known, Last
<1> QED BY <1>1, <1>2

\* What there is within agents, and within skills.
LEMMA WithinIs ==
  /\ Within(recipe, <<"agents">>) = {}
  /\ Within(recipe, <<"skills">>) = {SkillDir(d) : d \in SkillsThere}
<1>1. \A p \in Directories(recipe) :
        Len(p) = 2 => \E d \in SkillsThere : p = SkillDir(d)
  BY DirectoriesAre
<1>2. \A d : /\ Len(SkillDir(d)) = 2 /\ SubSeq(SkillDir(d), 1, 1) = <<"skills">>
  BY PrefixOfPath DEF SkillDir
<1>3. /\ SubSeq(<<"agents">>, 1, 1) = <<"agents">> /\ SubSeq(<<"skills">>, 1, 1) = <<"skills">>
      /\ Len(<<"agents">>) = 1 /\ Len(<<"skills">>) = 1 /\ <<"agents">> # <<"skills">>
  BY PrefixOfPath
<1>4. \A name \in {"agents", "skills"} :
        Within(recipe, <<name>>) = {p \in Directories(recipe) : Len(p) = 2 /\ SubSeq(p, 1, 1) = <<name>>}
  <2> TAKE name \in {"agents", "skills"}
  <2> DEFINE top == <<name>>
  <2>1. Len(top) = 1 /\ SubSeq(top, 1, 1) = top
    BY PrefixOfPath
  <2> HIDE DEF top
  <2>2. Within(recipe, top) = {p \in Directories(recipe) : Len(p) = 2 /\ SubSeq(p, 1, 1) = top}
    BY <2>1 DEF Within, IsPrefix
  <2> QED BY <2>2 DEF top
<1>5. Within(recipe, <<"agents">>) = {}
  BY <1>1, <1>2, <1>3, <1>4
<1>6. Within(recipe, <<"skills">>) = {SkillDir(d) : d \in SkillsThere}
  <2>1. \A d \in SkillsThere : SkillDir(d) \in Directories(recipe)
    BY DirectoriesAre
  <2> QED BY <1>1, <1>2, <1>4, <2>1
<1> QED BY <1>5, <1>6

\* A name after two.
LEMMA AppendedToTwo ==
  ASSUME NEW a, NEW b, NEW c
  PROVE  Append(<<a, b>>, c) = <<a, b, c>>
<1> DEFINE t == Append(<<a, b>>, c)
<1>1. <<a, b>> \in Seq({a, b, c}) /\ c \in {a, b, c}
  OBVIOUS
<1>2. /\ t \in Seq({a, b, c}) /\ Len(t) = 3
      /\ t[1] = a /\ t[2] = b /\ t[3] = c
  BY <1>1, AppendProperties
<1> HIDE DEF t
<1>3. t = <<a, b, c>>
  BY <1>2
<1> QED BY <1>3 DEF t

\* What is found is defined for every path.
LEMMA FoundExists == IsFound(Found)
<1> DEFINE f == [path \in Known |-> SkillsUnder(path)]
<1>0. \A d, e : /\ (SkillPath(d) = SkillPath(e) => d = e) /\ (SkillDir(d) = SkillDir(e) => d = e)
                /\ SkillPath(d) # SkillDir(e) /\ SkillPath(d)[Len(SkillPath(d))] = "SKILL.md"
                /\ SkillPath(d) # <<"skills">> /\ SkillDir(d) # <<"skills">>
                /\ Append(SkillDir(d), "SKILL.md") = SkillPath(d)
  <2>1. \A d, e : (SkillPath(d) = SkillPath(e) => d = e) /\ (SkillDir(d) = SkillDir(e) => d = e)
    BY DEF SkillPath, SkillDir
  <2>2. \A d, e : SkillPath(d) # SkillDir(e) /\ SkillPath(d)[Len(SkillPath(d))] = "SKILL.md"
    BY DEF SkillPath, SkillDir
  <2>3. \A d, e : SkillPath(d) # <<"skills">> /\ SkillDir(d) # <<"skills">>
    BY DEF SkillPath, SkillDir
  <2>4. \A d : Append(SkillDir(d), "SKILL.md") = SkillPath(d)
    <3> TAKE d
    <3>1. Append(<<"skills", d>>, "SKILL.md") = <<"skills", d, "SKILL.md">>
      BY AppendedToTwo
    <3> QED BY <3>1 DEF SkillPath, SkillDir
  <2> QED BY <2>1, <2>2, <2>3, <2>4
<1>1. \A d \in SkillsThere : /\ SkillsUnder(SkillPath(d)) = {SkillPath(d)}
                             /\ SkillsUnder(SkillDir(d)) = {SkillPath(d)}
  BY <1>0 DEF SkillsUnder
<1>2. \A path \in Known : f[path] = SkillsUnder(path)
  OBVIOUS
<1> HIDE DEF f
<1>3. ASSUME NEW path \in Known PROVE f[path] = FoundAt(path, f)
  <2>1. CASE \E g \in AgentsThere : path = AgentPath(g)
    <3>1. PICK g \in AgentsThere : path = AgentPath(g)
      BY <2>1
    <3>2. path \in Files(recipe) /\ path[Len(path)] # "SKILL.md"
      <4>1. g # "SKILL.md"
        BY NamesAssumption DEF AgentsThere
      <4> QED BY <3>1, <4>1, FilesAre DEF AgentPath
    <3>3. FoundAt(path, f) = {}
      BY <3>2 DEF FoundAt
    <3>4. SkillsUnder(path) = {}
      BY <3>1 DEF SkillsUnder, AgentPath, SkillDir, SkillPath
    <3> QED BY <1>2, <3>3, <3>4
  <2>2. CASE \E d \in SkillsThere : path = SkillPath(d)
    <3>1. PICK d \in SkillsThere : path = SkillPath(d)
      BY <2>2
    <3>2. path \in Files(recipe) /\ path[Len(path)] = "SKILL.md"
      BY <1>0, <3>1, FilesAre
    <3>3. FoundAt(path, f) = {path}
      BY <3>2 DEF FoundAt
    <3> QED BY <1>1, <1>2, <3>1, <3>3
  <2>3. CASE \E d \in SkillsThere : path = SkillDir(d)
    <3>1. PICK d \in SkillsThere : path = SkillDir(d)
      BY <2>3
    <3>2. path \notin Files(recipe) /\ SkillPath(d) \in Files(recipe) /\ Append(path, "SKILL.md") = SkillPath(d)
      BY <1>0, <3>1, FilesAre, DirectoriesAre DEF Directories
    <3>3. FoundAt(path, f) = {SkillPath(d)}
      BY <3>2 DEF FoundAt
    <3> QED BY <1>1, <1>2, <3>1, <3>3
  <2>4. CASE path = <<"agents">> \/ path = <<"skills">>
    <3>1. \A g, d : /\ AgentPath(g) # path /\ SkillPath(d) # path /\ SkillPath(d) # Append(path, "SKILL.md")
                    /\ AgentPath(g) = Append(path, "SKILL.md") => g = "SKILL.md"
      BY <2>4 DEF AgentPath, SkillPath
    <3>2. "SKILL.md" \notin AgentsThere
      BY NamesAssumption DEF AgentsThere
    <3>3. path \notin Files(recipe) /\ Append(path, "SKILL.md") \notin Files(recipe)
      BY <3>1, <3>2, FilesAre
    <3>4. FoundAt(path, f) = UNION {f[d] : d \in Within(recipe, path)}
      BY <3>3 DEF FoundAt
    <3>5. CASE path = <<"agents">>
      <4>1. SkillsUnder(path) = {}
        BY <3>5 DEF SkillsUnder, SkillDir, SkillPath
      <4>2. Within(recipe, path) = {}
        BY <3>5, WithinIs
      <4> QED BY <1>2, <3>4, <4>1, <4>2
    <3>6. CASE path = <<"skills">>
      <4>1. SkillsUnder(path) = {SkillPath(d) : d \in SkillsThere}
        BY <3>6 DEF SkillsUnder
      <4>2. Within(recipe, path) = {SkillDir(d) : d \in SkillsThere}
        BY <3>6, WithinIs
      <4>3. \A d \in SkillsThere : f[SkillDir(d)] = {SkillPath(d)}
        <5>1. \A d \in SkillsThere : SkillDir(d) \in Known
          BY DirectoriesAre DEF Known
        <5> QED BY <1>1, <1>2, <5>1
      <4>4. FoundAt(path, f) = {SkillPath(d) : d \in SkillsThere}
        BY <3>4, <4>2, <4>3
      <4> QED BY <1>2, <4>1, <4>4
    <3> QED BY <2>4, <3>5, <3>6
  <2> QED BY <2>1, <2>2, <2>3, <2>4, FilesAre, DirectoriesAre DEF Known
<1>4. f = [path \in Known |-> FoundAt(path, f)]
  <2>1. f = [path \in Known |-> f[path]]
    BY DEF f
  <2> QED BY <1>3, <2>1
<1>5. IsFound(f)
  BY <1>4 DEF IsFound
<1> QED BY <1>5 DEF Found

\* Every directory has 1 or 2 names, so what is found in it is one below.
LEMMA AppendedIsUnder ==
  ASSUME NEW p \in Known
  PROVE  LET q == Append(p, "SKILL.md") IN Under1(p, q) /\ q[Len(q)] = "SKILL.md"
<1>1. \E S : p \in Seq(S)
  <2>1. \A a, b : /\ <<a, b>> \in Seq({a, b}) /\ <<a, b, "SKILL.md">> \in Seq({a, b, "SKILL.md"})
                 /\ <<a>> \in Seq({a})
    OBVIOUS
  <2>2. /\ \A f : \E S : AgentPath(f) \in Seq(S)
        /\ \A d : (\E S : SkillPath(d) \in Seq(S)) /\ (\E S : SkillDir(d) \in Seq(S))
        /\ (\E S : <<"agents">> \in Seq(S)) /\ (\E S : <<"skills">> \in Seq(S))
    BY <2>1 DEF AgentPath, SkillPath, SkillDir
  <2>3. \/ \E f : p = AgentPath(f)
        \/ \E d : p = SkillPath(d) \/ p = SkillDir(d)
        \/ p = <<"agents">> \/ p = <<"skills">>
    BY FilesAre, DirectoriesAre DEF Known
  <2>4. CASE \E f : p = AgentPath(f)
    BY <2>2, <2>4
  <2>5. CASE \E d : p = SkillPath(d) \/ p = SkillDir(d)
    BY <2>2, <2>5
  <2>6. CASE p = <<"agents">> \/ p = <<"skills">>
    BY <2>2, <2>6
  <2> QED BY <2>3, <2>4, <2>5, <2>6
<1>2. PICK S : p \in Seq(S)
  BY <1>1
<1>3. p \in Seq(S \cup {"SKILL.md"})
  BY <1>2
<1> QED BY <1>3 DEF Under1

\* What is within a directory is right below it.
LEMMA WithinIsUnder ==
  ASSUME NEW p \in Known, NEW d \in Within(recipe, p)
  PROVE  d \in Directories(recipe) /\ Under1(p, d)
<1>1. d \in Directories(recipe) /\ Len(d) = Len(p) + 1 /\ IsPrefix(p, d)
  BY DEF Within
<1>2. CASE p = <<"agents">> \/ p = <<"skills">>
  <2>1. PICK e \in SkillsThere : d = SkillDir(e)
    BY <1>1, <1>2, DirectoriesAre
  <2>2. SubSeq(p, 1, 1) = p /\ SubSeq(d, 1, 1) = <<"skills">> /\ Len(p) = 1
    BY <1>2, <2>1, PrefixOfPath DEF SkillDir
  <2>3. p = <<"skills">>
    BY <1>1, <2>2 DEF IsPrefix
  <2> QED BY <1>1, <2>1, <2>3 DEF Under1, SkillDir
<1>3. CASE Len(p) \in {2, 3}
  <2>1. \A e : Len(SkillDir(e)) = 2
    BY DEF SkillDir
  <2>2. d = <<"agents">> \/ d = <<"skills">> \/ \E e : d = SkillDir(e)
    BY <1>1, DirectoriesAre
  <2>3. Len(d) = 1 \/ Len(d) = 2
    BY <2>1, <2>2
  <2>4. CASE Len(p) = 2
    BY <1>1, <2>3, <2>4
  <2>5. CASE Len(p) = 3
    BY <1>1, <2>3, <2>5
  <2> QED BY <1>3, <2>4, <2>5
<1>4. p = <<"agents">> \/ p = <<"skills">> \/ Len(p) \in {2, 3}
  BY FilesAre, DirectoriesAre DEF Known, AgentPath, SkillPath, SkillDir
<1> QED BY <1>2, <1>3, <1>4

\* The skills that the checker finds are those that the runtime finds.
LEMMA SkillsAgree ==
  ASSUME IsTree(recipe), PackageErrors(recipe) = {}, ~EndsAtAFile
  PROVE  \A name : PackagedSkills(recipe, name) = AgentSkillPaths(recipe, {name})
<1> DEFINE checked == ResourcePaths(recipe, "skills")
           read == PackageResourcePaths(recipe, "skills")
<1>1. /\ checked \subseteq Known /\ read \subseteq checked
      /\ \A p \in Files(recipe) : p \in checked => p \in read
      /\ \A p, below \in Known : p \in checked /\ Under1(p, below) => p \in read \/ below \in read
  BY PathsAgree DEF Keyed
<1> HIDE DEF checked, read
<1>2. \A path \in Known : Found[path] = FoundAt(path, Found)
  BY FoundExists DEF IsFound
<1>3. ASSUME NEW p \in checked, NEW s \in Found[p] PROVE \E q \in read : s \in Found[q]
  <2>1. p \in Known /\ Found[p] = FoundAt(p, Found)
    BY <1>1, <1>2
  <2>2. CASE p \in read
    BY <1>3, <2>2
  <2>3. CASE p \notin read
    <3>1. p \notin Files(recipe)
      BY <1>1, <2>3
    <3>2. CASE Append(p, "SKILL.md") \in Files(recipe)
      <4> DEFINE q == Append(p, "SKILL.md")
      <4>1. s = q
        BY <1>3, <2>1, <3>1, <3>2 DEF FoundAt
      <4>2. q \in Known /\ Under1(p, q) /\ q[Len(q)] = "SKILL.md"
        BY <2>1, <3>2, AppendedIsUnder DEF Known
      <4> HIDE DEF q
      <4>3. Found[q] = {q}
        <5>1. FoundAt(q, Found) = {x \in {q} : x[Len(x)] = "SKILL.md"}
          BY <3>2 DEF FoundAt, q
        <5> QED BY <1>2, <4>2, <5>1
      <4>4. q \in read
        BY <1>1, <2>1, <2>3, <4>2
      <4> QED BY <4>1, <4>3, <4>4
    <3>3. CASE Append(p, "SKILL.md") \notin Files(recipe)
      <4>1. PICK d \in Within(recipe, p) : s \in Found[d]
        BY <1>3, <2>1, <3>1, <3>3 DEF FoundAt
      <4>2. d \in Known /\ Under1(p, d)
        BY <2>1, WithinIsUnder DEF Known
      <4> QED BY <1>1, <2>1, <2>3, <4>1, <4>2
    <3> QED BY <3>2, <3>3
  <2> QED BY <2>2, <2>3
<1>4. UNION {Found[p] : p \in checked} = UNION {Found[q] : q \in read}
  BY <1>1, <1>3
<1>5. /\ {SkillFilesIn(recipe, r) : r \in checked} = {Found[p] : p \in checked}
      /\ {DiscoverSkillFiles(recipe, r) : r \in read} = {Found[p] : p \in read}
  BY SkillFilesAreFound
<1>6. ASSUME NEW name PROVE PackagedSkills(recipe, name) = AgentSkillPaths(recipe, {name})
  <2>1. PackagedSkills(recipe, name) =
          {p \in UNION {Found[p] : p \in checked} : SkillName(recipe, p) = name}
    BY <1>5 DEF PackagedSkills, checked
  <2>2. AgentSkillPaths(recipe, {name}) =
          {p \in UNION {Found[q] : q \in read} : SkillName(recipe, p) \in {name}}
    BY <1>5 DEF AgentSkillPaths, read
  <2> QED BY <1>4, <2>1, <2>2
<1> QED BY <1>6

-----------------------------------------------------------------------------
\* package.json, its channels: what the checker passes has no finding of the
\* runtime's.
LEMMA ChannelsAgree ==
  ASSUME NEW channels, ChannelErrors(channels) = {}
  PROVE  ~ChannelFindings(channels)
BY DEF ChannelErrors, ChannelFindings, Error

\* Nor do its servers have any,
LEMMA ServersAgree ==
  ASSUME NEW pkg, ServerErrors(pkg) = {}
  PROVE  ~McpFindings(pkg)
<1>1. ~\/ pkg.mcp = "bad"
       \/ \E i \in DOMAIN pkg.servers :
            LET s == pkg.servers[i] IN
            \/ s.odd \/ s.id = Empty
            \/ \E key \in {"include", "exclude"} :
                 s.tools[key].shape = "bad" \/ Repeats(s.tools[key]) \/ Blank(s.tools[key])
            \/ \E j \in 1..(i - 1) : IdOf[pkg.servers[j].id] = IdOf[s.id]
  BY DEF ServerErrors, Error
<1>2. ~\E i \in DOMAIN pkg.servers :
         LET tools == pkg.servers[i].tools IN
         \/ Trimmed(tools.include) \cap (Wild \cup {Empty}) # {}
         \/ Trimmed(tools.exclude) \cap (Wild \cup {Empty, "*"}) # {}
  BY DEF ServerErrors, Error
<1>3. \A i \in DOMAIN pkg.servers : ValidSelection(pkg.servers[i].tools)
  BY <1>1, <1>2 DEF ValidSelection
<1> QED BY <1>1, <1>3 DEF McpFindings

\* nor the Python it asks for, if the version is one that is not empty,
LEMMA PythonAgrees ==
  ASSUME NEW runtime, RuntimeErrors(runtime) = {}, runtime.shape = "map",
         Has(runtime, <<"python">>), Optional(runtime, <<"python", "version">>, IsNonEmpty)
  PROVE  ~PythonFindings(runtime)
<1> DEFINE keys == Keys(runtime, <<"python">>) \ {"project", "lockfile", "version", "imports"}
           imports == /\ Has(runtime, <<"python", "imports">>)
                      /\ Scalar(runtime, <<"python", "imports">>) # "names"
           project == Scalar(runtime, <<"python", "project">>)
           lockfile == Scalar(runtime, <<"python", "lockfile">>)
<1>1. IsMapping(runtime, <<"python">>)
  BY DEF RuntimeErrors
<1>2. /\ Error("pi.runtime_invalid", keys # {}) = {}
      /\ RuntimePathErrors(runtime) = {}
      /\ Error("pi.runtime_invalid", imports) = {}
  <2>1. Only(runtime, <<"python">>, {"project", "lockfile", "version", "imports"}, "pi.runtime_invalid")
          = Error("pi.runtime_invalid", keys # {})
    BY DEF Only
  <2> HIDE DEF keys
  <2> QED BY <1>1, <2>1 DEF RuntimeErrors
<1>3. keys = {} /\ ~imports
  <2> HIDE DEF keys, imports
  <2> QED BY <1>2 DEF Error
<1>4. IsNonEmpty(project) /\ IsNonEmpty(lockfile) /\ project = "dir" /\ lockfile = "file"
  <2> HIDE DEF project, lockfile
  <2>1. RuntimePathErrors(runtime) =
          Error("pi.runtime_invalid", ~IsNonEmpty(project) \/ ~IsNonEmpty(lockfile))
            \cup Error("pi.runtime_path_invalid",
                       \/ IsNonEmpty(project) /\ project # "dir"
                       \/ IsNonEmpty(lockfile) /\ lockfile # "file")
    BY DEF RuntimePathErrors, project, lockfile
  <2> QED BY <1>2, <2>1 DEF Error
<1>5. ~(Has(runtime, <<"python", "version">>) /\ ~IsNonEmpty(Scalar(runtime, <<"python", "version">>)))
  BY DEF Optional
<1> QED BY <1>1, <1>3, <1>4, <1>5 DEF PythonFindings

\* nor the runtime block,
LEMMA RuntimeAgrees ==
  ASSUME NEW runtime, RuntimeErrors(runtime) = {},
         Optional(runtime, <<"python", "version">>, IsNonEmpty)
  PROVE  ~RuntimeFindings(runtime)
<1>1. runtime.shape # "bad"
  BY DEF RuntimeErrors
<1>2. ASSUME runtime.shape = "map"
      PROVE  /\ Keys(runtime, <<>>) \ {"python", "system"} = {}
             /\ Has(runtime, <<"system">>) =>
                  /\ Keys(runtime, <<"system">>) \ {"packages"} = {}
                  /\ Scalar(runtime, <<"system", "packages">>) = "packages"
  <2>1. Only(runtime, <<>>, {"python", "system"}, "pi.runtime_invalid") = {}
    BY <1>2 DEF RuntimeErrors
  <2>2. Has(runtime, <<"system">>) =>
          /\ Only(runtime, <<"system">>, {"packages"}, "pi.runtime_invalid") = {}
          /\ Error("pi.runtime_invalid", Scalar(runtime, <<"system", "packages">>) # "packages") = {}
    BY <1>2 DEF RuntimeErrors
  <2>3. \A path, allowed, code : Only(runtime, path, allowed, code) = {} => Keys(runtime, path) \ allowed = {}
    BY DEF Only, Error
  <2>4. Keys(runtime, <<>>) \ {"python", "system"} = {}
    BY <2>1, <2>3
  <2>5. ASSUME Has(runtime, <<"system">>)
        PROVE  /\ Keys(runtime, <<"system">>) \ {"packages"} = {}
               /\ Scalar(runtime, <<"system", "packages">>) = "packages"
    BY <2>2, <2>3, <2>5 DEF Error
  <2> QED BY <2>4, <2>5
<1>3. runtime.shape = "map" /\ Has(runtime, <<"python">>) => ~PythonFindings(runtime)
  BY PythonAgrees
<1> QED BY <1>1, <1>2, <1>3 DEF RuntimeFindings

\* nor package.json as a whole.
LEMMA PackageAgrees ==
  ASSUME IsTree(recipe), PackageErrors(recipe) = {}, ~Overlooked
  PROVE  ~PackageFindings(recipe)
<1>1. /\ recipe.pkg.pi /\ recipe.pkg.name /\ ~recipe.pkg.odd
      /\ ~ChannelFindings(recipe.pkg.channels) /\ ~McpFindings(recipe.pkg)
  BY PackageParts, ChannelsAgree, ServersAgree
<1>2. ~RuntimeFindings(recipe.pkg.runtime)
  <2>1. Optional(recipe.pkg.runtime, <<"python", "version">>, IsNonEmpty)
    BY DEF Overlooked
  <2> QED BY <2>1, PackageParts, RuntimeAgrees
<1>3. ~\E key \in {"agents", "skills"} :
         LET declared == recipe.pkg[key] IN
         declared.shape = "bad" \/ Cardinality(ToSet(declared.items)) # Len(declared.items)
  BY PatternsFit DEF Keyed
<1>4. ~(~Given(recipe.pkg.agents) /\ ~Exists(recipe, <<"agents">>))
  <2> SUFFICES ASSUME ~Given(recipe.pkg.agents), ~Exists(recipe, <<"agents">>) PROVE FALSE
    OBVIOUS
  <2>1. Patterns(recipe, "agents") = {}
    BY DEF Patterns
  <2>2. ResourcePaths(recipe, "agents") = {}
    BY <2>1 DEF ResourcePaths
  <2> QED BY <2>2, PatternsFit DEF Keyed
<1> QED BY <1>1, <1>2, <1>3, <1>4 DEF PackageFindings

-----------------------------------------------------------------------------
\* An agent's file: what the checker passes the parsers do not refuse.  A key
\* after a path.
LEMMA Appended ==
  \A a, b, c : Append(<<a>>, b) = <<a, b>> /\ Append(<<a, b>>, c) = <<a, b, c>>
<1> TAKE a, b, c
<1> DEFINE t == Append(<<a>>, b)
<1>1. <<a>> \in Seq({a, b}) /\ b \in {a, b}
  OBVIOUS
<1>2. t \in Seq({a, b}) /\ Len(t) = 2 /\ t[1] = a /\ t[2] = b
  BY <1>1, AppendProperties
<1> HIDE DEF t
<1>3. t = <<a, b>>
  BY <1>2
<1> QED BY <1>3, AppendedToTwo DEF t

\* A mapping in which no key is unknown.
LEMMA OnlyThese ==
  \A m, path, allowed, code : Only(m, path, allowed, code) = {} => Keys(m, path) \subseteq allowed
BY DEF Only, Error

\* A number that the checker passes is whole to the parser.
LEMMA WholeAgrees ==
  ASSUME NEW m, NEW path, NEW code
  PROVE  /\ IntegerErrors(m, path, TRUE, code) = {} => Whole(m, path, 1)
         /\ IntegerErrors(m, path, FALSE, code) = {} => Whole(m, path, 0)
BY DEF IntegerErrors, Error, Whole, Optional

\* The block providers, in its parts.
LEMMA OpenRouterAgrees ==
  ASSUME NEW m, NEW ai \in BOOLEAN, ProviderErrors(m, ai) = {}
  PROVE  /\ KeysWithin(m, <<"providers">>,
                       {"openrouter", "anthropic"} \cup IF ai THEN {"vercel_ai_gateway"} ELSE {})
         /\ KeysWithin(m, <<"providers", "openrouter">>, {"routing"})
         /\ RoutingErrors(m, ai) = {} /\ AnthropicErrors(m) = {}
         /\ ai => VercelErrors(m) = {}
<1> DEFINE known == {"openrouter", "anthropic"} \cup (IF ai THEN {"vercel_ai_gateway"} ELSE {})
<1>1. Append(<<"providers">>, "openrouter") = <<"providers", "openrouter">>
  BY Appended
<1>2. IsMapping(m, <<"providers">>)
  BY DEF ProviderErrors
<1>3. Only(m, <<"providers">>, known, "agent.providers_key_unknown") = {}
  <2> DEFINE top == Only(m, <<"providers">>, known, "agent.providers_key_unknown")
             rest == IF ~IsMapping(m, <<"providers", "openrouter">>) THEN {"agent.openrouter_invalid"}
                     ELSE Only(m, <<"providers", "openrouter">>, {"routing"}, "agent.openrouter_key_unknown")
                       \cup RoutingErrors(m, ai)
                       \cup AnthropicErrors(m)
                       \cup (IF ai THEN VercelErrors(m) ELSE {})
  <2>1. ProviderErrors(m, ai) = top \cup rest
    BY <1>1, <1>2 DEF ProviderErrors
  <2> HIDE DEF top, rest
  <2>2. top = {}
    BY <2>1
  <2> QED BY <2>2 DEF top
<1>4. /\ IsMapping(m, <<"providers", "openrouter">>)
      /\ Only(m, <<"providers", "openrouter">>, {"routing"}, "agent.openrouter_key_unknown") = {}
      /\ RoutingErrors(m, ai) = {} /\ AnthropicErrors(m) = {} /\ (ai => VercelErrors(m) = {})
  BY <1>1, <1>2 DEF ProviderErrors
<1> QED BY <1>2, <1>3, <1>4, OnlyThese DEF KeysWithin

\* The block providers of model, and the one of ai.
LEMMA ProvidersAgree ==
  ASSUME NEW m
  PROVE  /\ ProviderErrors(m, FALSE) = {} => ValidProviders(m, "model")
         /\ ProviderErrors(m, TRUE) = {} => ValidProviders(m, "ai")
<1> DEFINE routing == <<"providers", "openrouter", "routing">>
           anthropic == <<"providers", "anthropic">>
           vercel == <<"providers", "vercel_ai_gateway">>
<1>1. /\ Append(<<"providers", "openrouter">>, "routing") = routing
      /\ Append(vercel, "routing") = <<"providers", "vercel_ai_gateway", "routing">>
  BY Appended
<1>2. ASSUME AnthropicErrors(m) = {}
      PROVE  /\ KeysWithin(m, anthropic, {"betas", "context_management"})
             /\ Has(m, Append(anthropic, "betas")) => Scalar(m, Append(anthropic, "betas")) = "names"
             /\ IsMapping(m, Append(anthropic, "context_management"))
  <2>1. IsMapping(m, anthropic)
    BY <1>2 DEF AnthropicErrors
  <2>2. /\ Only(m, anthropic, {"betas", "context_management"}, "agent.anthropic_key_unknown") = {}
        /\ Error("agent.anthropic_betas_invalid",
                 Has(m, Append(anthropic, "betas")) /\ Scalar(m, Append(anthropic, "betas")) # "names") = {}
        /\ Error("agent.anthropic_context_invalid",
                 ~IsMapping(m, Append(anthropic, "context_management"))) = {}
    BY <1>2, <2>1 DEF AnthropicErrors
  <2>3. Keys(m, anthropic) \subseteq {"betas", "context_management"}
    BY <2>2, OnlyThese
  <2> QED BY <2>1, <2>2, <2>3 DEF Error, KeysWithin
<1>3. ASSUME RoutingErrors(m, FALSE) = {}
      PROVE  IsMapping(m, routing) /\ Keys(m, routing) \subseteq LegacyOpenRouterKeys
  <2>1. IsMapping(m, routing)
    BY <1>3 DEF RoutingErrors
  <2>2. Keys(m, routing) \subseteq RoutingKeys
    BY <1>3, <2>1, OnlyThese DEF RoutingErrors
  <2> QED BY <2>1, <2>2 DEF RoutingKeys, LegacyOpenRouterKeys
<1>4. ASSUME RoutingErrors(m, TRUE) = {} PROVE IsMapping(m, routing)
  BY <1>4 DEF RoutingErrors
<1>5. ASSUME VercelErrors(m) = {}
      PROVE  /\ KeysWithin(m, vercel, {"routing"}) /\ IsMapping(m, Append(vercel, "routing"))
             /\ "byok" \notin Keys(m, Append(vercel, "routing"))
  <2>1. IsMapping(m, vercel) /\ IsMapping(m, Append(vercel, "routing"))
    BY <1>5 DEF VercelErrors
  <2>2. /\ Only(m, vercel, {"routing"}, "agent.vercel_key_unknown") = {}
        /\ Error("agent.vercel_key_blocked", "byok" \in Keys(m, Append(vercel, "routing"))) = {}
    BY <1>5, <2>1 DEF VercelErrors
  <2> QED BY <2>1, <2>2, OnlyThese DEF Error, KeysWithin
<1>6. ASSUME ProviderErrors(m, FALSE) = {} PROVE ValidProviders(m, "model")
  <2>1. /\ KeysWithin(m, <<"providers">>, {"openrouter", "anthropic"})
        /\ KeysWithin(m, <<"providers", "openrouter">>, {"routing"})
        /\ RoutingErrors(m, FALSE) = {} /\ AnthropicErrors(m) = {}
    <3>1. {"openrouter", "anthropic"} \cup (IF FALSE THEN {"vercel_ai_gateway"} ELSE {})
            = {"openrouter", "anthropic"}
      OBVIOUS
    <3> QED BY <1>6, <3>1, OpenRouterAgrees
  <2> HIDE DEF anthropic, vercel, routing
  <2>2. {"openrouter", "anthropic"} \cup (IF "model" = "ai" THEN {"vercel_ai_gateway"} ELSE {})
          = {"openrouter", "anthropic"}
    OBVIOUS
  <2> QED BY <1>1, <1>2, <1>3, <2>1, <2>2 DEF ValidProviders, Optional, anthropic, vercel
<1>7. ASSUME ProviderErrors(m, TRUE) = {} PROVE ValidProviders(m, "ai")
  <2>1. /\ KeysWithin(m, <<"providers">>,
                      {"openrouter", "anthropic"} \cup (IF TRUE THEN {"vercel_ai_gateway"} ELSE {}))
        /\ KeysWithin(m, <<"providers", "openrouter">>, {"routing"})
        /\ RoutingErrors(m, TRUE) = {} /\ AnthropicErrors(m) = {} /\ VercelErrors(m) = {}
    BY <1>7, OpenRouterAgrees
  <2> HIDE DEF anthropic, vercel, routing
  <2>2. {"openrouter", "anthropic"} \cup (IF "ai" = "ai" THEN {"vercel_ai_gateway"} ELSE {})
          = {"openrouter", "anthropic"} \cup (IF TRUE THEN {"vercel_ai_gateway"} ELSE {})
    OBVIOUS
  <2> QED BY <1>1, <1>2, <1>4, <1>5, <2>1, <2>2 DEF ValidProviders, Optional, anthropic, vercel
<1> QED BY <1>6, <1>7

\* A model that the checker passes is a specification after trimming.
LEMMA SpecAgrees ==
  ASSUME NEW m, NEW key, NEW code, SpecErrors(m, key, code) = {}, Has(m, <<key>>)
  PROVE  IsNonEmpty(Scalar(m, <<key>>)) /\ Trim(Scalar(m, <<key>>)) \in Specs
BY DEF SpecErrors, Error

\* The block model that the checker passes is parsed
\* (parseRecipeAgentModelConfig).
LEMMA ModelAgrees ==
  ASSUME NEW m, IsBlock(m), ModelErrors(m) = {}
  PROVE  ValidModelBlock(m)
<1> SUFFICES ASSUME m.shape = "map" PROVE ValidModelBlock(m)
  BY DEF IsBlock, ModelErrors, ValidModelBlock
<1> DEFINE keys == {"name", "thinking_level", "temperature", "max_tokens", "cache_retention",
                    "timeout_ms", "max_retries", "max_retry_delay_ms", "providers"}
           retention == Scalar(m, <<"cache_retention">>)
<1>1. /\ Only(m, <<>>, keys, "agent.model_key_unknown") = {}
      /\ SpecErrors(m, "name", "agent.model.name_invalid") = {}
      /\ LevelErrors(m, "agent.model.thinking_level_invalid") = {}
      /\ Error("agent.model.temperature_invalid",
               Has(m, <<"temperature">>) /\ ~AtLeast(Scalar(m, <<"temperature">>), 0)) = {}
      /\ (UNION {IntegerErrors(m, <<key>>, TRUE, "agent.model.integer_invalid") :
                   key \in {"max_tokens", "timeout_ms"}}) = {}
      /\ (UNION {IntegerErrors(m, <<key>>, FALSE, "agent.model.integer_invalid") :
                   key \in {"max_retries", "max_retry_delay_ms"}}) = {}
      /\ Error("agent.model.cache_retention_invalid",
               /\ Has(m, <<"cache_retention">>)
               /\ Scalar(m, <<"cache_retention">>) \notin {"none", "short", "long"}) = {}
      /\ ProviderErrors(m, FALSE) = {}
  BY DEF ModelErrors
<1>2. Keys(m, <<>>) \subseteq keys
  BY <1>1, OnlyThese
<1>3. Has(m, <<"thinking_level">>) => Scalar(m, <<"thinking_level">>) \in ThinkingLevels
  BY <1>1 DEF LevelErrors, Error
<1>4. Has(m, <<"cache_retention">>) => IsText(retention) /\ Trim(retention) \in {Empty, "none", "short", "long"}
  <2>1. Has(m, <<"cache_retention">>) => retention \in {"none", "short", "long"}
    BY <1>1 DEF Error
  <2>2. \A v \in {"none", "short", "long"} : IsText(v) /\ Trim(v) = v
    BY NamesAssumption DEF IsText, IsNumber, IsBoolean, Halves, Trim
  <2> QED BY <2>1, <2>2
<1>5. Has(m, <<"temperature">>) => AtLeast(Scalar(m, <<"temperature">>), 0)
  BY <1>1 DEF Error
<1>6. Whole(m, <<"max_tokens">>, 1) /\ Whole(m, <<"timeout_ms">>, 1)
  <2>1. \A key \in {"max_tokens", "timeout_ms"} :
          IntegerErrors(m, <<key>>, TRUE, "agent.model.integer_invalid") = {}
    BY <1>1
  <2> QED BY <2>1, WholeAgrees
<1>7. Whole(m, <<"max_retries">>, 0) /\ Whole(m, <<"max_retry_delay_ms">>, 0)
  <2>1. \A key \in {"max_retries", "max_retry_delay_ms"} :
          IntegerErrors(m, <<key>>, FALSE, "agent.model.integer_invalid") = {}
    BY <1>1
  <2> QED BY <2>1, WholeAgrees
<1>8. Has(m, <<"name">>) => IsText(Scalar(m, <<"name">>))
  BY <1>1, SpecAgrees DEF IsNonEmpty
<1>9. ValidProviders(m, "model")
  BY <1>1, ProvidersAgree
<1> QED BY <1>2, <1>3, <1>4, <1>5, <1>6, <1>7, <1>8, <1>9 DEF ValidModelBlock, Optional

\* So is the block ai (parseRecipeAgentAiConfig).
LEMMA AiAgrees ==
  ASSUME NEW m, IsBlock(m), AiErrors(m) = {}
  PROVE  ValidAiBlock(m)
<1> SUFFICES ASSUME m.shape = "map" PROVE ValidAiBlock(m)
  BY DEF IsBlock, AiErrors, ValidAiBlock
<1> DEFINE keys == {"model", "thinking_level", "options", "providers"}
<1>1. /\ Only(m, <<>>, keys, "agent.ai_key_unknown") = {}
      /\ SpecErrors(m, "model", "agent.ai.model_invalid") = {}
      /\ LevelErrors(m, "agent.ai.thinking_level_invalid") = {}
      /\ IsMapping(m, <<"options">>)
  BY DEF AiErrors
<1>2. /\ Only(m, <<"options">>, DOMAIN Camel, "agent.ai.options_key_invalid") = {}
      /\ Error("agent.ai.options_key_blocked", Keys(m, <<"options">>) \cap HostOptions # {}) = {}
      /\ ProviderErrors(m, TRUE) = {}
  BY <1>1 DEF AiErrors
<1>3. Keys(m, <<>>) \subseteq keys /\ Keys(m, <<"options">>) \subseteq DOMAIN Camel
  BY <1>1, <1>2, OnlyThese
<1>4. Has(m, <<"thinking_level">>) => Scalar(m, <<"thinking_level">>) \in ThinkingLevels
  BY <1>1 DEF LevelErrors, Error
<1>5. Has(m, <<"model">>) => IsText(Scalar(m, <<"model">>))
  BY <1>1, SpecAgrees DEF IsNonEmpty
<1>6. {Camel[key] : key \in Keys(m, <<"options">>)} \cap BlockedOptions = {}
  <2>1. Keys(m, <<"options">>) \cap HostOptions = {}
    BY <1>2 DEF Error
  <2> QED BY <1>3, <2>1, NamesAssumption
<1>7. ValidProviders(m, "ai")
  BY <1>2, ProvidersAgree
<1> QED BY <1>1, <1>3, <1>4, <1>5, <1>6, <1>7 DEF ValidAiBlock, Optional, KeysWithin

-----------------------------------------------------------------------------
\* A section of the settings that the checker passes is valid.
LEMMA SectionAgrees ==
  ASSUME NEW m, NEW path, NEW allowed, NEW booleans, NEW integers, NEW positive,
         SettingsErrors(m, path, allowed, booleans, integers, positive) = {},
         NEW sections, NEW counts,
         allowed \subseteq booleans \cup counts \cup positive \cup sections,
         integers = counts \cup positive, counts \cap positive = {}
  PROVE  ValidSection(m, path, booleans, counts, positive, sections)
<1>1. IsMapping(m, path)
  BY DEF SettingsErrors
<1>2. /\ Only(m, path, allowed, "agent.session_section_key_unknown") = {}
      /\ Error("agent.session_boolean_invalid",
               \E key \in booleans : /\ Has(m, Append(path, key))
                                     /\ ~IsBoolean(Scalar(m, Append(path, key)))) = {}
      /\ UNION {IntegerErrors(m, Append(path, key), key \in positive,
                              "agent.session_integer_invalid") : key \in integers} = {}
  BY <1>1 DEF SettingsErrors
<1>3. KeysWithin(m, path, booleans \cup counts \cup positive \cup sections)
  <2>1. Keys(m, path) \subseteq allowed
    BY <1>2, OnlyThese
  <2> QED BY <1>1, <2>1 DEF KeysWithin
<1>4. \A key \in booleans : Optional(m, Append(path, key), IsBoolean)
  BY <1>2 DEF Error, Optional
<1>5. \A key \in integers :
        IntegerErrors(m, Append(path, key), key \in positive, "agent.session_integer_invalid") = {}
  BY <1>2
<1>6. \A key \in counts : Whole(m, Append(path, key), 0)
  <2> TAKE key \in counts
  <2>1. IntegerErrors(m, Append(path, key), FALSE, "agent.session_integer_invalid") = {}
    <3>1. key \notin positive
      OBVIOUS
    <3> QED BY <1>5, <3>1 DEF IntegerErrors
  <2> QED BY <2>1, WholeAgrees
<1>7. \A key \in positive : Whole(m, Append(path, key), 1)
  <2> TAKE key \in positive
  <2>1. IntegerErrors(m, Append(path, key), TRUE, "agent.session_integer_invalid") = {}
    BY <1>5 DEF IntegerErrors
  <2> QED BY <2>1, WholeAgrees
<1> QED BY <1>3, <1>4, <1>6, <1>7 DEF ValidSection

\* So is the block session.
LEMMA SessionAgrees ==
  ASSUME NEW m, IsBlock(m), SessionErrors(m) = {}
  PROVE  ValidSessionBlock(m)
<1> SUFFICES ASSUME m.shape = "map" PROVE ValidSessionBlock(m)
  BY DEF IsBlock, SessionErrors, ValidSessionBlock
<1> DEFINE keys == {"steering_mode", "follow_up_mode", "tool_execution", "retry", "compaction",
                    "images"}
<1>1. /\ Only(m, <<>>, keys, "agent.session_key_unknown") = {}
      /\ Error("agent.session_mode_invalid",
               \E key \in {"steering_mode", "follow_up_mode"} :
                 Has(m, <<key>>) /\ Scalar(m, <<key>>) \notin {"all", "one-at-a-time"}) = {}
      /\ Error("agent.session.tool_execution_invalid",
               /\ Has(m, <<"tool_execution">>)
               /\ Scalar(m, <<"tool_execution">>) \notin {"parallel", "sequential"}) = {}
      /\ SettingsErrors(m, <<"retry">>, {"enabled", "max_retries", "base_delay_ms", "provider"},
                        {"enabled"}, {"max_retries", "base_delay_ms"}, {}) = {}
      /\ SettingsErrors(m, <<"retry", "provider">>,
                        {"timeout_ms", "max_retries", "max_retry_delay_ms"}, {},
                        {"timeout_ms", "max_retries", "max_retry_delay_ms"}, {"timeout_ms"}) = {}
      /\ SettingsErrors(m, <<"compaction">>, {"enabled", "reserve_tokens", "keep_recent_tokens"},
                        {"enabled"}, {"reserve_tokens", "keep_recent_tokens"}, {}) = {}
      /\ SettingsErrors(m, <<"images">>, {"auto_resize", "block_images"},
                        {"auto_resize", "block_images"}, {}, {}) = {}
  BY DEF SessionErrors
<1>2. Keys(m, <<>>) \subseteq keys
  BY <1>1, OnlyThese
<1>3. /\ \A key \in {"steering_mode", "follow_up_mode"} :
           Has(m, <<key>>) => Scalar(m, <<key>>) \in {"all", "one-at-a-time"}
      /\ Has(m, <<"tool_execution">>) => Scalar(m, <<"tool_execution">>) \in {"parallel", "sequential"}
  BY <1>1 DEF Error
<1>4. ValidSection(m, <<"retry">>, {"enabled"}, {"max_retries", "base_delay_ms"}, {}, {"provider"})
  BY <1>1, SectionAgrees
<1>5. ValidSection(m, <<"retry", "provider">>, {}, {"max_retries", "max_retry_delay_ms"},
                   {"timeout_ms"}, {})
  <2>1. {"timeout_ms", "max_retries", "max_retry_delay_ms"}
          = {"max_retries", "max_retry_delay_ms"} \cup {"timeout_ms"}
    OBVIOUS
  <2>2. {"max_retries", "max_retry_delay_ms"} \cap {"timeout_ms"} = {}
    OBVIOUS
  <2> QED BY <1>1, <2>1, <2>2, SectionAgrees
<1>6. ValidSection(m, <<"compaction">>, {"enabled"}, {"reserve_tokens", "keep_recent_tokens"}, {}, {})
  BY <1>1, SectionAgrees
<1>7. ValidSection(m, <<"images">>, {"auto_resize", "block_images"}, {}, {}, {})
  BY <1>1, SectionAgrees
<1> QED BY <1>2, <1>3, <1>4, <1>5, <1>6, <1>7 DEF ValidSessionBlock, Optional

-----------------------------------------------------------------------------
\* A file without a diagnostic has none of any part .
LEMMA AgentParts ==
  ASSUME NEW file, AgentErrors(file) = {}
  PROVE  /\ file.text = "mapping" /\ ~file.odd /\ Readable(file)
         /\ file.name \in Portable /\ IsText(file.description)
         /\ file.from = "none" \/ file.from \in Portable
         /\ file.model.shape = "none" \/ file.ai.shape = "none"
         /\ ModelErrors(file.model) = {} /\ AiErrors(file.ai) = {} /\ SessionErrors(file.session) = {}
         /\ "agent" \notin Trimmed(file.tools)
         /\ AgentMcpErrors(file.mcp) = {}
         /\ \A list \in {file.tools, file.skills, file.subagents} : StringsErrors(list) = {}
         /\ InstructionErrors(file.system) = {}
<1>1. file.text = "mapping"
  BY DEF AgentErrors
<1>2. Readable(file)
  BY <1>1 DEF AgentErrors
<1>3. Error("agent.key_unknown", file.odd) = {}
  BY <1>1 DEF AgentErrors
<1> DEFINE m == ModelErrors(file.model)
           a == AiErrors(file.ai)
           s == SessionErrors(file.session)
           c == AgentMcpErrors(file.mcp)
           l == UNION {StringsErrors(list) : list \in {file.tools, file.skills, file.subagents}}
           i == InstructionErrors(file.system)
           name == Error("agent.name_invalid", file.name \notin Portable)
           description == Error("agent.description_invalid", ~IsText(file.description))
           from == Error("agent.from_invalid", file.from # "none" /\ file.from \notin Portable)
           both == Error("agent.ai_model_conflict", file.model.shape # "none" /\ file.ai.shape # "none")
           tools == Error("agent.tools_reserved", "agent" \in Trimmed(file.tools))
<1>4. AgentErrors(file) = Error("agent.key_unknown", file.odd)
        \cup (name \cup description \cup from \cup both \cup m \cup a \cup s \cup tools \cup c \cup l \cup i)
  BY <1>1, <1>2 DEF AgentErrors
<1> HIDE DEF m, a, s, c, l, i, name, description, from, both, tools
<1>5. /\ name = {} /\ description = {} /\ from = {} /\ both = {} /\ tools = {}
      /\ m = {} /\ a = {} /\ s = {} /\ c = {} /\ l = {} /\ i = {}
  BY <1>4
<1>6. ~file.odd
  BY <1>3 DEF Error
<1>7. file.name \in Portable
  BY <1>5 DEF name, Error
<1>8. IsText(file.description)
  BY <1>5 DEF description, Error
<1>9. file.from = "none" \/ file.from \in Portable
  BY <1>5 DEF from, Error
<1>10. file.model.shape = "none" \/ file.ai.shape = "none"
  BY <1>5 DEF both, Error
<1>11. "agent" \notin Trimmed(file.tools)
  BY <1>5 DEF tools, Error
<1>12. \A list \in {file.tools, file.skills, file.subagents} : StringsErrors(list) = {}
  BY <1>5 DEF l
<1> QED BY <1>1, <1>2, <1>5, <1>6, <1>7, <1>8, <1>9, <1>10, <1>11, <1>12 DEF m, a, s, c, i

\* A file that the checker says nothing of is valid to the runtime.
LEMMA FileIsValid ==
  ASSUME NEW file, Holds(file), AgentErrors(file) = {}
  PROVE  ValidFile(file)
<1>1. IsBlock(file.model) /\ IsBlock(file.ai) /\ IsBlock(file.session)
  BY DEF Holds, IsFile, BlockFields
<1>2. ValidModelBlock(file.model) /\ ValidAiBlock(file.ai) /\ ValidSessionBlock(file.session)
  BY <1>1, AgentParts, ModelAgrees, AiAgrees, SessionAgrees
<1>3. ~InvalidInstructions(file.system)
  <2>1. InstructionErrors(file.system) = {}
    BY AgentParts
  <2> QED BY <2>1 DEF InstructionErrors, InvalidInstructions, Error
<1>4. \A list \in {file.tools, file.skills, file.subagents} :
        ~(list.shape = "bad" \/ Blank(list) \/ Repeats(list))
  <2>1. \A list : StringsErrors(list) = {} => ~(list.shape = "bad" \/ Blank(list) \/ Repeats(list))
    BY DEF StringsErrors, Error
  <2> QED BY <2>1, AgentParts
<1>5. ~InvalidAgentField(file)
  BY <1>3, <1>4, AgentParts DEF InvalidAgentField, Readable
<1> QED BY <1>2, <1>5, AgentParts DEF ValidFile

-----------------------------------------------------------------------------
\* The agents of a Recipe without a diagnostic: each file, and each agent.
LEMMA AgentsParts ==
  ASSUME AgentsErrors(recipe) = {}
  PROVE  /\ \A p \in AgentPaths(recipe) : AgentErrors(recipe.files[p[Len(p)]]) = {}
         /\ ~Twice(recipe)
         /\ \A name \in DOMAIN Sources(recipe) :
              /\ InheritanceErrors(Sources(recipe), name) = {}
              /\ ModelProvided(Sources(recipe), name)
              /\ ReferenceErrors(recipe, Sources(recipe), name) = {}
              /\ ResolvedMcpErrors(recipe.pkg, Sources(recipe), name) = {}
<1> DEFINE sources == Sources(recipe)
           own == UNION {AgentErrors(recipe.files[p[Len(p)]]) : p \in AgentPaths(recipe)}
           names == UNION {InheritanceErrors(sources, name)
                             \cup Error("agent.model.name_missing", ~ModelProvided(sources, name))
                             \cup ReferenceErrors(recipe, sources, name)
                             \cup ResolvedMcpErrors(recipe.pkg, sources, name) : name \in DOMAIN sources}
           twice == Error("agent.name_duplicate", Twice(recipe))
<1>1. AgentsErrors(recipe) = own \cup twice \cup names
  BY DEF AgentsErrors
<1> HIDE DEF own, names, twice
<1>2. own = {} /\ twice = {} /\ names = {}
  BY <1>1
<1>3. \A p \in AgentPaths(recipe) : AgentErrors(recipe.files[p[Len(p)]]) = {}
  BY <1>2 DEF own
<1>4. ~Twice(recipe)
  BY <1>2 DEF twice, Error
<1> HIDE DEF sources
<1>5. ASSUME NEW name \in DOMAIN sources
      PROVE  /\ InheritanceErrors(sources, name) = {} /\ ModelProvided(sources, name)
             /\ ReferenceErrors(recipe, sources, name) = {}
             /\ ResolvedMcpErrors(recipe.pkg, sources, name) = {}
  <2>1. InheritanceErrors(sources, name)
          \cup Error("agent.model.name_missing", ~ModelProvided(sources, name))
          \cup ReferenceErrors(recipe, sources, name)
          \cup ResolvedMcpErrors(recipe.pkg, sources, name) = {}
    BY <1>2 DEF names
  <2>2. Error("agent.model.name_missing", ~ModelProvided(sources, name)) = {}
    BY <2>1
  <2>3. ModelProvided(sources, name)
    BY <2>2 DEF Error
  <2> QED BY <2>1, <2>3
<1> QED BY <1>3, <1>4, <1>5 DEF sources

\* Every file that the runtime reads is one that the checker has passed.
LEMMA FilesPass ==
  ASSUME Agreed, NEW f \in AgentFilesRead(recipe)
  PROVE  Holds(recipe.files[f]) /\ AgentErrors(recipe.files[f]) = {} /\ ValidFile(recipe.files[f])
<1>1. AgentPath(f) \in AgentPaths(recipe)
  BY FilesAgree DEF Agreed
<1>2. AgentPath(f)[Len(AgentPath(f))] = f
  BY DEF AgentPath
<1>3. AgentErrors(recipe.files[f]) = {}
  <2> DEFINE p == AgentPath(f)
  <2> HIDE DEF p
  <2>1. p \in AgentPaths(recipe) /\ p[Len(p)] = f
    BY <1>1, <1>2 DEF p
  <2> QED BY <2>1, AgentsParts DEF Agreed
<1>4. Holds(recipe.files[f])
  <2>1. f \in AgentFiles /\ TimesRead(recipe, f) > 0
    BY DEF AgentFilesRead
  <2>2. recipe.files[f].present
    BY <2>1 DEF TimesRead
  <2> QED BY <2>1, <2>2 DEF Holds, Agreed, IsTree
<1> QED BY <1>3, <1>4, FileIsValid

\* Both readers have the same agents, from the same files.
LEMMA SourcesAgree ==
  ASSUME Agreed
  PROVE  /\ DOMAIN Sources(recipe) = DOMAIN Sourced
         /\ \A name \in DOMAIN Sourced :
              /\ Sources(recipe)[name] = FileOf(name) /\ Sourced[name] = ParseFile(FileOf(name))
              /\ \E f \in AgentFilesRead(recipe) : FileOf(name) = recipe.files[f]
         /\ DOMAIN Sourced = {recipe.files[f].name : f \in AgentFilesRead(recipe)}
         /\ ~DeclaredTwice(recipe)
<1>1. \A f \in AgentFilesRead(recipe) : Readable(recipe.files[f]) /\ ValidFile(recipe.files[f])
  BY FilesPass, AgentParts
<1>2. {f \in AgentFilesRead(recipe) : ValidFile(recipe.files[f])} = AgentFilesRead(recipe)
  BY <1>1
<1>3. {f \in AgentFiles : <<"agents", f>> \in AgentPaths(recipe) /\ Readable(recipe.files[f])}
        = AgentFilesRead(recipe)
  <2>1. AgentFilesRead(recipe) = {f \in AgentFiles : <<"agents", f>> \in AgentPaths(recipe)}
    BY FilesAgree DEF Agreed, AgentPath
  <2> QED BY <1>1, <2>1
<1>4. /\ DOMAIN Sources(recipe) = {recipe.files[f].name : f \in AgentFilesRead(recipe)}
      /\ \A name \in DOMAIN Sources(recipe) : Sources(recipe)[name] = FileOf(name)
  BY <1>3 DEF Sources, FileOf
<1>5. /\ DOMAIN Sourced = {recipe.files[f].name : f \in AgentFilesRead(recipe)}
      /\ \A name \in DOMAIN Sourced : Sourced[name] = ParseFile(FileOf(name))
  BY <1>2 DEF Sourced, RecipeAgentSources, FileOf
<1>6. ~DeclaredTwice(recipe)
  <2>1. \A f \in AgentFilesRead(recipe) : ~(TimesRead(recipe, f) > 1)
    BY DEF Agreed, Overlooked, ReachedTwice, AgentFilesRead
  <2>2. ~\E a, b \in AgentFilesRead(recipe) : a # b /\ recipe.files[a].name = recipe.files[b].name
    BY <1>3, AgentsParts DEF Twice, Agreed
  <2> QED BY <1>2, <2>1, <2>2 DEF DeclaredTwice
<1>7. \A name \in DOMAIN Sourced : \E f \in AgentFilesRead(recipe) : FileOf(name) = recipe.files[f]
  <2> TAKE name \in DOMAIN Sourced
  <2>1. \E f \in AgentFilesRead(recipe) : recipe.files[f].name = name
    BY <1>5
  <2> QED BY <2>1 DEF FileOf
<1> QED BY <1>4, <1>5, <1>6, <1>7

\* What each reader takes for an agent's own, whoever's it is.
LEMMA AgentFile ==
  ASSUME Agreed, NEW name \in DOMAIN Sourced
  PROVE  /\ Sources(recipe)[name] = FileOf(name) /\ Sourced[name] = ParseFile(FileOf(name))
         /\ Holds(FileOf(name)) /\ AgentErrors(FileOf(name)) = {} /\ ValidFile(FileOf(name))
         /\ name \in DOMAIN Sources(recipe)
BY SourcesAgree, FilesPass

\* Each agent inherits from the same one.
LEMMA ParentsAgree ==
  ASSUME Agreed
  PROVE  Parents(Sources(recipe)) = Froms(Sourced)
<1>1. ASSUME NEW name \in DOMAIN Sourced
      PROVE  Sourced[name].from = IF IsNonEmpty(Sources(recipe)[name].from)
                                  THEN Sources(recipe)[name].from ELSE "none"
  <2> DEFINE from == FileOf(name).from
  <2>1. Sources(recipe)[name].from = from /\ Sourced[name].from = from
    BY <1>1, AgentFile DEF ParseFile
  <2>2. from = "none" \/ from \in Portable
    BY <1>1, AgentFile, AgentParts
  <2>3. from \in Portable => IsNonEmpty(from)
    BY NamesAssumption
  <2> QED BY <2>1, <2>2, <2>3
<1> DEFINE parent == [name \in DOMAIN Sourced |-> IF IsNonEmpty(Sources(recipe)[name].from)
                                  THEN Sources(recipe)[name].from ELSE "none"]
<1>2. Parents(Sources(recipe)) = parent
  BY SourcesAgree DEF Parents
<1>3. parent = [name \in DOMAIN Sourced |-> Sourced[name].from]
  BY <1>1
<1> QED BY <1>2, <1>3 DEF Froms

\* The line of an agent begins with the agent.
LEMMA LineageBegins ==
  ASSUME NEW from, NEW name \in DOMAIN from, name # "none"
  PROVE  Lineage(from, name) # <<>>
<1> DEFINE up == WayUp(from, name)
           T == {n \in Nat : n + 1 <= MaxDepth => Len(up[n + 1]) >= 1 /\ up[n + 1] \in Seq(DOMAIN from)}
<1>1. IsWayUp(from, name, up, MaxDepth) /\ Lineage(from, name) = up[MaxDepth]
  BY LineageIsWayUp
<1>2. up[0] = <<>> /\ \A k \in 1..MaxDepth : up[k] = Step(from, name, up[k - 1])
  BY <1>1, SourceAssumption DEF IsWayUp
<1> HIDE DEF up
<1>3. up[1] = <<name>>
  <2>1. Following(from, name, <<>>) = name
    BY DEF Following
  <2>2. ToSet(<<>>) = {}
    BY DEF ToSet
  <2>3. Continues(from, name, <<>>)
    BY <2>1, <2>2 DEF Continues
  <2>4. up[1] = Step(from, name, <<>>)
    BY <1>2, SourceAssumption
  <2>5. Append(<<>>, name) = <<name>>
    OBVIOUS
  <2> QED BY <2>1, <2>3, <2>4, <2>5 DEF Step
<1>4. 0 \in T
  <2>1. <<name>> \in Seq(DOMAIN from) /\ Len(<<name>>) = 1 /\ 0 + 1 = 1
    OBVIOUS
  <2>2. up[0 + 1] = <<name>>
    BY <1>3, <2>1
  <2>3. Len(up[0 + 1]) >= 1 /\ up[0 + 1] \in Seq(DOMAIN from)
    BY <2>1, <2>2
  <2> QED BY <2>3
<1>5. ASSUME NEW n \in Nat, n \in T PROVE n + 1 \in T
  <2> SUFFICES ASSUME (n + 1) + 1 <= MaxDepth
               PROVE  Len(up[(n + 1) + 1]) >= 1 /\ up[(n + 1) + 1] \in Seq(DOMAIN from)
    OBVIOUS
  <2> DEFINE before == up[n + 1]
             after == up[(n + 1) + 1]
  <2>1. before \in Seq(DOMAIN from) /\ Len(before) >= 1
    BY <1>5, SourceAssumption
  <2>2. after = Step(from, name, before)
    <3>1. (n + 1) + 1 \in 1..MaxDepth /\ ((n + 1) + 1) - 1 = n + 1
      BY SourceAssumption
    <3> QED BY <1>2, <3>1
  <2> HIDE DEF before, after
  <2>3. CASE Continues(from, name, before)
    <3> DEFINE next == Following(from, name, before)
    <3>1. next \in DOMAIN from
      BY <2>3 DEF Continues
    <3> HIDE DEF next
    <3>2. Append(before, next) \in Seq(DOMAIN from) /\ Len(Append(before, next)) = Len(before) + 1
      BY <2>1, <3>1
    <3>3. after = Append(before, next)
      BY <2>2, <2>3 DEF Step, next
    <3>4. Len(after) >= 1 /\ after \in Seq(DOMAIN from)
      BY <2>1, <3>2, <3>3
    <3> QED BY <3>4 DEF after
  <2>4. CASE ~Continues(from, name, before)
    <3>1. after = before
      BY <2>2, <2>4 DEF Step
    <3> QED BY <2>1, <3>1 DEF after
  <2> QED BY <2>3, <2>4
<1>6. \A n \in Nat : n \in T
  <2> HIDE DEF T
  <2> QED BY <1>4, <1>5, Induction
<1>7. MaxDepth - 1 \in Nat /\ (MaxDepth - 1) + 1 = MaxDepth
  BY SourceAssumption
<1>8. Len(up[MaxDepth]) >= 1
  BY <1>6, <1>7
<1> QED BY <1>1, <1>8

\* The line of an agent is the same, and it has a root.
LEMMA LinesAgree ==
  ASSUME Agreed, NEW name \in DOMAIN Sourced
  PROVE  LET line == LineageOf(Sourced, name) IN
         /\ Lineage(Parents(Sources(recipe)), name) = line
         /\ line \in Seq(DOMAIN Sourced) /\ line # <<>>
         /\ Rooted(Sourced, name)
<1> DEFINE line == LineageOf(Sourced, name)
<1>1. Lineage(Parents(Sources(recipe)), name) = line
  BY ParentsAgree DEF LineageOf
<1>2. line \in Seq(DOMAIN Sourced)
  BY DefinitionIsOver
<1>3. line # <<>>
  <2>1. name \in Portable
    <3>1. PICK f \in AgentFilesRead(recipe) : name = recipe.files[f].name
      BY SourcesAgree
    <3> QED BY <3>1, FilesPass, AgentParts
  <2>2. name # "none" /\ DOMAIN Froms(Sourced) = DOMAIN Sourced
    BY <2>1, NamesAssumption DEF Froms
  <2> QED BY <2>2, LineageBegins DEF LineageOf
<1>4. Rooted(Sourced, name)
  <2>1. InheritanceErrors(Sources(recipe), name) = {}
    BY AgentFile, AgentsParts DEF Agreed
  <2>2. Parents(Sources(recipe))[Last(line)] = "none"
    BY <1>1, <2>1 DEF InheritanceErrors
  <2>3. Last(line) \in DOMAIN Sourced
    BY <1>2, <1>3 DEF Last
  <2>4. Froms(Sourced)[Last(line)] = Sourced[Last(line)].from
    BY <2>3 DEF Froms
  <2> QED BY <2>2, <2>4, ParentsAgree DEF Rooted
<1> QED BY <1>1, <1>2, <1>3, <1>4

\* The models that the agents name.
LEMMA NameAgrees ==
  ASSUME NEW file, Holds(file), AgentErrors(file) = {}
  PROVE  /\ ParseFile(file).config.name \in Specs \cup {"none"}
         /\ NamesModel(file) => ParseFile(file).config.name # "none"
<1> DEFINE m == IF file.ai.shape = "none" THEN file.model ELSE file.ai
           key == IF file.ai.shape = "none" THEN "name" ELSE "model"
           name == ParseFile(file).config.name
           value == Scalar(m, <<key>>)
<1>1. name = Text(m, key)
  BY DEF ParseFile, ModelConfig
<1>2. IsBlock(file.model) /\ IsBlock(file.ai)
  BY DEF Holds, IsFile, BlockFields
<1>3. \A block, path : IsBlock(block) /\ block.shape = "none" => ~Has(block, path)
  BY DEF IsBlock, Has
<1>4. Has(m, <<key>>) => IsNonEmpty(value) /\ Trim(value) \in Specs
  <2>1. ASSUME file.ai.shape = "none", Has(file.model, <<"name">>)
        PROVE  SpecErrors(file.model, "name", "agent.model.name_invalid") = {}
    <3>1. file.model.shape = "map" \/ file.model.shape = "bad"
      BY <1>2, <1>3, <2>1 DEF IsBlock
    <3> QED BY <3>1, AgentParts DEF ModelErrors
  <2>2. ASSUME file.ai.shape # "none", Has(file.ai, <<"model">>)
        PROVE  SpecErrors(file.ai, "model", "agent.ai.model_invalid") = {}
    <3>1. file.ai.shape = "map" \/ file.ai.shape = "bad"
      BY <1>2, <2>2 DEF IsBlock
    <3> QED BY <3>1, AgentParts DEF AiErrors
  <2>3. CASE file.ai.shape = "none"
    BY <2>1, <2>3, SpecAgrees
  <2>4. CASE file.ai.shape # "none"
    BY <2>2, <2>4, SpecAgrees
  <2> QED BY <2>3, <2>4
<1>5. NamesModel(file) => Has(m, <<key>>)
  <2>1. CASE file.ai.shape = "none"
    <3>1. ~Has(file.ai, <<"model">>)
      BY <1>2, <1>3, <2>1
    <3> QED BY <2>1, <3>1 DEF NamesModel
  <2>2. CASE file.ai.shape # "none"
    <3>1. file.model.shape = "none"
      BY <2>2, AgentParts
    <3>2. ~Has(file.model, <<"name">>)
      BY <1>2, <1>3, <3>1
    <3> QED BY <2>2, <3>2 DEF NamesModel
  <2> QED BY <2>1, <2>2
<1>6. name = IF Has(m, <<key>>) /\ Trim(value) # Empty THEN Trim(value) ELSE "none"
  BY <1>1 DEF Text
<1> HIDE DEF m, key, name, value
<1>7. name \in Specs \cup {"none"}
  BY <1>4, <1>6
<1>8. NamesModel(file) => name # "none"
  BY <1>4, <1>5, <1>6, NamesAssumption DEF IsNonEmpty
<1> QED BY <1>7, <1>8 DEF name

\* The line of every agent names a model.
LEMMA ModelIsProvided ==
  ASSUME Agreed, NEW name \in DOMAIN Sourced
  PROVE  \E i \in 1..Len(LineageOf(Sourced, name)) :
           Sourced[LineageOf(Sourced, name)[i]].config.name # "none"
<1> DEFINE line == LineageOf(Sourced, name)
<1>1. PICK n \in ToSet(line) : NamesModel(Sources(recipe)[n])
  <2>1. ModelProvided(Sources(recipe), name)
    BY AgentFile, AgentsParts DEF Agreed
  <2> QED BY <2>1, LinesAgree DEF ModelProvided
<1>2. PICK i \in 1..Len(line) : n = line[i]
  BY <1>1, LinesAgree DEF ToSet
<1>3. n \in DOMAIN Sourced
  BY <1>2, LinesAgree
<1>4. Sourced[n].config.name # "none"
  BY <1>1, <1>3, AgentFile, NameAgrees
<1> QED BY <1>2, <1>4

-----------------------------------------------------------------------------
\* The block mcp: what the checker passes and keeps, and what the parser makes.
SelectorKeys == {"include", "exclude", "defer", "eager"}

\* A list that is not given names nothing.
LEMMA NoListTrimmed ==
  ASSUME NEW list, list.items = <<>>
  PROVE  Trimmed(list) = {} /\ ~Repeats(list)
<1>1. Trimmed(list) = {}
  BY DEF Trimmed, ToSet
<1> QED BY <1>1, FS_EmptySet DEF Repeats

\* A list of tools that the checker passes: no blank, no repetition, no
\* partial wildcard.
LEMMA SelectorAgrees ==
  ASSUME NEW key \in SelectorKeys, NEW list, IsList(list), SelectorErrors(key, list) = {}
  PROVE  /\ list.shape # "bad" /\ ~Blank(list) /\ ~Repeats(list)
         /\ Trimmed(list) \cap (Wild \cup {Empty}) = {}
         /\ key = "exclude" => "*" \notin Trimmed(list)
         /\ key \in {"defer", "eager"} => ValidActivation(list)
<1>1. CASE list.shape = "none"
  <2>1. Trimmed(list) = {} /\ ~Repeats(list)
    BY <1>1, NoListTrimmed DEF IsList
  <2> QED BY <1>1, <2>1 DEF Blank, ValidActivation
<1>2. CASE list.shape # "none"
  <2>1. list.shape # "bad" /\ ~Blank(list)
    BY <1>2 DEF SelectorErrors
  <2> DEFINE wild == Error("agent.mcp_selector_invalid",
               Trimmed(list) \cap (Wild \cup IF key = "exclude" THEN {"*"} ELSE {}) # {})
             repeated == Error("agent.mcp_selector_duplicate", Repeats(list))
             alone == Error("agent.mcp_activation_selector_invalid",
               key \in {"defer", "eager"} /\ "*" \in Trimmed(list) /\ Len(list.items) # 1)
  <2>2. SelectorErrors(key, list) = repeated \cup wild \cup alone
    BY <1>2, <2>1 DEF SelectorErrors
  <2> HIDE DEF wild, repeated, alone
  <2>3. repeated = {} /\ wild = {} /\ alone = {}
    BY <2>2
  <2>4. ~Repeats(list)
    BY <2>3 DEF repeated, Error
  <2>5. Trimmed(list) \cap (Wild \cup IF key = "exclude" THEN {"*"} ELSE {}) = {}
    BY <2>3 DEF wild, Error
  <2>6. key \in {"defer", "eager"} /\ "*" \in Trimmed(list) => Len(list.items) = 1
    BY <2>3 DEF alone, Error
  <2>7. Trimmed(list) \cap (Wild \cup {Empty}) = {}
    BY <2>1, <2>5 DEF Blank
  <2> QED BY <2>1, <2>4, <2>5, <2>6, <2>7 DEF ValidActivation
<1> QED BY <1>1, <1>2

\* A server's entry without a diagnostic has none of any part.
LEMMA ServerParts ==
  ASSUME NEW mode, NEW id, NEW server, AgentServerErrors(mode, id, server) = {}
  PROVE  /\ Trim(id) # Empty /\ server.shape # "bad" /\ ~server.odd
         /\ ~(mode = "cli" /\ (Given(server.defer) \/ Given(server.eager)))
         /\ \A key \in SelectorKeys : SelectorErrors(key, server[key]) = {}
<1>1. Trim(id) # Empty /\ server.shape # "bad"
  BY DEF AgentServerErrors
<1> DEFINE odd == Error("agent.mcp_key_unknown", server.odd)
           activated == Error("agent.mcp_activation_invalid",
                              mode = "cli" /\ (Given(server.defer) \/ Given(server.eager)))
           lists == UNION {SelectorErrors(key, server[key]) : key \in {"include", "exclude", "defer", "eager"}}
<1>2. AgentServerErrors(mode, id, server) = odd \cup activated \cup lists
  BY <1>1 DEF AgentServerErrors
<1> HIDE DEF odd, activated, lists
<1>3. odd = {} /\ activated = {} /\ lists = {}
  BY <1>2
<1>4. ~server.odd
  BY <1>3 DEF odd, Error
<1>5. ~(mode = "cli" /\ (Given(server.defer) \/ Given(server.eager)))
  BY <1>3 DEF activated, Error
<1>6. \A key \in SelectorKeys : SelectorErrors(key, server[key]) = {}
  BY <1>3 DEF lists, SelectorKeys
<1> QED BY <1>1, <1>4, <1>5, <1>6

\* Nor has a block mcp.
LEMMA McpParts ==
  ASSUME NEW mcp, AgentMcpErrors(mcp) = {}, mcp.shape # "none"
  PROVE  /\ mcp.shape # "bad" /\ mcp.mode \in {"none", "cli", "tools"} /\ mcp.has = "map" /\ ~mcp.odd
         /\ \A id \in DOMAIN mcp.servers : AgentServerErrors(mcp.mode, id, mcp.servers[id]) = {}
         /\ ~\E a, b \in DOMAIN mcp.servers : a # b /\ IdOf[a] = IdOf[b]
<1>1. mcp.shape # "bad"
  BY DEF AgentMcpErrors
<1> DEFINE mode == Error("agent.mcp_mode_invalid", mcp.mode \notin {"none", "cli", "tools"})
           has == Error("agent.mcp_servers_invalid", mcp.has # "map")
           odd == Error("agent.mcp_key_unknown", mcp.odd /\ mcp.has # "bad")
           servers == UNION {AgentServerErrors(mcp.mode, id, mcp.servers[id]) : id \in DOMAIN mcp.servers}
           twice == Error("agent.mcp_server_collision",
               \E a, b \in {id \in DOMAIN mcp.servers : Trim(id) # Empty} :
                 a # b /\ IdOf[a] = IdOf[b])
<1>2. AgentMcpErrors(mcp) = mode \cup has \cup odd \cup servers \cup twice
  BY <1>1 DEF AgentMcpErrors
<1> HIDE DEF mode, has, odd, servers, twice
<1>3. mode = {} /\ has = {} /\ odd = {} /\ servers = {} /\ twice = {}
  BY <1>2
<1>4. mcp.mode \in {"none", "cli", "tools"}
  BY <1>3 DEF mode, Error
<1>5. mcp.has = "map"
  BY <1>3 DEF has, Error
<1>6. ~mcp.odd
  BY <1>3, <1>5 DEF odd, Error
<1>7. \A id \in DOMAIN mcp.servers : AgentServerErrors(mcp.mode, id, mcp.servers[id]) = {}
  BY <1>3 DEF servers
<1>8. {id \in DOMAIN mcp.servers : Trim(id) # Empty} = DOMAIN mcp.servers
  BY <1>7, ServerParts
<1>9. ~\E a, b \in {id \in DOMAIN mcp.servers : Trim(id) # Empty} : a # b /\ IdOf[a] = IdOf[b]
  BY <1>3 DEF twice, Error
<1> QED BY <1>1, <1>4, <1>5, <1>6, <1>7, <1>8, <1>9

\* One server's selection, as the parser takes it.
AsParsed(server) == Selection(server.include, server.exclude, server.defer, server.eager)

\* A server that the checker passes is one that the parser keeps as it is.
LEMMA ServerAgrees ==
  ASSUME NEW mode, NEW id, NEW server, AgentServerErrors(mode, id, server) = {},
         \A key \in SelectorKeys : IsList(server[key])
  PROVE  /\ ~MalformedServer(mode, server)
         /\ ValidSelection(AsParsed(server))
         /\ ValidActivation(server.defer) /\ ValidActivation(server.eager)
         /\ KeptSelection(mode, server).include = server.include
         /\ KeptSelection(mode, server).exclude = server.exclude
         /\ Activated(KeptSelection(mode, server)) = Activated(server)
         /\ Given(KeptSelection(mode, server).defer) = Given(server.defer)
         /\ Given(KeptSelection(mode, server).eager) = Given(server.eager)
<1>1. \A key \in SelectorKeys :
        LET list == server[key] IN
        /\ list.shape # "bad" /\ ~Blank(list) /\ ~Repeats(list)
        /\ Trimmed(list) \cap (Wild \cup {Empty}) = {}
        /\ key = "exclude" => "*" \notin Trimmed(list)
        /\ key \in {"defer", "eager"} => ValidActivation(list)
  BY ServerParts, SelectorAgrees
<1>2. \A key \in SelectorKeys : Kept(server[key]) = server[key]
  BY <1>1 DEF Kept
<1>3. ~MalformedServer(mode, server)
  BY <1>1, ServerParts DEF MalformedServer, SelectorKeys
<1>4. ValidSelection(AsParsed(server))
  <2>1. /\ Trimmed(server["include"]) \cap (Wild \cup {Empty}) = {}
        /\ Trimmed(server["exclude"]) \cap (Wild \cup {Empty, "*"}) = {}
    BY <1>1 DEF SelectorKeys
  <2>2. server["include"].shape # "bad" /\ server["exclude"].shape # "bad"
    BY <1>1 DEF SelectorKeys
  <2> QED BY <2>1, <2>2 DEF ValidSelection, AsParsed, Selection
<1>5. ValidActivation(server.defer) /\ ValidActivation(server.eager)
  BY <1>1 DEF SelectorKeys
<1> DEFINE kept == KeptSelection(mode, server)
<1>6. kept.include = server.include /\ kept.exclude = server.exclude
  BY <1>2 DEF KeptSelection, Selection, SelectorKeys
<1>7. CASE mode = "cli"
  <2>1. ~Given(server.defer) /\ ~Given(server.eager)
    BY <1>7, ServerParts
  <2>2. server["defer"].items = <<>> /\ server["eager"].items = <<>>
    BY <2>1 DEF IsList, Given, SelectorKeys
  <2>3. Trimmed(server.defer) = {} /\ Trimmed(server.eager) = {}
    BY <2>2, NoListTrimmed
  <2>4. Trimmed(NoList) = {} /\ ~Given(NoList)
    BY NoListTrimmed DEF NoList, Given
  <2>5. kept.defer = NoList /\ kept.eager = NoList
    BY <1>7 DEF KeptSelection, Selection
  <2>6. /\ Activated(kept) = Activated(server)
        /\ Given(kept.defer) = Given(server.defer) /\ Given(kept.eager) = Given(server.eager)
    <3> HIDE DEF kept
    <3> QED BY <2>1, <2>3, <2>4, <2>5 DEF Activated, Given
  <2> QED BY <1>3, <1>4, <1>5, <1>6, <2>6
<1>8. CASE mode # "cli"
  <2>1. kept.defer = server.defer /\ kept.eager = server.eager
    BY <1>2, <1>8 DEF KeptSelection, Selection, SelectorKeys
  <2>2. Activated(kept) = Activated(server)
    <3> HIDE DEF kept
    <3> QED BY <2>1 DEF Activated
  <2>3. Given(kept.defer) = Given(server.defer) /\ Given(kept.eager) = Given(server.eager)
    <3> HIDE DEF kept
    <3> QED BY <2>1
  <2> QED BY <1>3, <1>4, <1>5, <1>6, <2>2, <2>3
<1> QED BY <1>7, <1>8

\* The block that the parser makes is, server by server, the one that the
\* checker keeps.
LEMMA BlockAgrees ==
  ASSUME NEW mcp, IsMcp(mcp), AgentMcpErrors(mcp) = {}, mcp.shape # "none"
  PROVE  LET parsed == ParseMcp(mcp)
             kept == KeptMcp(mcp) IN
         /\ ~parsed.invalid
         /\ parsed.mode = "tools" <=> kept.mode = "tools"
         /\ DOMAIN parsed.servers = DOMAIN kept.servers
         /\ \A id \in DOMAIN parsed.servers :
              LET s == parsed.servers[id]
                  k == kept.servers[id] IN
              /\ ValidSelection(s) /\ ValidActivation(s.defer) /\ ValidActivation(s.eager)
              /\ k.include = s.include /\ k.exclude = s.exclude /\ Activated(k) = Activated(s)
              /\ Given(k.defer) = Given(s.defer) /\ Given(k.eager) = Given(s.eager)
<1> DEFINE ids == DOMAIN mcp.servers
           under(id) == mcp.servers[CHOOSE k \in ids : IdOf[k] = id]
           parsed == ParseMcp(mcp)
           kept == KeptMcp(mcp)
<1>1. /\ mcp.shape # "bad" /\ mcp.mode \in {"none", "cli", "tools"} /\ mcp.has = "map" /\ ~mcp.odd
      /\ \A id \in ids : AgentServerErrors(mcp.mode, id, mcp.servers[id]) = {}
      /\ ~\E a, b \in ids : a # b /\ IdOf[a] = IdOf[b]
  BY McpParts
<1>2. \A id \in ids : \A key \in SelectorKeys : IsList(mcp.servers[id][key])
  BY DEF IsMcp, SelectorKeys
<1>3. \A id \in ids : Trim(id) # Empty /\ mcp.servers[id].shape # "bad" /\ ~MalformedServer(mcp.mode, mcp.servers[id])
  BY <1>1, <1>2, ServerParts, ServerAgrees
<1>4. ~parsed.invalid
  BY <1>1, <1>3 DEF ParseMcp
<1>5. (parsed.mode = "tools") = (kept.mode = "tools")
  BY <1>1 DEF ParseMcp, KeptMcp
<1>6. {id \in ids : Trim(id) # Empty /\ mcp.servers[id].shape # "bad"} = ids
  BY <1>3
<1>7. /\ DOMAIN parsed.servers = {IdOf[k] : k \in ids}
      /\ \A id \in {IdOf[k] : k \in ids} : parsed.servers[id] = AsParsed(under(id))
  BY DEF ParseMcp, AsParsed
<1>8. /\ DOMAIN kept.servers = {IdOf[k] : k \in ids}
      /\ \A id \in {IdOf[k] : k \in ids} : kept.servers[id] = KeptSelection(mcp.mode, under(id))
  BY <1>6 DEF KeptMcp
<1>9. \A id \in {IdOf[k] : k \in ids} : \E w \in ids : under(id) = mcp.servers[w]
  OBVIOUS
<1> HIDE DEF under, parsed, kept
<1>10. ASSUME NEW id \in {IdOf[k] : k \in ids}
       PROVE  LET s == parsed.servers[id]
                  k == kept.servers[id] IN
              /\ ValidSelection(s) /\ ValidActivation(s.defer) /\ ValidActivation(s.eager)
              /\ k.include = s.include /\ k.exclude = s.exclude /\ Activated(k) = Activated(s)
              /\ Given(k.defer) = Given(s.defer) /\ Given(k.eager) = Given(s.eager)
  <2>1. PICK w \in ids : under(id) = mcp.servers[w]
    BY <1>9
  <2> DEFINE server == mcp.servers[w]
  <2>2. AgentServerErrors(mcp.mode, w, server) = {} /\ \A key \in SelectorKeys : IsList(server[key])
    BY <1>1, <1>2
  <2>3. parsed.servers[id] = AsParsed(server) /\ kept.servers[id] = KeptSelection(mcp.mode, server)
    BY <1>7, <1>8, <2>1
  <2> HIDE DEF server
  <2>4. /\ AsParsed(server).include = server.include /\ AsParsed(server).exclude = server.exclude
        /\ AsParsed(server).defer = server.defer /\ AsParsed(server).eager = server.eager
    BY DEF AsParsed, Selection
  <2>5. Activated(AsParsed(server)) = Activated(server)
    BY <2>4 DEF Activated
  <2> QED BY <2>2, <2>3, <2>4, <2>5, ServerAgrees
<1> QED BY <1>4, <1>5, <1>7, <1>8, <1>10 DEF parsed, kept

\* The package's selections.
LEMMA PoliciesAgree ==
  ASSUME IsTree(recipe), PackageErrors(recipe) = {}
  PROVE  ToolPolicy(recipe.pkg) = PackageTools(recipe.pkg)
<1> DEFINE servers == recipe.pkg.servers
           ids == {IdOf[servers[i].id] : i \in DOMAIN servers}
           at(id) == {i \in DOMAIN servers : IdOf[servers[i].id] = id}
           last(id) == CHOOSE i \in at(id) : \A j \in at(id) : j <= i
           first(id) == CHOOSE i \in at(id) : \A j \in at(id) : i <= j
<1>1. DOMAIN servers = 1..Len(servers) /\ Len(servers) \in Nat
  BY DEF IsTree, IsServers
<1>2. ~\E i \in DOMAIN servers : \E j \in 1..(i - 1) : IdOf[servers[j].id] = IdOf[servers[i].id]
  BY PackageParts, ServersAgree DEF McpFindings
<1>3. ASSUME NEW id \in ids PROVE \E i : at(id) = {i}
  <2>1. PICK i \in DOMAIN servers : IdOf[servers[i].id] = id
    OBVIOUS
  <2>2. ASSUME NEW j \in DOMAIN servers, IdOf[servers[j].id] = id PROVE j = i
    <3>1. ~(j \in 1..(i - 1)) /\ ~(i \in 1..(j - 1))
      BY <1>2, <2>1, <2>2
    <3> QED BY <1>1, <3>1
  <2>3. at(id) = {i}
    BY <2>1, <2>2
  <2> QED BY <2>3
<1>4. \A id \in ids : last(id) = first(id)
  <2> TAKE id \in ids
  <2>1. PICK i : at(id) = {i}
    BY <1>3
  <2>2. i \in Nat
    BY <1>1, <2>1
  <2> HIDE DEF at
  <2> QED BY <2>1, <2>2
<1>5. [id \in ids |-> servers[last(id)].tools] = [id \in ids |-> servers[first(id)].tools]
  <2> HIDE DEF last, first, ids, servers
  <2> QED BY <1>4
<1> QED BY <1>5 DEF ToolPolicy, PackageTools

-----------------------------------------------------------------------------
\* Each agent's own block mcp, as both readers have it.
LEMMA ParsedBlock ==
  ASSUME Agreed, NEW n \in DOMAIN Sourced
  PROVE  /\ Sourced[n].mcp = ParseMcp(FileOf(n).mcp) /\ Sources(recipe)[n].mcp = FileOf(n).mcp
         /\ IsMcp(FileOf(n).mcp) /\ AgentMcpErrors(FileOf(n).mcp) = {}
         /\ Sourced[n].mcp.declared = (FileOf(n).mcp.shape # "none")
         /\ ~Sourced[n].mcp.invalid
         /\ \A id \in DOMAIN Sourced[n].mcp.servers : ValidSelection(Sourced[n].mcp.servers[id])
<1> DEFINE mcp == FileOf(n).mcp
<1>1. Sourced[n] = ParseFile(FileOf(n)) /\ Sources(recipe)[n] = FileOf(n)
  BY AgentFile
<1>2. Sourced[n].mcp = ParseMcp(mcp) /\ Sources(recipe)[n].mcp = mcp
  BY <1>1 DEF ParseFile
<1>3. IsMcp(mcp) /\ AgentMcpErrors(mcp) = {}
  BY AgentFile, AgentParts DEF Holds, IsFile
<1> HIDE DEF mcp
<1>4. ParseMcp(mcp).declared = (mcp.shape # "none")
  BY ParsedDeclared
<1>5. /\ ~ParseMcp(mcp).invalid
      /\ \A id \in DOMAIN ParseMcp(mcp).servers : ValidSelection(ParseMcp(mcp).servers[id])
  <2>1. CASE mcp.shape = "none"
    <3>1. ParseMcp(mcp) = NoMcp
      BY <2>1 DEF ParseMcp
    <3>2. ~NoMcp.invalid /\ NoMcp.servers = <<>>
      BY DEF NoMcp
    <3> QED BY <3>1, <3>2
  <2>2. CASE mcp.shape # "none"
    BY <1>3, <2>2, BlockAgrees
  <2> QED BY <2>1, <2>2
<1> QED BY <1>2, <1>3, <1>4, <1>5 DEF mcp

\* No block in the line of an agent is invalid.
LEMMA ChainAgrees ==
  ASSUME Agreed, NEW name \in DOMAIN Sourced
  PROVE  ~McpChainInvalid(Sourced, name)
<1> DEFINE line == LineageOf(Sourced, name)
<1>1. \A n \in ToSet(line) : n \in DOMAIN Sourced
  BY LinesAgree DEF ToSet
<1> HIDE DEF line
<1>2. \A n \in ToSet(line) : ~Sourced[n].mcp.invalid
  BY <1>1, ParsedBlock
<1>3. \A n \in ToSet(line) : \A s \in Range(Sourced[n].mcp.servers) : ValidSelection(s)
  BY <1>1, ParsedBlock DEF Range
<1> QED BY <1>2, <1>3 DEF McpChainInvalid, line

\* Both readers choose the nearest block of the line.
LEMMA NearestBlock ==
  ASSUME Agreed, NEW name \in DOMAIN Sourced
  PROVE  LET checked(n) == Sources(recipe)[n].mcp.shape # "none"
             declares(n) == Sourced[n].mcp.declared
             line == LineageOf(Sourced, name) IN
         /\ Nearest(line, checked) = Nearest(line, declares)
         /\ Nearest(line, declares) # "none" =>
              /\ Nearest(line, declares) \in DOMAIN Sourced
              /\ declares(Nearest(line, declares))
<1> DEFINE checked(n) == Sources(recipe)[n].mcp.shape # "none"
           declares(n) == Sourced[n].mcp.declared
           line == LineageOf(Sourced, name)
           at == {i \in DOMAIN line : declares(line[i])}
<1>1. \A i \in DOMAIN line : line[i] \in DOMAIN Sourced /\ i \in Nat
  BY LinesAgree
<1> HIDE DEF line
<1>2. \A i \in DOMAIN line : checked(line[i]) = declares(line[i])
  BY <1>1, ParsedBlock
<1> DEFINE also == {i \in DOMAIN line : checked(line[i])}
<1>3. also = at
  BY <1>2
<1>4. Nearest(line, checked) = IF at = {} THEN "none" ELSE line[First(at)]
  <2>1. Nearest(line, checked) = IF also = {} THEN "none" ELSE line[First(also)]
    BY DEF Nearest, First
  <2> HIDE DEF at, also
  <2> QED BY <1>3, <2>1
<1>5. Nearest(line, declares) = IF at = {} THEN "none" ELSE line[First(at)]
  BY DEF Nearest, First
<1>6. at # {} => First(at) \in at
  <2>1. at \in SUBSET Nat
    BY <1>1
  <2> HIDE DEF at
  <2> QED BY <2>1, LeastOfSome DEF First
<1>7. at # {} => line[First(at)] \in DOMAIN Sourced /\ declares(line[First(at)])
  BY <1>1, <1>6
<1>8. /\ Nearest(line, checked) = Nearest(line, declares)
      /\ Nearest(line, declares) # "none" =>
           /\ Nearest(line, declares) \in DOMAIN Sourced
           /\ declares(Nearest(line, declares))
  <2> HIDE DEF at
  <2> DEFINE nearest == Nearest(line, declares)
  <2>1. Nearest(line, checked) = nearest
    BY <1>4, <1>5
  <2>2. nearest = IF at = {} THEN "none" ELSE line[First(at)]
    BY <1>5
  <2> HIDE DEF nearest
  <2>3. nearest # "none" => nearest \in DOMAIN Sourced /\ declares(nearest)
    <3>1. ASSUME nearest # "none" PROVE nearest = line[First(at)] /\ at # {}
      BY <2>2, <3>1
    <3>2. ASSUME nearest # "none" PROVE nearest \in DOMAIN Sourced /\ declares(nearest)
      BY <1>7, <3>1, <3>2
    <3> QED BY <3>2
  <2> QED BY <2>1, <2>3 DEF nearest
<1> QED BY <1>8 DEF line

\* The block that an agent goes by, where the checker has no diagnostic of
\* it.
LEMMA ResolvedMcpParts ==
  ASSUME NEW pkg, NEW sources, NEW name, ResolvedMcpErrors(pkg, sources, name) = {}
  PROVE  LET mcp == ResolvedMcp(sources, name)
             policy == ToolPolicy(pkg) IN
         \A id \in DOMAIN mcp.servers :
           LET s == mcp.servers[id] IN
           /\ mcp.mode # "tools" => ~Given(s.defer) /\ ~Given(s.eager)
           /\ id \in DOMAIN policy
           /\ \A tool \in Trimmed(s.include) \ {"*"} : SelectionAllows(policy[id], tool)
           /\ \A tool \in Activated(s) \ {"*"} : SelectionAllows(s, tool)
<1> DEFINE mcp == ResolvedMcp(sources, name)
           policy == ToolPolicy(pkg)
           selections == Range(mcp.servers)
           activation == Error("agent.mcp_activation_invalid",
                               /\ mcp.mode # "tools"
                               /\ \E s \in selections : Given(s.defer) \/ Given(s.eager))
           undeclared == Error("agent.mcp_server_undeclared", DOMAIN mcp.servers \ DOMAIN policy # {})
           tools == Error("agent.mcp_tool_undeclared",
               \E id \in DOMAIN mcp.servers \cap DOMAIN policy :
                 \E tool \in Trimmed(mcp.servers[id].include) \ {"*"} :
                   ~SelectionAllows(policy[id], tool))
           unauthorized == Error("agent.mcp_activation_tool_unauthorized",
               \E s \in selections : \E tool \in Activated(s) \ {"*"} : ~SelectionAllows(s, tool))
<1>1. ResolvedMcpErrors(pkg, sources, name) = activation \cup undeclared \cup tools \cup unauthorized
  BY DEF ResolvedMcpErrors
<1> HIDE DEF activation, undeclared, tools, unauthorized
<1>2. activation = {} /\ undeclared = {} /\ tools = {} /\ unauthorized = {}
  BY <1>1
<1> HIDE DEF mcp, policy
<1>3. mcp.mode # "tools" => \A s \in selections : ~Given(s.defer) /\ ~Given(s.eager)
  BY <1>2 DEF activation, Error
<1>4. DOMAIN mcp.servers \ DOMAIN policy = {}
  BY <1>2 DEF undeclared, Error
<1>5. \A id \in DOMAIN mcp.servers \cap DOMAIN policy :
        \A tool \in Trimmed(mcp.servers[id].include) \ {"*"} : SelectionAllows(policy[id], tool)
  BY <1>2 DEF tools, Error
<1>6. \A s \in selections : \A tool \in Activated(s) \ {"*"} : SelectionAllows(s, tool)
  BY <1>2 DEF unauthorized, Error
<1>7. \A id \in DOMAIN mcp.servers : mcp.servers[id] \in selections
  BY DEF Range
<1> QED BY <1>3, <1>4, <1>5, <1>6, <1>7 DEF mcp, policy

\* It has no finding of the runtime's (mcp policy against package.json).
LEMMA PolicyAgrees ==
  ASSUME Agreed, NEW name \in DOMAIN Sourced
  PROVE  ~InvalidMcpPolicy(recipe.pkg, Sourced, name)
<1> DEFINE declares(n) == Sourced[n].mcp.declared
           checked(n) == Sources(recipe)[n].mcp.shape # "none"
           line == LineageOf(Sourced, name)
           nearest == Nearest(line, declares)
           mcp == IF nearest = "none" THEN NoMcp ELSE Sourced[nearest].mcp
           policy == PackageTools(recipe.pkg)
           kept == ResolvedMcp(Sources(recipe), name)
<1>1. policy = ToolPolicy(recipe.pkg)
  BY PoliciesAgree DEF Agreed
<1>2. \A id \in DOMAIN kept.servers :
           LET s == kept.servers[id] IN
           /\ kept.mode # "tools" => ~Given(s.defer) /\ ~Given(s.eager)
           /\ id \in DOMAIN policy
           /\ \A tool \in Trimmed(s.include) \ {"*"} : SelectionAllows(policy[id], tool)
           /\ \A tool \in Activated(s) \ {"*"} : SelectionAllows(s, tool)
  <2>1. ResolvedMcpErrors(recipe.pkg, Sources(recipe), name) = {}
    BY AgentFile, AgentsParts DEF Agreed
  <2> QED BY <1>1, <2>1, ResolvedMcpParts
<1>3. /\ Nearest(line, checked) = nearest
      /\ nearest # "none" => nearest \in DOMAIN Sourced /\ declares(nearest)
  BY NearestBlock
<1>4. kept = IF nearest = "none" THEN [mode |-> "none", servers |-> <<>>]
             ELSE KeptMcp(Sources(recipe)[nearest].mcp)
  <2>1. kept = IF Nearest(line, checked) = "none" THEN [mode |-> "none", servers |-> <<>>]
               ELSE KeptMcp(Sources(recipe)[Nearest(line, checked)].mcp)
    <3>1. Lineage(Parents(Sources(recipe)), name) = line
      BY LinesAgree
    <3> QED BY <3>1 DEF ResolvedMcp
  <2> HIDE DEF kept
  <2> QED BY <1>3, <2>1
<1> HIDE DEF nearest, kept, policy
<1>5. \A id \in DOMAIN mcp.servers :
        LET s == mcp.servers[id] IN
        /\ ValidSelection(s) /\ id \in DOMAIN policy
        /\ \A tool \in Trimmed(s.include) \ {"*"} : SelectionAllows(policy[id], tool)
        /\ ~(mcp.mode # "tools" /\ (Given(s.defer) \/ Given(s.eager)))
        /\ ValidActivation(s.defer) /\ ValidActivation(s.eager)
        /\ \A tool \in Activated(s) \ {"*"} : SelectionAllows(s, tool)
  <2>1. CASE nearest = "none"
    <3>1. mcp.servers = <<>>
      BY <2>1 DEF NoMcp
    <3> QED BY <3>1
  <2>2. CASE nearest # "none"
    <3> DEFINE block == FileOf(nearest).mcp
               parsed == ParseMcp(block)
    <3>1. /\ mcp = parsed /\ kept = KeptMcp(block)
          /\ IsMcp(block) /\ AgentMcpErrors(block) = {} /\ block.shape # "none"
      BY <1>3, <1>4, <2>2, ParsedBlock
    <3> HIDE DEF block, mcp
    <3>2. /\ parsed.mode = "tools" <=> kept.mode = "tools"
          /\ DOMAIN parsed.servers = DOMAIN kept.servers
          /\ \A id \in DOMAIN parsed.servers :
               LET s == parsed.servers[id]
                   k == kept.servers[id] IN
               /\ ValidSelection(s) /\ ValidActivation(s.defer) /\ ValidActivation(s.eager)
               /\ k.include = s.include /\ k.exclude = s.exclude /\ Activated(k) = Activated(s)
               /\ Given(k.defer) = Given(s.defer) /\ Given(k.eager) = Given(s.eager)
      BY <3>1, BlockAgrees
    <3> HIDE DEF parsed
    <3> TAKE id \in DOMAIN mcp.servers
    <3> DEFINE s == mcp.servers[id]
               k == kept.servers[id]
    <3>3. /\ id \in DOMAIN kept.servers
          /\ ValidSelection(s) /\ ValidActivation(s.defer) /\ ValidActivation(s.eager)
          /\ k.include = s.include /\ k.exclude = s.exclude /\ Activated(k) = Activated(s)
          /\ Given(k.defer) = Given(s.defer) /\ Given(k.eager) = Given(s.eager)
      BY <3>1, <3>2
    <3>4. /\ kept.mode # "tools" => ~Given(k.defer) /\ ~Given(k.eager)
          /\ id \in DOMAIN policy
          /\ \A tool \in Trimmed(k.include) \ {"*"} : SelectionAllows(policy[id], tool)
          /\ \A tool \in Activated(k) \ {"*"} : SelectionAllows(k, tool)
      BY <1>2, <3>3
    <3>5. mcp.mode # "tools" <=> kept.mode # "tools"
      BY <3>1, <3>2
    <3> HIDE DEF s, k
    <3>6. \A tool : SelectionAllows(k, tool) <=> SelectionAllows(s, tool)
      BY <3>3 DEF SelectionAllows
    <3>7. /\ ValidSelection(s) /\ id \in DOMAIN policy
          /\ \A tool \in Trimmed(s.include) \ {"*"} : SelectionAllows(policy[id], tool)
          /\ ~(mcp.mode # "tools" /\ (Given(s.defer) \/ Given(s.eager)))
          /\ ValidActivation(s.defer) /\ ValidActivation(s.eager)
          /\ \A tool \in Activated(s) \ {"*"} : SelectionAllows(s, tool)
      BY <3>3, <3>4, <3>5, <3>6
    <3> QED BY <3>7 DEF s
  <2> QED BY <2>1, <2>2
<1> HIDE DEF mcp
<1>6. InvalidMcpPolicy(recipe.pkg, Sourced, name) <=>
        \/ McpChainInvalid(Sourced, name)
        \/ \E id \in DOMAIN mcp.servers :
             LET s == mcp.servers[id] IN
             \/ ~ValidSelection(s) \/ id \notin DOMAIN policy
             \/ \E tool \in Trimmed(s.include) \ {"*"} : ~SelectionAllows(policy[id], tool)
             \/ mcp.mode # "tools" /\ (Given(s.defer) \/ Given(s.eager))
             \/ ~ValidActivation(s.defer) \/ ~ValidActivation(s.eager)
             \/ \E tool \in Activated(s) \ {"*"} : ~SelectionAllows(s, tool)
  BY DEF InvalidMcpPolicy, mcp, policy, nearest
<1> QED BY <1>5, <1>6, ChainAgrees

-----------------------------------------------------------------------------
\* The resolver has no finding of the agents.
LEMMA AgentsAgree ==
  ASSUME Agreed
  PROVE  ~AgentFindings(recipe)
<1>1. \A f \in AgentFilesRead(recipe) : ValidFile(recipe.files[f])
  BY FilesPass
<1>2. \A name \in DOMAIN Sourced : Sourced[name].config.name \in Specs \cup {"none"}
  BY AgentFile, NameAgrees
<1>3. \A name \in DOMAIN Sourced : ResolvedModelProvided(Sourced, name)
  <2> TAKE name \in DOMAIN Sourced
  <2> DEFINE line == LineageOf(Sourced, name)
  <2>1. PICK i \in 1..Len(line) : Sourced[line[i]].config.name # "none"
    BY ModelIsProvided
  <2>2. line[i] \in ToSet(line)
    BY LinesAgree DEF ToSet
  <2> QED BY <2>1, <2>2 DEF ResolvedModelProvided
<1>4. \A name \in DOMAIN Sourced : Rooted(Sourced, name) /\ ~InvalidMcpPolicy(recipe.pkg, Sourced, name)
  BY LinesAgree, PolicyAgrees
<1> QED BY <1>1, <1>2, <1>3, <1>4, SourcesAgree DEF AgentFindings, Sourced

\* The agents that are defined are those of the files.
LEMMA DefinedAgents ==
  ASSUME Agreed
  PROVE  /\ DOMAIN Definitions(Sourced) = DOMAIN Sourced
         /\ \A name \in DOMAIN Sourced : Definitions(Sourced)[name] = Definition(Sourced, name)
<1>1. {n \in DOMAIN Sourced : Rooted(Sourced, n)} = DOMAIN Sourced
  BY LinesAgree
<1> QED BY <1>1 DEF Definitions

\* A list of an agent is none or one of an agent's own.
LEMMA ListOfDefinition ==
  ASSUME NEW sources, NEW name, NEW field \in {"skills", "subagents"}
  PROVE  \/ Definition(sources, name)[field] = NoList
         \/ \E n \in DOMAIN sources : Definition(sources, name)[field] = sources[n][field]
<1> DEFINE line == LineageOf(sources, name)
           over == Over(sources, line)
           last == Len(line)
           at == {i \in 1..last : Given(sources[line[i]][field])}
           v == [i \in 1..(last + 1) |-> over[i][field]]
           own == [i \in 1..last |-> sources[line[i]][field]]
<1>1. /\ line \in Seq(DOMAIN sources)
      /\ Definition(sources, name) = over[1]
      /\ over[last + 1] = Bare
      /\ \A i \in 1..last : over[i] = Overlay(over[i + 1], sources[line[i]])
  BY DefinitionIsOver
<1> HIDE DEF line, over
<1>2. last \in Nat /\ \A i \in 1..last : line[i] \in DOMAIN sources
  BY <1>1
<1> HIDE DEF last
<1>3. \A i \in 1..last : v[i] = IF i \in at THEN own[i] ELSE v[i + 1]
  <2> TAKE i \in 1..last
  <2> DEFINE raw == sources[line[i]]
  <2>1. over[i] = Overlay(over[i + 1], raw)
    BY <1>1
  <2>2. over[i][field] = OrElse(raw[field], over[i + 1][field])
    <3>1. /\ over[i]["skills"] = OrElse(raw["skills"], over[i + 1]["skills"])
          /\ over[i]["subagents"] = OrElse(raw["subagents"], over[i + 1]["subagents"])
      BY <2>1 DEF Overlay
    <3> QED BY <3>1
  <2>3. i \in at <=> Given(raw[field])
    OBVIOUS
  <2>4. own[i] = raw[field]
    OBVIOUS
  <2> HIDE DEF raw, at, own
  <2> QED BY <1>2, <2>2, <2>3, <2>4 DEF OrElse
<1>4. Passes(v, own, at, last)
  BY <1>2, <1>3 DEF Passes
<1>5. v[1] = Definition(sources, name)[field] /\ v[last + 1] = NoList
  <2>1. Bare["skills"] = NoList /\ Bare["subagents"] = NoList
    BY DEF Bare
  <2> QED BY <1>1, <1>2, <2>1
<1>6. \A i \in at : line[i] \in DOMAIN sources /\ own[i] = sources[line[i]][field]
  BY <1>2
<1> HIDE DEF v, own, at
<1>7. /\ at = {} => v[1] = v[last + 1]
      /\ at # {} => First(at) \in at /\ v[1] = own[First(at)]
  BY <1>4, NearestWins
<1> QED BY <1>5, <1>6, <1>7

\* An agent has a model when one of its line names one.
LEMMA NameOfDefinition ==
  ASSUME NEW sources, NEW name,
         \E i \in 1..Len(LineageOf(sources, name)) :
           sources[LineageOf(sources, name)[i]].config.name # "none"
  PROVE  Definition(sources, name).config.name # "none"
<1> DEFINE line == LineageOf(sources, name)
           over == Over(sources, line)
           last == Len(line)
           at == {i \in 1..last : sources[line[i]].config.name # "none"}
           v == [i \in 1..(last + 1) |-> over[i].config.name]
           own == [i \in 1..last |-> sources[line[i]].config.name]
<1>1. /\ line \in Seq(DOMAIN sources)
      /\ Definition(sources, name) = over[1]
      /\ \A i \in 1..last : over[i] = Overlay(over[i + 1], sources[line[i]])
  BY DefinitionIsOver
<1>2. at # {}
  OBVIOUS
<1> HIDE DEF line, over
<1>3. last \in Nat
  BY <1>1
<1> HIDE DEF last
<1>4. \A i \in 1..last : v[i] = IF i \in at THEN own[i] ELSE v[i + 1]
  <2> TAKE i \in 1..last
  <2> DEFINE raw == sources[line[i]]
  <2>1. over[i] = Overlay(over[i + 1], raw)
    BY <1>1
  <2>2. over[i].config = MergeModelConfig(over[i + 1].config, raw.config)
    BY <2>1 DEF Overlay
  <2>3. over[i].config.name = IF raw.config.name # "none" THEN raw.config.name
                              ELSE over[i + 1].config.name
    <3> HIDE DEF raw
    <3> QED BY <2>2 DEF MergeModelConfig
  <2> QED BY <1>3, <2>3
<1>5. Passes(v, own, at, last)
  BY <1>3, <1>4 DEF Passes
<1>6. v[1] = Definition(sources, name).config.name
  BY <1>1, <1>3
<1>7. \A i \in at : own[i] # "none"
  OBVIOUS
<1> HIDE DEF v, own, at
<1>8. First(at) \in at /\ v[1] = own[First(at)]
  BY <1>2, <1>5, NearestWins
<1> QED BY <1>6, <1>7, <1>8

\* What is trimmed stays as it is.
LEMMA TrimmedOnce ==
  ASSUME NEW list
  PROVE  Trimmed(TrimEach(list)) = Trimmed(list)
<1>1. \A value : Trim(Trim(value)) = Trim(value)
  BY NamesAssumption DEF Trim
<1>2. ToSet(TrimEach(list).items) = {Trim(value) : value \in ToSet(list.items)}
  BY DEF TrimEach, ToSet
<1> QED BY <1>1, <1>2 DEF Trimmed

\* The skills found are SKILL.md files of the directories there are.
LEMMA FoundFiles ==
  ASSUME NEW path \in Known
  PROVE  Found[path] \subseteq {SkillPath(d) : d \in SkillDirs}
<1> DEFINE all == {SkillPath(d) : d \in SkillDirs}
<1>1. \A p \in Known : Found[p] = FoundAt(p, Found)
  BY FoundExists DEF IsFound
<1>2. \A p \in Files(recipe) : p[Len(p)] = "SKILL.md" => p \in all
  <2>1. \A f \in AgentsThere : AgentPath(f)[Len(AgentPath(f))] # "SKILL.md"
    BY NamesAssumption DEF AgentsThere, AgentPath
  <2>2. SkillsThere \subseteq SkillDirs
    BY DEF SkillsThere
  <2> HIDE DEF all
  <2>3. \A d \in SkillsThere : SkillPath(d) \in all
    BY <2>2 DEF all
  <2> QED BY <2>1, <2>3, FilesAre
<1> HIDE DEF all
<1>3. CASE path \in Files(recipe) \/ Append(path, "SKILL.md") \in Files(recipe)
  <2> DEFINE q == Append(path, "SKILL.md")
             here == Found[path]
             itself == {p \in {path} : p[Len(p)] = "SKILL.md"}
  <2>1. /\ path \in Files(recipe) => here = itself
        /\ path \notin Files(recipe) => here = {q}
    BY <1>1, <1>3 DEF FoundAt
  <2>2. q[Len(q)] = "SKILL.md"
    BY AppendedIsUnder
  <2>3. path \notin Files(recipe) => q \in Files(recipe)
    BY <1>3
  <2> HIDE DEF q
  <2>4. path \notin Files(recipe) => q \in all
    BY <1>2, <2>2, <2>3
  <2>5. path \in Files(recipe) => itself \subseteq all
    BY <1>2
  <2> HIDE DEF here, itself
  <2>6. here \subseteq all
    BY <2>1, <2>4, <2>5
  <2> QED BY <2>6 DEF here, all
<1>4. CASE path \notin Files(recipe) /\ Append(path, "SKILL.md") \notin Files(recipe)
  <2>1. ASSUME NEW d \in Within(recipe, path) PROVE Found[d] \subseteq all
    <3>1. d \in Directories(recipe) /\ Under1(path, d) /\ d \in Known
      BY WithinIsUnder DEF Known
    <3>2. Len(d) # 1
      <4>1. Len(path) >= 1
        BY FilesAre, DirectoriesAre DEF Known, AgentPath, SkillPath, SkillDir
      <4>2. Len(path) \in Nat
        BY KnownPaths
      <4> QED BY <3>1, <4>1, <4>2 DEF Under1
    <3>3. PICK e \in SkillsThere : d = SkillDir(e)
      BY <3>1, <3>2, DirectoriesAre
    <3>4. Append(d, "SKILL.md") = SkillPath(e)
      BY <3>3, AppendedToTwo DEF SkillDir, SkillPath
    <3>5. SkillPath(e) \in Files(recipe) /\ d \notin Files(recipe)
      BY <3>1, FilesAre DEF Directories
    <3>6. Found[d] = {Append(d, "SKILL.md")}
      BY <1>1, <3>1, <3>4, <3>5 DEF FoundAt
    <3>7. SkillPath(e)[Len(SkillPath(e))] = "SKILL.md"
      BY DEF SkillPath
    <3> QED BY <1>2, <3>4, <3>5, <3>6, <3>7
  <2> DEFINE here == Found[path]
             parts == {Found[d] : d \in Within(recipe, path)}
  <2>2. here = UNION parts
    BY <1>1, <1>4 DEF FoundAt
  <2>3. \A part \in parts : part \subseteq all
    BY <2>1
  <2> HIDE DEF here, parts
  <2>4. here \subseteq all
    BY <2>2, <2>3
  <2> QED BY <2>4 DEF here, all
<1> QED BY <1>3, <1>4 DEF all

\* There are finitely many skills of a name.
LEMMA FiniteSkills ==
  ASSUME IsTree(recipe), PackageErrors(recipe) = {}, ~EndsAtAFile, NEW name
  PROVE  IsFiniteSet(PackagedSkills(recipe, name))
<1> DEFINE all == {SkillPath(d) : d \in SkillDirs}
           paths == ResourcePaths(recipe, "skills")
<1>1. IsFiniteSet(all)
  <2> DEFINE f == [d \in SkillDirs |-> SkillPath(d)]
  <2>1. f \in Surjection(SkillDirs, all)
    BY DEF Surjection
  <2> HIDE DEF f, all
  <2> QED BY <2>1, FS_Surjection, NamesAssumption
<1>2. paths \subseteq Known
  BY PathsAgree DEF Keyed
<1> HIDE DEF all, paths
<1>3. \A r \in paths : Found[r] \subseteq all
  BY <1>2, FoundFiles DEF all
<1>4. PackagedSkills(recipe, name) \subseteq UNION {SkillFilesIn(recipe, r) : r \in paths}
  BY DEF PackagedSkills, paths
<1>5. \A r \in paths : SkillFilesIn(recipe, r) \subseteq all
  BY <1>3, SkillFilesAreFound
<1>6. PackagedSkills(recipe, name) \subseteq all
  <2>1. ASSUME NEW s \in PackagedSkills(recipe, name) PROVE s \in all
    <3>1. PICK r \in paths : s \in SkillFilesIn(recipe, r)
      BY <1>4, <2>1
    <3> QED BY <1>5, <3>1
  <2> QED BY <2>1
<1> QED BY <1>1, <1>6, FS_Subset

\* Each skill that a file names is there once, and each subagent is an agent.
LEMMA ReferenceParts ==
  ASSUME Agreed, NEW n \in DOMAIN Sourced
  PROVE  /\ \A skill \in Trimmed(FileOf(n).skills) :
              Cardinality(AgentSkillPaths(recipe, {skill})) = 1
         /\ \A sub \in Trimmed(FileOf(n).subagents) : sub \in DOMAIN Sourced
<1> DEFINE sources == Sources(recipe)
           file == FileOf(n)
           missing == Error("agent.skill_missing",
                        \E skill \in Trimmed(Kept(file.skills)) : PackagedSkills(recipe, skill) = {})
           ambiguous == Error("agent.skill_ambiguous",
                          \E skill \in Trimmed(Kept(file.skills)) :
                            Cardinality(PackagedSkills(recipe, skill)) > 1)
           gone == Error("agent.subagent_missing",
                         \E sub \in Trimmed(Kept(file.subagents)) : sub \notin DOMAIN sources)
<1>1. ReferenceErrors(recipe, sources, n) = {} /\ sources[n] = file
  BY AgentFile, AgentsParts DEF Agreed
<1>2. ReferenceErrors(recipe, sources, n) = missing \cup ambiguous \cup gone
  BY <1>1 DEF ReferenceErrors
<1> HIDE DEF missing, ambiguous, gone
<1>3. missing = {} /\ ambiguous = {} /\ gone = {}
  BY <1>1, <1>2
<1> HIDE DEF file
<1>4. Kept(file.skills) = file.skills /\ Kept(file.subagents) = file.subagents
  <2>1. \A list : StringsErrors(list) = {} => Kept(list) = list
    BY DEF StringsErrors, Kept
  <2>2. AgentErrors(file) = {}
    BY AgentFile DEF file
  <2> QED BY <2>1, <2>2, AgentParts
<1>5. \A skill \in Trimmed(file.skills) : PackagedSkills(recipe, skill) # {}
  BY <1>3, <1>4 DEF missing, Error
<1>6. \A skill \in Trimmed(file.skills) : ~(Cardinality(PackagedSkills(recipe, skill)) > 1)
  BY <1>3, <1>4 DEF ambiguous, Error
<1>7. \A sub \in Trimmed(file.subagents) : sub \in DOMAIN sources
  BY <1>3, <1>4 DEF gone, Error
<1>8. ASSUME NEW skill \in Trimmed(file.skills) PROVE Cardinality(AgentSkillPaths(recipe, {skill})) = 1
  <2> DEFINE named == PackagedSkills(recipe, skill)
  <2>1. ~EndsAtAFile /\ IsTree(recipe) /\ PackageErrors(recipe) = {}
    BY DEF Agreed, Overlooked
  <2>2. named = AgentSkillPaths(recipe, {skill}) /\ IsFiniteSet(named)
    BY <2>1, SkillsAgree, FiniteSkills
  <2>3. named # {} /\ ~(Cardinality(named) > 1)
    BY <1>5, <1>6
  <2> HIDE DEF named
  <2>4. Cardinality(named) \in Nat /\ Cardinality(named) # 0
    BY <2>2, <2>3, FS_CardinalityType, FS_EmptySet
  <2> QED BY <2>2, <2>3, <2>4
<1> QED BY <1>7, <1>8, SourcesAgree DEF file

\* So every agent can be resolved with its model, its skills and its
\* subagents.
LEMMA ResolvableAgents ==
  ASSUME Agreed, NEW name \in DOMAIN Sourced
  PROVE  ~Unresolvable(recipe, Definitions(Sourced), name)
<1> DEFINE definitions == Definitions(Sourced)
           own == definitions[name]
<1>1. DOMAIN definitions = DOMAIN Sourced /\ own = Definition(Sourced, name)
  BY DefinedAgents
<1>2. own.config.name # "none"
  BY <1>1, ModelIsProvided, NameOfDefinition
<1>3. Trimmed(NoList) = {}
  BY NoListTrimmed DEF NoList
<1>4. ASSUME NEW field \in {"skills", "subagents"}
      PROVE  \/ Trimmed(own[field]) = {}
             \/ \E n \in DOMAIN Sourced : Trimmed(own[field]) = Trimmed(FileOf(n)[field])
  <2>1. \A n \in DOMAIN Sourced : Sourced[n][field] = TrimEach(FileOf(n)[field])
    <3>1. \A file : /\ ParseFile(file)["skills"] = TrimEach(file["skills"])
                    /\ ParseFile(file)["subagents"] = TrimEach(file["subagents"])
      BY DEF ParseFile
    <3> QED BY <3>1, AgentFile
  <2>2. CASE own[field] = NoList
    BY <1>3, <2>2
  <2>3. CASE \E n \in DOMAIN Sourced : own[field] = Sourced[n][field]
    BY <2>1, <2>3, TrimmedOnce
  <2> QED BY <1>1, <2>2, <2>3, ListOfDefinition
<1> HIDE DEF own, definitions
<1>5. Trimmed(own["subagents"]) \ DOMAIN definitions = {}
  <2>1. \A n \in DOMAIN Sourced : \A sub \in Trimmed(FileOf(n)["subagents"]) : sub \in DOMAIN Sourced
    BY ReferenceParts
  <2> QED BY <1>1, <1>4, <2>1
<1>6. \A skill \in Trimmed(own["skills"]) : Cardinality(AgentSkillPaths(recipe, {skill})) = 1
  <2>1. \A n \in DOMAIN Sourced : \A skill \in Trimmed(FileOf(n)["skills"]) :
          Cardinality(AgentSkillPaths(recipe, {skill})) = 1
    BY ReferenceParts
  <2> QED BY <1>4, <2>1
<1> QED BY <1>2, <1>5, <1>6 DEF Unresolvable, own, definitions

\* A Recipe with agents that the checker passes is resolved.
LEMMA AgreedResolves ==
  ASSUME Agreed, AgentPaths(recipe) # {}
  PROVE  ResolveRecipe(recipe) # <<>>
<1> DEFINE definitions == Definitions(Sourced)
<1>1. ~PackageFindings(recipe) /\ ~AgentFindings(recipe)
  BY PackageAgrees, AgentsAgree DEF Agreed
<1>2. ~ResourcesThrow(recipe, "agents") /\ ~ResourcesThrow(recipe, "skills")
  BY PathsAgree DEF Agreed, Overlooked, Keyed
<1>3. \A f \in AgentFilesRead(recipe) : recipe.files[f].text # "malformed"
  BY FilesPass DEF ValidFile
<1>4. \A name \in DOMAIN definitions : ~Unresolvable(recipe, definitions, name)
  BY DefinedAgents, ResolvableAgents
<1>5. ResolveRecipe(recipe) = definitions
  BY <1>1, <1>2, <1>3, <1>4 DEF ResolveRecipe, Sourced
<1>6. DOMAIN definitions # {}
  <2>1. AgentFilesRead(recipe) # {}
    BY FilesAgree DEF Agreed
  <2> QED BY <2>1, SourcesAgree, DefinedAgents
<1> HIDE DEF definitions
<1>7. definitions # <<>>
  BY <1>6
<1> QED BY <1>5, <1>7

\* Whenever the last report and the last resolution speak of the same tree
\* they agree.
LEMMA InvResolve == IInv /\ IsTree(recipe) => CheckedRecipesResolve
<1> SUFFICES ASSUME IInv, IsTree(recipe), refused, report.valid, report.agents > 0, ~Overlooked
             PROVE  FALSE
  BY DEF CheckedRecipesResolve
<1>1. ResolveRecipe(recipe) = <<>> /\ report = CheckRecipe(recipe)
  BY DEF IInv, UpToDate
<1>2. PackageErrors(recipe) \cup AgentsErrors(recipe) = {} /\ Cardinality(AgentPaths(recipe)) > 0
  BY <1>1 DEF CheckRecipe
<1>3. AgentPaths(recipe) # {}
  BY <1>2, FS_EmptySet
<1>4. Agreed
  BY <1>2 DEF Agreed
<1> QED BY <1>1, <1>3, <1>4, AgreedResolves

\* Whatever trees are given and however they are edited: a Recipe with an agent
\* of which the checker (introspection-recipe-check) reports no error, and which
\* is none of the cases named in Overlooked, is one that resolveRecipe resolves.
THEOREM CheckedResolve == Spec => []CheckedRecipesResolve
  BY RecipeInvariant, TreeKept, InvResolve, PTL

=============================================================================
