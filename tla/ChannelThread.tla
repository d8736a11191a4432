---------------------------- MODULE ChannelThread ----------------------------
(*************************************************************************)
(* The channels tool on one Slack channel: reading a thread or the         *)
(* timeline page by page, posting, editing and retracting, and the store   *)
(* of references the model names messages by.  Slack is external.  The     *)
(* tool runs one command at a time; others post and delete meanwhile.      *)
(*************************************************************************)
EXTENDS Integers, Sequences, SequencesExt, FiniteSetsExt

CONSTANTS
  Replied,      \* bound: replies the thread may have at first
  MaxPosts,     \* bound: messages posted after that
  MaxGone,      \* bound: messages deleted
  Limits        \* the page limits a read may ask for

ASSUME LimitsAssumption == Limits \subseteq Nat \ {0}

VARIABLES
  posts,        \* the channel: message i is posts[i], in timestamp order
  begun,        \* how many there were when the session began
  refs,         \* ChannelRefStore: the identities it has minted a handle for
  call,         \* the command under way, or NoCall
  cursor,       \* the last page's cursor, or NoCursor
  shown,        \* history: the messages of the chain of pages read last
  since,        \* history: its target, and how many messages there were then
  lost          \* history: posts whose answer never arrived

threadVars == <<posts, begun, refs, call, cursor, shown, since, lost>>

\* Message 1 opens the thread the task answers; Timeline is the channel itself.
Thread == 1
Timeline == 0

NoCursor == [scope |-> -1, pending |-> <<>>, oldest |-> 0]
NoCall == [op |-> "none"]

ThreadInit ==
  /\ begun \in 1..(Replied + 1)
  /\ posts = [i \in 1..begun |-> [by |-> "user", root |-> Thread, now |-> "posted"]]
  /\ refs = {} /\ call = NoCall /\ cursor = NoCursor
  /\ shown = <<>> /\ since = [target |-> Thread, upto |-> 0] /\ lost = {}

-----------------------------------------------------------------------------
\* Slack (external).  conversations.replies: the root, outside the limit, then
\* the replies after "oldest"; conversations.history: the newest top-level
\* messages before a cursor, newest first.
Gone(i) == posts[i].now \in {"deleted", "retracted"}
There(i) == i \in DOMAIN posts /\ ~Gone(i)
Listed(target) ==
  {i \in DOMAIN posts : There(i) /\ posts[i].root = (IF target = Thread THEN Thread ELSE i)}
\* In place k, the id that k of them do not exceed.
Ascending(ids) ==
  [k \in 1..Cardinality(ids) |-> CHOOSE i \in ids : Cardinality({j \in ids : j <= i}) = k]
First(seq, n) == SubSeq(seq, 1, IF n < Len(seq) THEN n ELSE Len(seq))
Rest(seq, n) == SubSeq(seq, n + 1, Len(seq))

Replies(oldest) == Ascending({i \in Listed(Thread) : i > oldest})
History(before) == Reverse(Ascending({i \in Listed(Timeline) : before = 0 \/ i < before}))

\* Somebody else posts in the thread or the channel, or deletes a message.
OthersPost ==
  /\ Len(posts) < begun + MaxPosts
  /\ \E root \in {Thread, Len(posts) + 1} :
       posts' = Append(posts, [by |-> "user", root |-> root, now |-> "posted"])
  /\ UNCHANGED <<begun, refs, call, cursor, shown, since, lost>>

Deletable == Cardinality({i \in DOMAIN posts : Gone(i)}) < MaxGone

OthersDelete ==
  /\ Deletable
  /\ \E i \in DOMAIN posts \ {Thread} : There(i) /\ posts' = [posts EXCEPT ![i].now = "deleted"]
  /\ UNCHANGED <<begun, refs, call, cursor, shown, since, lost>>

-----------------------------------------------------------------------------
\* The read command.  A cursor belongs to the target it was given for.
Read(target, limit) ==
  /\ call = NoCall
  /\ call' = [op |-> "read", target |-> target, limit |-> limit, cont |-> NoCursor,
              began |-> Len(posts)]
  /\ UNCHANGED <<posts, begun, refs, cursor, shown, since, lost>>

ReadOn(limit) ==
  /\ call = NoCall /\ cursor # NoCursor
  /\ call' = [op |-> "read", target |-> cursor.scope, limit |-> limit, cont |-> cursor,
              began |-> since.upto]
  /\ UNCHANGED <<posts, begun, refs, cursor, shown, since, lost>>

\* A page is cut at the limit; what is left waits in the cursor.
Cut(raw, next, limit, target) ==
  call' = [op |-> "show", target |-> target, limit |-> limit,
           fresh |-> call.cont = NoCursor, began |-> call.began,
           page |-> First(raw, limit),
           next |-> IF next # 0 \/ Len(raw) > limit
                    THEN [scope |-> target, pending |-> Rest(raw, limit), oldest |-> next]
                    ELSE NoCursor]

\* FAULT: the root that Slack repeats is kept in every page.
ThreadPageRooted ==
  /\ call.op = "read" /\ call.target = Thread
  /\ LET fresh == call.cont = NoCursor
         pending == call.cont.pending
         asked == call.limit - Len(pending)
         later == Replies(IF fresh THEN Thread ELSE call.cont.oldest)
         page == First(later, asked)
     IN  IF fresh \/ (asked > 0 /\ call.cont.oldest # 0)
         THEN Cut(Ascending(Range(pending \o <<Thread>> \o page)),
                  IF Len(later) > asked THEN Last(page) ELSE 0, call.limit, Thread)
         ELSE Cut(pending, call.cont.oldest, call.limit, Thread)
  /\ UNCHANGED <<posts, begun, refs, cursor, shown, since, lost>>

\* adapter.read() of a thread: pending messages first, then the provider's
\* page after the exclusive boundary, its root dropped but in the first page.
ThreadPage ==
  /\ call.op = "read" /\ call.target = Thread
  /\ LET fresh == call.cont = NoCursor
         pending == call.cont.pending
         asked == call.limit - Len(pending)
         later == Replies(IF fresh THEN Thread ELSE call.cont.oldest)
         page == First(later, asked)
         next == IF Len(later) > asked THEN Last(page) ELSE 0
     IN  IF fresh \/ (asked > 0 /\ call.cont.oldest # 0)
         THEN Cut(Ascending(Range(pending \o page) \cup (IF fresh THEN {Thread} ELSE {})),
                  next, call.limit, Thread)
         ELSE Cut(pending, call.cont.oldest, call.limit, Thread)
  /\ UNCHANGED <<posts, begun, refs, cursor, shown, since, lost>>

\* adapter.read() of the timeline: the provider's own cursor, oldest first.
TimelinePage ==
  /\ call.op = "read" /\ call.target = Timeline
  /\ LET older == History(call.cont.oldest)
         page == First(older, call.limit)
     IN  Cut(Reverse(page), IF Len(older) > call.limit THEN Last(page) ELSE 0, call.limit, Timeline)
  /\ UNCHANGED <<posts, begun, refs, cursor, shown, since, lost>>

\* FAULT: a message seen again is recorded as it is seen now.
MintAnew(ids, own) ==
  {r \in refs : r.id \notin ids} \cup {[id |-> i, own |-> own] : i \in ids}

\* ChannelRefStore.message(): one handle for a message; authorship stays.
Mint(ids, own) ==
  {r \in refs : r.id \notin ids}
    \cup {[id |-> i, own |-> own \/ \E r \in refs : r.id = i /\ r.own] : i \in ids}

\* The page is shown, each message under its reference.
Show ==
  /\ call.op = "show"
  /\ refs' = Mint(Range(call.page), FALSE)
  /\ cursor' = call.next /\ call' = NoCall
  /\ shown' = IF call.fresh THEN call.page
              ELSE IF call.target = Thread THEN shown \o call.page ELSE call.page \o shown
  /\ since' = [target |-> call.target, upto |-> call.began]
  /\ UNCHANGED <<posts, begun, lost>>

\* The run is aborted, or a call to Slack fails, before the page is complete:
\* the messages handled so far have their references.
ReadFails ==
  /\ call.op \in {"read", "show"} /\ call' = NoCall
  /\ IF call.op = "show"
     THEN \E n \in 0..Len(call.page) : refs' = Mint(Range(First(call.page, n)), FALSE)
     ELSE UNCHANGED refs
  /\ UNCHANGED <<posts, begun, cursor, shown, since, lost>>

-----------------------------------------------------------------------------
\* The reply and send commands: Slack takes the message, and its answer
\* arrives or does not.
Post(root) ==
  /\ call = NoCall /\ Len(posts) < begun + MaxPosts
  /\ LET id == Len(posts) + 1
     IN  /\ posts' = Append(posts, [by |-> "agent", root |-> IF root = Timeline THEN id ELSE root,
                                    now |-> "posted"])
         /\ \/ call' = [op |-> "posted", id |-> id] /\ UNCHANGED lost
            \/ call' = NoCall /\ lost' = lost \cup {id}
  /\ UNCHANGED <<begun, refs, cursor, shown, since>>

\* Whatever becomes of the permalink lookup, the post has its reference.
Register ==
  /\ call.op = "posted" /\ call' = NoCall
  /\ refs' = Mint({call.id}, TRUE)
  /\ UNCHANGED <<posts, begun, cursor, shown, since, lost>>

\* The edit and retract commands, of a reference to a message of the agent's.
Edit(r) ==
  /\ call = NoCall /\ r \in refs /\ r.own /\ There(r.id)
  /\ posts' = [posts EXCEPT ![r.id].now = "edited"]
  /\ UNCHANGED <<begun, refs, call, cursor, shown, since, lost>>

Retract(r) ==
  /\ call = NoCall /\ r \in refs /\ r.own /\ There(r.id) /\ Deletable
  /\ posts' = [posts EXCEPT ![r.id].now = "retracted"]
  /\ UNCHANGED <<begun, refs, call, cursor, shown, since, lost>>

ThreadNext ==
  \/ OthersPost \/ OthersDelete
  \/ \E target \in {Thread, Timeline}, limit \in Limits : Read(target, limit)
  \/ \E limit \in Limits : ReadOn(limit)
  \/ ThreadPage \/ TimelinePage \/ Show \/ ReadFails
  \/ \E root \in {Thread, Timeline} : Post(root)
  \/ Register
  \/ \E r \in refs : Edit(r) \/ Retract(r)

-----------------------------------------------------------------------------
\* The pages of a thread or a timeline, put together, hold no message twice
\* and none out of order; a page keeps its limit; and when there is no more to
\* read, no message that was there from the start has been left out.
PagesAreComplete ==
  /\ \A i, j \in DOMAIN shown : i < j => shown[i] < shown[j]
  /\ call.op = "show" => Len(call.page) <= call.limit
  /\ shown # <<>> /\ cursor = NoCursor =>
       {i \in Listed(since.target) : i <= since.upto} \subseteq Range(shown)

\* The store knows a message for the agent's own exactly if the agent posted
\* it and was answered, however often and in whatever page it is read again;
\* only such messages are ever edited or retracted.
OwnMessagesOnly ==
  /\ \A r \in refs : r.own <=> posts[r.id].by = "agent" /\ r.id \notin lost
  /\ \A i \in DOMAIN posts :
       posts[i].by = "agent" /\ i \notin lost /\ call.op # "posted" => \E r \in refs : r.id = i
  /\ \A i \in DOMAIN posts : posts[i].now \in {"edited", "retracted"} => posts[i].by = "agent"

=============================================================================
