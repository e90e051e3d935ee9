------------------------------ MODULE ChatTurn ------------------------------
(***************************************************************************)
(* One turn of a chat session on the core: ChatService.run (chat.ts), the  *)
(* StreamMuxer that coalesces the provider's deltas, the TurnWriter that   *)
(* announces a message live and persists it at the turn's cursor, and the  *)
(* session document they write.                                            *)
(*                                                                         *)
(* A message is its id.  Its text is a number of deltas: text[m] what the  *)
(* provider produced, flushed[m] what the live object that born snapshots  *)
(* carry holds.  An action runs from one await to the next; sent is what   *)
(* it hands to frameBus().broadcastToClient, in order.                     *)
(***************************************************************************)
EXTENDS Naturals, SequencesExt

CONSTANTS
    None,          \* null
    Anchor,        \* the user message the turn hangs off
    OldReply,      \* what a regenerate deletes from the anchor's turn
    NewerUser,     \* a user message after the anchor's turn
    LateUser,      \* a user message posted during the turn
    Regenerates,   \* may chat.start carry anchorMessageId? (a set of BOOLEANs)
    MaxMessages,   \* bound: messages the turn creates
    MaxText,       \* bound: deltas of one message
    MaxHops,       \* tools.maxHops
    PersistMayFail \* may a session write throw (session deleted, disk error)?

ASSUME TurnAssumption ==
    /\ {MaxMessages, MaxText} \subseteq Nat \ {0} /\ MaxHops \in Nat
    /\ Regenerates \subseteq BOOLEAN

New == 1..MaxMessages
Users == {Anchor, NewerUser, LateUser}

ASSUME MessageAssumption ==
    /\ {None, Anchor, OldReply, NewerUser, LateUser} \cap New = {}
    /\ Anchor \notin {OldReply, NewerUser, LateUser}
    /\ OldReply \notin {NewerUser, LateUser} /\ NewerUser # LateUser

VARIABLES
    doc,        \* the persisted messages, oldest first
    phase,      \* where run() is
    hop,
    created,    \* messages created so far: their ids are 1..created
    role,
    text, flushed,
    live,       \* the Map stream.liveMessages: id -> afterId
    cursor, liveCursor, bornIds,  \* of the TurnWriter
    finalizing, \* messages to pass to writer.finalize, in order
    persisted,  \* is the first of them in doc, its finalize() still suspended?
    then,       \* the phase to enter when they are all finalized
    reasoning, assistant, calls,  \* of the current hop
    tool, displays,               \* of the call that runs
    aborted,    \* stream.abort
    cancelled,  \* tool messages whose call was asked to cancel
    sent

coreVars == <<doc, phase, hop, created, role, text, flushed, live, cursor, liveCursor,
              bornIds, finalizing, persisted, then, reasoning, assistant, calls, tool,
              displays, aborted, cancelled>>
vars == <<coreVars, sent>>

streamVars == <<reasoning, assistant, calls>>
toolVars == <<tool, displays>>
writerVars == <<cursor, liveCursor, bornIds, live>>
textVars == <<text, flushed>>

Active == phase \notin {"idle", "ended", "crashed"}
Over == phase \in {"ended", "crashed"}
Busy == finalizing # <<>>

\* The turn hangs off an earlier user message than the last.
Regenerate == NewerUser \in ToSet(doc)

Snapshot(m, after, final) ==
    [kind |-> "message", id |-> m, after |-> after, final |-> final, text |-> flushed[m]]

Init ==
    /\ doc \in {IF regenerate THEN <<Anchor, OldReply, NewerUser>> ELSE <<Anchor>> :
                  regenerate \in Regenerates}
    /\ phase = "idle" /\ hop = 0 /\ created = 0
    /\ role = [m \in New |-> "none"]
    /\ text = [m \in New |-> 0] /\ flushed = [m \in New |-> 0]
    /\ live = [m \in {} |-> None] /\ cursor = None /\ liveCursor = None /\ bornIds = {}
    /\ finalizing = <<>> /\ persisted = FALSE /\ then = "none"
    /\ reasoning = 0 /\ assistant = 0 /\ calls = 0
    /\ tool = 0 /\ displays = <<>>
    /\ aborted = FALSE /\ cancelled = {}
    /\ sent = <<>>

-----------------------------------------------------------------------------
(* start() and run() up to the hop loop                                    *)

Start ==
    /\ phase = "idle"
    /\ phase' = "setup"
    /\ sent' = <<>>
    /\ UNCHANGED <<doc, hop, created, role, textVars, writerVars, finalizing, persisted, then,
                   streamVars, toolVars, aborted, cancelled>>

\* findIndex() of a message that is there.
Pos(m) == CHOOSE i \in 1..Len(doc) : doc[i] = m

LastUser == doc[CHOOSE i \in 1..Len(doc) :
                   doc[i] \in Users /\ \A j \in (i + 1)..Len(doc) : doc[j] \notin Users]

\* Where the next user message is, or the end.
EndOfTurn(a) ==
    CHOOSE end \in (a + 1)..(Len(doc) + 1) :
        /\ end <= Len(doc) => doc[end] \in Users
        /\ \A j \in (a + 1)..(end - 1) : doc[j] \notin Users

\* deleteTurn(), when the frame carries an anchor, ...
DeleteTurn ==
    /\ phase = "setup" /\ Regenerate
    /\ phase' = "deleted"
    /\ LET a == Pos(Anchor)
       IN  doc' = SubSeq(doc, 1, a) \o SubSeq(doc, EndOfTurn(a), Len(doc))
    /\ sent' = <<>>
    /\ UNCHANGED <<hop, created, role, textVars, writerVars, finalizing, persisted, then,
                   streamVars, toolVars, aborted, cancelled>>

\* Mutant: the TurnWriter still starts behind the reply that was deleted.
BeginTurnAtOldReply ==
    /\ \/ phase = "setup" /\ ~Regenerate /\ sent' = <<>>
       \/ phase = "deleted" /\ sent' = <<[kind |-> "deleted", id |-> OldReply]>>
    /\ phase' = "filters"
    /\ cursor' = IF Regenerate THEN OldReply ELSE LastUser
    /\ liveCursor' = cursor'
    /\ UNCHANGED <<doc, hop, created, role, textVars, bornIds, live, finalizing, persisted, then,
                   streamVars, toolVars, aborted, cancelled>>

\* ... the frames about it, and the TurnWriter at the turn's anchor.
BeginTurn ==
    /\ \/ phase = "setup" /\ ~Regenerate /\ sent' = <<>>
       \/ phase = "deleted" /\ sent' = <<[kind |-> "deleted", id |-> OldReply]>>
    /\ phase' = "filters"
    /\ cursor' = IF Regenerate THEN Anchor ELSE LastUser
    /\ liveCursor' = cursor'
    /\ UNCHANGED <<doc, hop, created, role, textVars, bornIds, live, finalizing, persisted, then,
                   streamVars, toolVars, aborted, cancelled>>

-----------------------------------------------------------------------------
(* TurnWriter                                                              *)

\* Bound: messages that a step commits the turn to create.
Room(n) == created + n <= MaxMessages

\* A new message of role r, ...
Create(r) ==
    /\ Room(1)
    /\ created' = created + 1
    /\ role' = [role EXCEPT ![created'] = r]

\* Mutant: a birth is broadcast but not remembered for resubscribe().
BornUnbuffered(m) ==
    /\ bornIds' = bornIds \cup {m}
    /\ liveCursor' = m
    /\ UNCHANGED <<cursor, live>>

\* ... announced with writer.born().
Born(m) ==
    /\ live' = [k \in DOMAIN live \cup {m} |-> IF k = m THEN liveCursor ELSE live[k]]
    /\ bornIds' = bornIds \cup {m}
    /\ liveCursor' = m
    /\ UNCHANGED cursor

\* Mutant: a turn's messages go to the end of the session.
InsertAtTail(m, a) == Append(doc, m)

\* insertMessageAfter(): behind the cursor, or at the tail when it is gone.
InsertAfter(m, a) ==
    IF a \in ToSet(doc)
    THEN InsertAt(doc, 1 + Pos(a), m)
    ELSE Append(doc, m)

\* writer.finalize() until its await resolves ...
Persist ==
    /\ Busy /\ ~persisted
    /\ doc' = InsertAfter(Head(finalizing), cursor)
    /\ persisted' = TRUE
    /\ sent' = <<>>
    /\ UNCHANGED <<phase, hop, created, role, textVars, writerVars, finalizing, then,
                   streamVars, toolVars, aborted, cancelled>>

\* ... and after it.
Announce ==
    LET m == Head(finalizing) IN
    /\ Busy /\ persisted
    /\ persisted' = FALSE
    /\ cursor' = m
    /\ live' = [k \in DOMAIN live \ {m} |-> live[k]]
    /\ sent' = <<Snapshot(m, IF m \in bornIds THEN None ELSE liveCursor, TRUE)>>
    /\ liveCursor' = IF m \in bornIds THEN liveCursor ELSE m
    /\ finalizing' = Tail(finalizing)
    /\ phase' = IF Len(finalizing) = 1 THEN then ELSE phase
    /\ UNCHANGED <<doc, hop, created, role, textVars, bornIds, then, streamVars, toolVars,
                   aborted, cancelled>>

\* insertMessageAfter() throws: run() rejects, start() reports chat.error and
\* forgets the stream.  Inside appendContent the muxer catches it instead and
\* returns an assistant that is still empty, which run() does not finalize before
\* it reports chat.error (or chat.done, when aborted): the same step here.
PersistFails ==
    /\ PersistMayFail
    /\ Busy /\ ~persisted
    /\ role[Head(finalizing)] # "memory_filter"
    /\ phase' = "crashed"
    /\ finalizing' = <<>>
    /\ sent' = <<[kind |-> "end"]>>
    /\ UNCHANGED <<doc, hop, created, role, textVars, writerVars, persisted, then,
                   streamVars, toolVars, aborted, cancelled>>

\* A memory filter that could not be written is written again, as failed.
MemoryFilterRetries ==
    /\ PersistMayFail
    /\ Busy /\ ~persisted
    /\ role[Head(finalizing)] = "memory_filter"
    /\ role' = [role EXCEPT ![Head(finalizing)] = "memory_filter_error"]
    /\ sent' = <<>>
    /\ UNCHANGED <<doc, phase, hop, created, textVars, writerVars, finalizing, persisted, then,
                   streamVars, toolVars, aborted, cancelled>>

\* Hand ms to finalize one after the other, then enter phase p.
Finalize(ms, p) ==
    /\ finalizing' = ms
    /\ then' = p
    /\ phase' = IF ms = <<>> THEN p ELSE phase
    /\ UNCHANGED persisted

\* At most one tool_filter bubble and then at most one memory_filter bubble, which
\* reports its own failure.  They are finalized without a birth.
Filter ==
    /\ phase = "filters" /\ ~Busy
    /\ \/ created = 0 /\ Create("tool_filter")
       \/ /\ \A m \in 1..created : role[m] = "tool_filter"
          /\ Create("memory_filter") \/ Create("memory_filter_error")
    /\ Finalize(<<created'>>, "filters")
    /\ sent' = <<>>
    /\ UNCHANGED <<doc, hop, textVars, writerVars, streamVars, toolVars, aborted, cancelled>>

EnterLoop ==
    /\ phase = "filters" /\ ~Busy
    /\ phase' = "hop"
    /\ sent' = <<>>
    /\ UNCHANGED <<doc, hop, created, role, textVars, writerVars, finalizing, persisted, then,
                   streamVars, toolVars, aborted, cancelled>>

-----------------------------------------------------------------------------
(* The hop loop: one provider call through the StreamMuxer                 *)

\* chat.done or chat.error, and the stream leaves ChatService.active.
EndTurn ==
    /\ phase' = "ended"
    /\ sent' = <<[kind |-> "end"]>>
    /\ UNCHANGED <<doc, hop, created, role, textVars, writerVars, finalizing, persisted, then,
                   streamVars, toolVars, aborted, cancelled>>

Hop ==
    /\ phase = "hop" /\ ~aborted /\ hop < MaxHops
    /\ phase' = "streaming"
    /\ reasoning' = 0 /\ assistant' = 0 /\ calls' = 0
    /\ sent' = <<>>
    /\ UNCHANGED <<doc, hop, created, role, textVars, writerVars, finalizing, persisted, then,
                   toolVars, aborted, cancelled>>

\* Interrupted between hops, the hop limit, or the end of a hop without tools.
LeaveLoop ==
    /\ \/ phase = "hop" /\ (aborted \/ hop = MaxHops)
       \/ phase = "leaving"
    /\ EndTurn

\* The hop's pending deltas, and the live objects advanced to match.
Pending == {m \in {reasoning, assistant} \ {0} : text[m] > flushed[m]}
FlushFrames ==
    LET Delta(m) == IF m \in Pending
                    THEN <<[kind |-> "delta", id |-> m, n |-> text[m] - flushed[m]]>>
                    ELSE <<>>
    IN  Delta(reasoning) \o Delta(assistant)
Flushed == [m \in New |-> IF m \in Pending THEN text[m] ELSE flushed[m]]

\* Mutant: the timer sends the deltas and leaves the live objects behind.
FlushStale ==
    /\ phase = "streaming" /\ ~Busy /\ Pending # {}
    /\ sent' = FlushFrames
    /\ UNCHANGED <<doc, phase, hop, created, role, textVars, writerVars, finalizing, persisted,
                   then, streamVars, toolVars, aborted, cancelled>>

\* The coalescing timer.
Flush ==
    /\ phase = "streaming" /\ ~Busy /\ Pending # {}
    /\ sent' = FlushFrames
    /\ flushed' = Flushed
    /\ UNCHANGED <<doc, phase, hop, created, role, text, writerVars, finalizing, persisted, then,
                   streamVars, toolVars, aborted, cancelled>>

\* appendReasoning: dropped once the answer has begun.
ReasoningDelta ==
    /\ phase = "streaming" /\ ~Busy /\ assistant = 0
    /\ \/ /\ reasoning = 0
          /\ Create("reasoning")
          /\ Born(created')
          /\ reasoning' = created'
          /\ sent' = <<Snapshot(created', liveCursor, FALSE)>>
       \/ /\ reasoning # 0
          /\ text[reasoning] < MaxText
          /\ sent' = <<>>
          /\ UNCHANGED <<created, role, writerVars, reasoning>>
    /\ text' = [text EXCEPT ![reasoning'] = @ + 1]
    /\ UNCHANGED <<doc, phase, hop, flushed, finalizing, persisted, then, assistant, calls,
                   toolVars, aborted, cancelled>>

\* appendContent, first delta: the assistant is born and the reasoning, when
\* there is one, flushed and finalized before the delta is appended.
FirstContent ==
    /\ phase = "streaming" /\ ~Busy /\ assistant = 0
    /\ Create("assistant")
    /\ Born(created')
    /\ assistant' = created'
    /\ sent' = <<Snapshot(created', liveCursor, FALSE)>> \o FlushFrames
    /\ flushed' = Flushed
    /\ Finalize(IF reasoning = 0 THEN <<>> ELSE <<reasoning>>, "append")
    /\ UNCHANGED <<doc, hop, text, reasoning, calls, toolVars, aborted, cancelled>>

ContentDelta ==
    /\ ~Busy
    /\ \/ phase = "append"
       \/ phase = "streaming" /\ assistant # 0 /\ text[assistant] < MaxText
    /\ phase' = "streaming"
    /\ text' = [text EXCEPT ![assistant] = @ + 1]
    /\ sent' = <<>>
    /\ UNCHANGED <<doc, hop, created, role, flushed, writerVars, finalizing, persisted, then,
                   streamVars, toolVars, aborted, cancelled>>

\* Mutant: the deltas not yet flushed are dropped at the end of the stream.
SettleUnflushed(p, n) ==
    /\ sent' = <<>>
    /\ calls' = n
    /\ \/ /\ assistant # 0
          /\ Finalize(<<assistant>>, p)
          /\ UNCHANGED <<created, role, assistant>>
       \/ /\ assistant = 0
          /\ Create("assistant")
          /\ assistant' = created'
          /\ Finalize(<<created'>>, p)
    /\ UNCHANGED <<doc, hop, textVars, reasoning, writerVars, toolVars, aborted, cancelled>>

\* The stream is over: flush, finalize the reasoning unless the first content
\* did, then the assistant.  An assistant that never streamed is created here
\* when there are calls to carry (or a cut-off to report).
Settle(p, n) ==
    LET pendingReasoning == IF reasoning # 0 /\ assistant = 0 THEN <<reasoning>> ELSE <<>>
    IN  /\ sent' = FlushFrames
        /\ flushed' = Flushed
        /\ calls' = n
        /\ \/ /\ assistant # 0
              /\ Finalize(<<assistant>>, p)
              /\ UNCHANGED <<created, role, assistant>>
           \/ /\ assistant = 0 /\ n = 0
              /\ Finalize(pendingReasoning, p)
              /\ UNCHANGED <<created, role, assistant>>
           \/ /\ assistant = 0 /\ (n > 0 \/ ~aborted)
              /\ Create("assistant")
              /\ assistant' = created'
              /\ Finalize(Append(pendingReasoning, created'), p)
        /\ UNCHANGED <<doc, hop, text, reasoning, writerVars, toolVars, aborted, cancelled>>

\* A natural stop, a cut-off, a provider error, or the abort signal.
StreamStops == phase = "streaming" /\ ~Busy /\ Settle("leaving", 0)

\* The model asks for n tool calls.
StreamAsksForTools ==
    /\ phase = "streaming" /\ ~Busy /\ ~aborted
    /\ \E n \in 1..2 : Room(n + 1) /\ Settle("tools", n)

-----------------------------------------------------------------------------
(* The hop's tool calls, one after the other                               *)

\* Mutant: the call only listens for an interrupt that is still to come.
BeginCallUncancelled ==
    /\ phase = "tools" /\ ~Busy /\ calls > 0
    /\ Create("tool")
    /\ Born(created')
    /\ tool' = created'
    /\ displays' = <<>>
    /\ sent' = <<Snapshot(created', liveCursor, FALSE)>>
    /\ phase' = "running"
    /\ UNCHANGED <<doc, hop, textVars, finalizing, persisted, then, streamVars, aborted, cancelled>>

\* A call that begins in an interrupted turn is cancelled at once.
BeginCall ==
    /\ phase = "tools" /\ ~Busy /\ calls > 0
    /\ Create("tool")
    /\ Born(created')
    /\ tool' = created'
    /\ displays' = <<>>
    /\ sent' = <<Snapshot(created', liveCursor, FALSE)>>
    /\ phase' = "running"
    /\ cancelled' = IF aborted THEN cancelled \cup {tool'} ELSE cancelled
    /\ UNCHANGED <<doc, hop, textVars, finalizing, persisted, then, streamVars, aborted>>

\* The tool shows a display bubble.
Display ==
    /\ phase = "running" /\ ~Busy /\ Room(calls)
    /\ Create("display")
    /\ Born(created')
    /\ displays' = Append(displays, created')
    /\ sent' = <<Snapshot(created', liveCursor, FALSE)>>
    /\ UNCHANGED <<doc, phase, hop, textVars, finalizing, persisted, then, streamVars, tool,
                   aborted, cancelled>>

\* The call has an outcome: the tool message, then its displays.
EndCall ==
    /\ phase = "running" /\ ~Busy
    /\ calls' = calls - 1
    /\ Finalize(<<tool>> \o displays, "tools")
    /\ sent' = <<>>
    /\ UNCHANGED <<doc, hop, created, role, textVars, writerVars, reasoning, assistant, toolVars,
                   aborted, cancelled>>

NextHop ==
    /\ phase = "tools" /\ ~Busy /\ calls = 0
    /\ phase' = "hop"
    /\ hop' = hop + 1
    /\ sent' = <<>>
    /\ UNCHANGED <<doc, created, role, textVars, writerVars, finalizing, persisted, then,
                   streamVars, toolVars, aborted, cancelled>>

-----------------------------------------------------------------------------
(* Handlers that run between the turn's awaits                             *)

\* chat.interrupt: an abort signal that the running call hears as a cancel.
Interrupt ==
    /\ IF Active
       THEN /\ aborted' = TRUE
            /\ cancelled' = IF phase = "running" /\ ~Busy THEN cancelled \cup {tool} ELSE cancelled
       ELSE UNCHANGED <<aborted, cancelled>>
    /\ sent' = <<>>
    /\ UNCHANGED <<doc, phase, hop, created, role, textVars, writerVars, finalizing, persisted,
                   then, streamVars, toolVars>>

\* tool.cancel for the call of tool message m.
Cancel(m) ==
    /\ \/ /\ phase = "running" /\ ~Busy /\ m = tool
          /\ cancelled' = cancelled \cup {m}
       \/ UNCHANGED cancelled   \* not in flight, or not yet: dispatch registers it late
    /\ sent' = <<>>
    /\ UNCHANGED <<doc, phase, hop, created, role, textVars, writerVars, finalizing, persisted,
                   then, streamVars, toolVars, aborted>>

\* The members of a set of messages, oldest first.
Ordered(S) ==
    CHOOSE ms \in [1..Cardinality(S) -> S] :
        \A i, j \in DOMAIN ms : i < j => ms[i] < ms[j]

\* chat.subscribe: the live messages so far, as born snapshots in insertion order:
\* born() is given ids in their order.
Resubscribe ==
    /\ sent' = LET ms == Ordered(DOMAIN live)
               IN  IF Active THEN [i \in DOMAIN ms |-> Snapshot(ms[i], live[ms[i]], FALSE)]
                   ELSE <<>>
    /\ UNCHANGED coreVars

\* POST /sessions/:id/messages while the turn runs (appendMessage): the poster
\* shows the message already, nothing is broadcast.
PostUser ==
    /\ LateUser \notin ToSet(doc)
    /\ doc' = Append(doc, LateUser)
    /\ sent' = <<>>
    /\ UNCHANGED <<phase, hop, created, role, textVars, writerVars, finalizing, persisted, then,
                   streamVars, toolVars, aborted, cancelled>>

-----------------------------------------------------------------------------

\* run() itself.
TurnStep ==
    \/ Start \/ DeleteTurn \/ BeginTurn \/ Filter \/ EnterLoop
    \/ Persist \/ Announce \/ PersistFails \/ MemoryFilterRetries
    \/ Hop \/ ReasoningDelta \/ FirstContent \/ ContentDelta \/ Flush
    \/ StreamStops \/ StreamAsksForTools
    \/ BeginCall \/ Display \/ EndCall \/ NextHop
    \/ LeaveLoop

Handlers == Interrupt \/ (\E m \in New : Cancel(m)) \/ Resubscribe \/ PostUser

Next == TurnStep \/ Handlers

Spec == Init /\ [][Next]_vars

\* What run() gets on with by itself: the steps up to the next await that nobody
\* outside has to end.  Those it awaits: a session write returns; the filters bound
\* their own lookups; the abort signal ends the provider's stream (the SDK ends the
\* iteration, the local scheduler rejects); and cancel() settles a call, at the latest
\* when its worker is shot (worker-call.ts:532-543).  Without an interrupt, a provider
\* may be silent for ever and a tool wait for ever on its user.
Forward ==
    \/ DeleteTurn \/ BeginTurn \/ EnterLoop
    \/ Persist \/ Announce \/ PersistFails \/ MemoryFilterRetries
    \/ Hop
    \/ phase = "append" /\ ContentDelta
    \/ BeginCall \/ NextHop \/ LeaveLoop
    \/ aborted /\ StreamStops
    \/ tool \in cancelled /\ EndCall

FairSpec == Spec /\ WF_vars(Forward)

-----------------------------------------------------------------------------
(* Properties                                                              *)

TypeOK ==
    /\ ToSet(doc) \subseteq Users \cup {OldReply} \cup New
    /\ phase \in {"idle", "setup", "deleted", "filters", "hop", "streaming", "append", "tools",
                  "running", "leaving", "ended", "crashed"}
    /\ hop \in 0..MaxHops /\ created \in 0..MaxMessages
    /\ role \in [New -> {"none", "tool_filter", "memory_filter", "memory_filter_error",
                          "reasoning", "assistant", "tool", "display"}]
    /\ text \in [New -> 0..MaxText] /\ flushed \in [New -> 0..MaxText]
    /\ bornIds \subseteq 1..created /\ cancelled \subseteq 1..created
    /\ ToSet(finalizing) \subseteq 1..created
    /\ {reasoning, assistant, tool} \subseteq 0..created /\ calls \in 0..2
    /\ {persisted, aborted} \subseteq BOOLEAN

\* The turn's messages sit in one block behind the user message they answer, in
\* the order the client saw them appear, whatever is posted meanwhile: the two
\* cursors of TurnWriter converge (chat-turn-writer.ts:4-7) and a tool's
\* displays persist behind it (chat.ts:554-557).
DurableOrder ==
    /\ TypeOK
    /\ LET at == {i \in 1..Len(doc) : doc[i] \in New} IN
         \A i \in at :
           /\ i > 1
           /\ \/ doc[i - 1] \in New /\ doc[i - 1] < doc[i]
              \/ /\ doc[i - 1] \in (IF Regenerate THEN {Anchor} ELSE {Anchor, LateUser})
                 /\ \A j \in at : j >= i

\* What a client can be told at any moment is complete: every message announced
\* so far is in the document or in the catch-up buffer (resubscribe, chat.ts:226-232).
CatchUpComplete ==
    Active => bornIds \subseteq ToSet(doc) \cup DOMAIN live

\* ... and placeable: the message a snapshot goes behind is persisted or comes
\* earlier in the replay.
ReplayPlaceable ==
    Active => \A m \in DOMAIN live :
                 live[m] \in ToSet(doc) \cup {k \in DOMAIN live : k < m}

\* No streamed text is lost (chat.ts:487-490): a message is persisted with all the
\* provider produced for it, and a turn that ends, interrupted or not, has
\* persisted every message that had text, and every call.
NothingLost ==
    /\ \A m \in New : m \in ToSet(doc) => flushed[m] = text[m]
    /\ phase = "ended" =>
          /\ DOMAIN live = {}
          /\ \A m \in 1..created : m \in ToSet(doc)

\* An interrupt ends the turn, whatever it is doing (ChatService.interrupt,
\* chat.ts:149-153): between two hops, in the stream, in a call or a write, and also
\* between the stream and a call that begins only then (chat-tool-dispatch.ts:229-235).
InterruptEnds == (Active /\ aborted) ~> ~Active
=============================================================================
