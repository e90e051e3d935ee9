----------------------------- MODULE ChatResume -----------------------------
(***************************************************************************)
(* A turn watched by the client that owns the session: ChatTurn composed   *)
(* with the WebSocket between them and the client's state (streaming,      *)
(* messages, sessions and extensions .svelte.ts).  Frames arrive in order  *)
(* while the socket lives and are lost when it drops; the REST calls of    *)
(* the client travel beside it.                                            *)
(***************************************************************************)
EXTENDS ChatTurn

CONSTANTS
    MaxDrops,     \* bound: connections lost
    UserActs      \* does the user press stop and post a further message?

ASSUME DropsAssumption == MaxDrops \in Nat

VARIABLES
    up,           \* the WebSocket is open
    drops,
    toClient,     \* frames on their way to the client
    toCore,       \* and to the core
    view,         \* the session's messages in the client's transcript, oldest first
    shown,        \* text of a message of the view
    runningTools, \* tool bubbles of the view whose status is not terminal
    adopted,      \* streamId is this turn's stream
    active,       \* isActive: the spinner
    abandoned,    \* the stream is in abandonedStreamIds
    loads,        \* sessions.load(), one per reconnect: its GET and the reply
    post          \* the user's further message: "no", "sent", "stored"

clientVars == <<up, drops, toClient, toCore, view, shown, runningTools, adopted, active,
                abandoned, loads, post>>
allVars == <<vars, clientVars>>

linkVars == <<up, drops>>
streamState == <<adopted, active, abandoned>>
viewVars == <<view, shown, runningTools>>

Loads == 1..MaxDrops
Loading == \E i \in Loads : loads[i].stage \in {"asked", "replied"}

\* The user sent the message (or edited it: the old reply is spliced from the
\* view at once) and chat.start is on its way.
ClientInit ==
    /\ Init
    /\ up = TRUE /\ drops = 0
    /\ toClient = <<>> /\ toCore = <<[kind |-> "start"]>>
    /\ view = RemoveFirst(doc, OldReply)
    /\ shown = [m \in New |-> 0]
    /\ runningTools = {}
    /\ adopted = TRUE /\ active = TRUE /\ abandoned = FALSE
    /\ loads = [i \in Loads |-> [stage |-> "none"]]
    /\ post = "no"

-----------------------------------------------------------------------------
(* The core's side                                                         *)

\* FrameBus.broadcastToClient: to the open socket, or to nobody.
Broadcast == toClient' = IF up THEN toClient \o sent' ELSE toClient

CoreRuns ==
    /\ TurnStep /\ ~Start
    /\ Broadcast
    /\ UNCHANGED <<linkVars, toCore, viewVars, streamState, loads, post>>

\* dispatchClientFrame of the hub.
CoreReceives ==
    /\ toCore # <<>>
    /\ LET f == Head(toCore) IN
         \/ f.kind = "start" /\ Start
         \/ f.kind = "interrupt" /\ Interrupt
         \/ f.kind = "cancel" /\ Cancel(f.id)
         \/ f.kind = "subscribe" /\ Resubscribe
    /\ toCore' = Tail(toCore)
    /\ Broadcast
    /\ UNCHANGED <<linkVars, viewVars, streamState, loads, post>>

\* GET /sessions/:id: what is persisted when the core reads the document.
ServeGet(i) ==
    /\ loads[i].stage = "asked"
    /\ loads' = [loads EXCEPT ![i] = [stage |-> "replied", doc |-> doc]]
    /\ UNCHANGED <<vars, linkVars, toClient, toCore, viewVars, streamState, post>>

StorePost ==
    /\ post = "sent"
    /\ PostUser
    /\ post' = "stored"
    /\ Broadcast
    /\ UNCHANGED <<linkVars, toCore, viewVars, streamState, loads>>

-----------------------------------------------------------------------------
(* The client's side                                                       *)

\* Mutant: a message new to the view goes to its end, whatever it follows.
ApplyAtEnd(f) ==
    /\ view' = IF f.id \in ToSet(view) THEN view ELSE Append(view, f.id)
    /\ shown' = [shown EXCEPT ![f.id] = f.text]
    /\ runningTools' = IF role[f.id] = "tool" /\ ~f.final
                       THEN runningTools \cup {f.id} ELSE runningTools \ {f.id}

\* applyServerMessage: replace in place, else behind afterId, else at the end.
ApplyMessage(f) ==
    /\ view' = IF f.id \in ToSet(view) THEN view
               ELSE IF f.after \in ToSet(view)
                    THEN InsertAt(view, 1 + (CHOOSE i \in 1..Len(view) : view[i] = f.after), f.id)
                    ELSE Append(view, f.id)
    /\ shown' = [shown EXCEPT ![f.id] = f.text]
    /\ runningTools' = IF role[f.id] = "tool" /\ ~f.final
                       THEN runningTools \cup {f.id} ELSE runningTools \ {f.id}

\* An idle client latches on to a stream of the session it shows, unless it
\* walked away from that stream itself.
Adopts == ~adopted /\ ~active /\ ~abandoned

\* An "end" is chat.done or chat.error.  The latter also adds an error bubble of the
\* client's own behind the transcript (recordError): it is no message of the session,
\* no frame names it and the next load drops it, so view leaves it out.
OnFrame ==
    /\ toClient # <<>>
    /\ toClient' = Tail(toClient)
    /\ LET f == Head(toClient) IN
         \/ /\ f.kind = "message" /\ (adopted \/ Adopts)
            /\ ApplyMessage(f)
            /\ adopted' = TRUE /\ active' = (active \/ Adopts)
         \/ /\ f.kind = "delta" /\ adopted /\ f.id \in ToSet(view)
            /\ shown' = [shown EXCEPT ![f.id] = @ + f.n]
            /\ UNCHANGED <<view, runningTools, adopted, active>>
         \/ /\ f.kind = "deleted"
            /\ view' = RemoveFirst(view, f.id)
            /\ UNCHANGED <<shown, runningTools, adopted, active>>
         \/ /\ f.kind = "end" /\ adopted
            /\ adopted' = FALSE /\ active' = FALSE
            /\ UNCHANGED viewVars
         \/ /\ \/ f.kind = "message" /\ ~adopted /\ ~Adopts
               \/ f.kind = "delta" /\ (~adopted \/ f.id \notin ToSet(view))
               \/ f.kind = "end" /\ ~adopted
            /\ UNCHANGED <<viewVars, adopted, active>>
    /\ UNCHANGED <<vars, linkVars, toCore, abandoned, loads, post>>

\* cancelAllActiveCalls(): a tool.cancel for every bubble still running.
CancelFrames == SetToSeq({[kind |-> "cancel", id |-> m] : m \in runningTools})

\* Bound: the stop button is not pressed again before the cancels of the last
\* press have left.
StopPending == \E i \in 1..Len(toCore) : toCore[i].kind = "cancel"

\* interruptStreaming() from the stop button.  The input unlocks at once.
UserStops ==
    /\ UserActs /\ up /\ ~StopPending
    /\ active \/ runningTools # {}
    /\ ~abandoned
    /\ toCore' = toCore \o CancelFrames \o (IF adopted THEN <<[kind |-> "interrupt"]>> ELSE <<>>)
    /\ active' = FALSE
    /\ abandoned' = adopted
    /\ UNCHANGED <<vars, linkVars, toClient, viewVars, adopted, loads, post>>

\* The user's next message: in the view at once, in the document by POST.
UserPosts ==
    /\ UserActs /\ up
    /\ post = "no" /\ ~active /\ ~Loading
    /\ post' = "sent"
    /\ view' = Append(view, LateUser)
    /\ UNCHANGED <<vars, linkVars, toClient, toCore, shown, runningTools, streamState, loads>>

\* The transport drops: detachForResume() forgets the stream, not the bubbles.
Disconnect ==
    /\ up /\ drops < MaxDrops
    /\ up' = FALSE /\ drops' = drops + 1
    /\ toClient' = <<>> /\ toCore' = <<>>
    /\ adopted' = FALSE /\ active' = FALSE
    /\ UNCHANGED <<vars, viewVars, abandoned, loads, post>>

\* The "connected" edge after a gap runs load() on the open session, which
\* first interrupts what the client believes to be running.
Reconnect ==
    /\ ~up
    /\ up' = TRUE
    /\ toCore' = IF active \/ runningTools # {} THEN CancelFrames ELSE <<>>
    /\ loads' = [loads EXCEPT ![drops] = [stage |-> "asked"]]
    /\ UNCHANGED <<vars, drops, toClient, viewVars, streamState, post>>

\* Mutant: the session is loaded, the running turn not asked for.
HydrateOnly(i) ==
    /\ loads[i].stage = "replied"
    /\ view' = loads[i].doc
    /\ shown' = [m \in New |-> IF m \in ToSet(loads[i].doc) THEN text[m] ELSE 0]
    /\ runningTools' = {}
    /\ adopted' = FALSE /\ active' = FALSE
    /\ loads' = [loads EXCEPT ![i].stage = "done"]
    /\ UNCHANGED <<vars, linkVars, toClient, toCore, abandoned, post>>

\* Mutant: load() forgets the stream and leaves the spinner on.
HydrateSpinning(i) ==
    /\ loads[i].stage = "replied"
    /\ view' = loads[i].doc
    /\ shown' = [m \in New |-> IF m \in ToSet(loads[i].doc) THEN text[m] ELSE 0]
    /\ runningTools' = {}
    /\ adopted' = FALSE
    /\ toCore' = IF up THEN Append(toCore, [kind |-> "subscribe"]) ELSE toCore
    /\ loads' = [loads EXCEPT ![i].stage = "done"]
    /\ UNCHANGED <<vars, linkVars, toClient, active, abandoned, post>>

\* The reply replaces the transcript; chat.subscribe asks for the live rest
\* (sendWs drops it when the socket is down again).
Hydrate(i) ==
    /\ loads[i].stage = "replied"
    /\ view' = loads[i].doc
    /\ shown' = [m \in New |-> IF m \in ToSet(loads[i].doc) THEN text[m] ELSE 0]
    /\ runningTools' = {}
    /\ adopted' = FALSE /\ active' = FALSE
    /\ toCore' = IF up THEN Append(toCore, [kind |-> "subscribe"]) ELSE toCore
    /\ loads' = [loads EXCEPT ![i].stage = "done"]
    /\ UNCHANGED <<vars, linkVars, toClient, abandoned, post>>

-----------------------------------------------------------------------------

ClientNext ==
    \/ CoreRuns \/ CoreReceives \/ StorePost
    \/ OnFrame \/ UserStops \/ UserPosts
    \/ Disconnect \/ Reconnect
    \/ \E i \in Loads : ServeGet(i) \/ Hydrate(i)

ClientSpec == ClientInit /\ [][ClientNext]_allVars

\* The core gets on where nobody has to act (Forward), frames are delivered while
\* the socket lives, the client reconnects, a GET is answered.
ClientFairSpec ==
    /\ ClientSpec
    /\ WF_allVars(CoreRuns /\ Forward) /\ WF_allVars(CoreReceives) /\ WF_allVars(OnFrame)
    /\ WF_allVars(Reconnect)
    /\ \A i \in Loads : WF_allVars(ServeGet(i) \/ Hydrate(i))

-----------------------------------------------------------------------------
(* Properties                                                              *)

\* Nothing is on its way and no load is under way.
Settled == up /\ toClient = <<>> /\ toCore = <<>> /\ ~Loading /\ post # "sent"

\* When a turn is over the client shows what is stored: the same messages in
\* the same order with the same text (the durable order matches the live order,
\* chat.ts:554-556; the GET and the resubscribe together are full live
\* catch-up, chat.ts:226-232 and sessions.svelte.ts:305-309).
ViewConverges ==
    Settled /\ phase = "ended" =>
        /\ view = doc
        /\ \A m \in New : m \in ToSet(view) => shown[m] = text[m]

\* The same where it does hold.  A message that is on screen is there with all its
\* text, however often the connection dropped.  And none is missing or out of place
\* if it has held, whatever the user does meanwhile (stop, post a further message,
\* regenerate); or else if the loads read what the document is in the end, whatever
\* frames cross them.
ConvergesUnlessStale ==
    Settled /\ phase = "ended" =>
        /\ \A m \in New : m \in ToSet(view) => shown[m] = text[m]
        /\ (\A i \in 1..drops : loads[i].stage = "done" => loads[i].doc = doc) => view = doc

\* No delta stays on screen twice, though a snapshot (of the document, of the
\* catch-up) and the delta frames around it both carry it (flushDeltas,
\* chat-stream-muxer.ts:98-124): once nothing is on its way, no message shows
\* more than was produced.
NoTextTwice == Settled => \A m \in New : shown[m] <= text[m]

\* The bubbles that are live on the core are on screen, up to what was flushed,
\* as soon as a client that did not walk away is re-attached.
LiveTailShown ==
    Settled /\ Active /\ ~abandoned =>
        \A m \in DOMAIN live : m \in ToSet(view) /\ shown[m] = flushed[m]

\* Once the turn is over the spinner goes away, however often the connection drops
\* and whichever of chat.done, the reload and a late re-adoption comes last.
SpinnerStops == (active /\ Over) ~> ~active
=============================================================================
