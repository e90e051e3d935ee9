---------------------------- MODULE ToolPrompts ----------------------------
(***************************************************************************)
(* The prompts of one started tool call, from the tool that puts them to    *)
(* the user who decides them and back: the in-flight call and its pausable  *)
(* time budget (tomat-core/src/extensions/worker-call.ts,                   *)
(* worker-call-timeout.ts), the module broker's permission gate             *)
(* (services/module-broker.ts), the prompt that the chat service keeps for  *)
(* a client that reconnects (tomat-core-engine/src/services/chat.ts,        *)
(* chat-tool-dispatch.ts), and the client's bubble, forms and queues.       *)
(*                                                                          *)
(* A tool may put its prompts one after another or several at once; only a  *)
(* terminal (Deno) permission prompt stops its whole isolate.  The clock is *)
(* abstracted to a budget that is left or spent and a timer that is off,    *)
(* armed, or due (its time has come, its callback has not run).             *)
(***************************************************************************)
EXTENDS Naturals, Sequences, SequencesExt, FiniteSets

CONSTANTS
    Ask,        \* ctx.askUser() forms
    Schedule,   \* ctx.schedulePrompt() proposals
    Broker,     \* permissions a module request needs
    Pty,        \* Deno permission prompts of the isolate
    MaxDrops,   \* bound: how often the connection drops
    MaxAsked,   \* bound: how many of the prompts one call puts
    NoPrompt    \* none of the prompts

Prompts == Ask \cup Schedule \cup Broker \cup Pty
Permissions == Broker \cup Pty

ASSUME PromptsAssumption == NoPrompt \notin Prompts /\ {MaxDrops, MaxAsked} \subseteq Nat
ASSUME KindsAssumption ==
    /\ (Ask \cup Schedule) \intersect Permissions = {}
    /\ Ask \intersect Schedule = {} /\ Broker \intersect Pty = {}

VARIABLES
    at,         \* what the tool knows of a prompt: idle, asked, or told yes / no
    open,       \* pendingAsk/Schedule/PermRequests and brokerPrompts
    waits,      \* pendingUserWaits
    timer,      \* CallTimeout's timer: off, armed, due
    left,       \* budgetMs > 0
    cancelled, settled,
    kept,       \* the call's entry in outstandingPrompts
    stored,     \* how often a proposal was persisted
    up, drops, toClient, toCore,
    loads,      \* the reload of each reconnect: no, asked, running, ended
    bubble,     \* status of the call's bubble, "absent" without one
    form,       \* the bubble's unanswered askUser form
    permQueue, scheduleQueue,
    attached, abandoned,    \* the client follows the stream; has left it for good
    mixed       \* history: prompts of the call have met (see Mixes)

coreVars == <<at, open, waits, timer, left, cancelled, settled, kept, stored>>
clientVars == <<bubble, form, permQueue, scheduleQueue, attached, abandoned>>
linkVars == <<up, drops, loads>>
vars == <<coreVars, linkVars, toClient, toCore, clientVars, mixed>>

\* The call has just been sent to its worker and its budget runs.
Init ==
    /\ at = [p \in Prompts |-> "idle"] /\ open = {} /\ waits = 0
    /\ timer = "armed" /\ left = TRUE
    /\ cancelled = FALSE /\ settled = FALSE
    /\ kept = NoPrompt /\ stored = [p \in Schedule |-> 0]
    /\ up = TRUE /\ drops = 0 /\ toClient = <<>> /\ toCore = <<>>
    /\ loads = [i \in 1..MaxDrops |-> "no"]
    /\ bubble = "running" /\ form = NoPrompt
    /\ permQueue = <<>> /\ scheduleQueue = <<>>
    /\ attached = TRUE /\ abandoned = FALSE /\ mixed = FALSE

-----------------------------------------------------------------------------
(* The core                                                                *)

\* broadcastToClient and sendWs: a frame for a closed socket is gone.
Sent(queue, frames) == IF up THEN queue \o frames ELSE queue

PromptFrame(p) == [kind |-> "prompt", prompt |-> p]
Frame(k) == [kind |-> k, prompt |-> NoPrompt]
AnswerFrame(p, yes) == [kind |-> IF yes THEN "accept" ELSE "decline", prompt |-> p]

\* CallTimeout.pause(): what has run since arm() is taken off the budget.
Pause ==
    /\ timer' = "off"
    /\ left' = (left /\ timer # "due")

\* The isolate stands still while a Deno prompt waits for its answer.
Blocked == \E p \in Pty : at[p] = "asked"

CanAsk(p) ==
    /\ ~settled /\ ~Blocked /\ at[p] = "idle"
    /\ Cardinality({q \in Prompts : at[q] # "idle"}) < MaxAsked

\* A prompt reaches the core: the call waits for the user, its budget stops,
\* the prompt is shown and kept for a client that subscribes later.
Opens(p) ==
    /\ CanAsk(p)
    /\ at' = [at EXCEPT ![p] = "asked"]
    /\ open' = open \cup {p}
    /\ waits' = waits + 1
    /\ Pause
    /\ kept' = p
    /\ toClient' = Sent(toClient, <<PromptFrame(p)>>)
    /\ mixed' = (mixed \/ open # {})
    /\ UNCHANGED <<cancelled, settled, stored, linkVars, toCore, clientVars>>

\* Decided without the user: questions or a draft the client would reject,
\* a permission the grants or the policy settle.
AnsweredAtOnce(p) ==
    /\ CanAsk(p)
    /\ \E told \in {"yes", "no"} :
         /\ told = "yes" => p \in Broker
         /\ at' = [at EXCEPT ![p] = told]
    /\ UNCHANGED <<open, waits, timer, left, cancelled, settled, kept, stored,
                   linkVars, toClient, toCore, clientVars, mixed>>

\* Mutant: the budget stays paused after the last answer.
EndUserWaitPaused ==
    /\ waits' = IF waits = 0 THEN 0 ELSE waits - 1
    /\ UNCHANGED <<timer, left>>

\* The last wait that ends resumes the budget; arm() of a spent one does nothing.
EndUserWait ==
    /\ waits' = IF waits = 0 THEN 0 ELSE waits - 1
    /\ timer' = IF waits' = 0 /\ timer = "off" /\ ~cancelled /\ left THEN "armed" ELSE timer
    /\ left' = left

\* Mutant: an answer is passed on whether or not its prompt is open.
RespondUnchecked(p, yes) ==
    /\ open' = open \ {p}
    /\ at' = [at EXCEPT ![p] = IF @ = "asked" THEN (IF yes THEN "yes" ELSE "no") ELSE @]
    /\ EndUserWait

\* respondAskUser, respondPermission, respondSchedule.
Respond(p, yes) ==
    IF p \in open
    THEN /\ open' = open \ {p}
         /\ at' = [at EXCEPT ![p] = IF yes THEN "yes" ELSE "no"]
         /\ EndUserWait
    ELSE UNCHANGED <<open, at, waits, timer, left>>

\* An accepted proposal is persisted, which may fail, before the tool hears of it.
Confirm(p, yes) ==
    \E saved \in {yes, FALSE} :
        /\ stored' = [stored EXCEPT ![p] = IF saved THEN @ + 1 ELSE @]
        /\ Respond(p, saved)

\* Mutant: whatever answers the form, the draft is persisted.
ForwardReplayed(p, yes) ==
    IF settled THEN UNCHANGED <<coreVars, mixed>>
    ELSE /\ kept' = NoPrompt
         /\ mixed' = (mixed \/ kept \notin {p, NoPrompt})
         /\ \/ p \in Schedule /\ Confirm(p, yes)
            \/ p \notin Schedule /\ Respond(p, yes) /\ UNCHANGED stored
         /\ UNCHANGED <<cancelled, settled>>

\* forwardAskUserResponse, forwardPermissionResponse, forwardScheduleResponse:
\* the kept prompt of the call is dropped, whichever prompt is answered.
Forward(p, yes) ==
    IF settled \/ p \in Schedule \ open THEN UNCHANGED <<coreVars, mixed>>
    ELSE /\ kept' = NoPrompt
         /\ mixed' = (mixed \/ kept \notin {p, NoPrompt})
         /\ \/ p \in Schedule /\ Confirm(p, yes)
            \/ p \notin Schedule /\ Respond(p, yes) /\ UNCHANGED stored
         /\ UNCHANGED <<cancelled, settled>>

\* The permission a module request waits for is refused.
BrokerRefused ==
    /\ open' = open \ Broker
    /\ at' = [p \in Prompts |-> IF p \in open \cap Broker THEN "no" ELSE at[p]]

\* Mutant: the end of a call leaves its prompt with the stream.
SettleKeepsPrompt ==
    /\ ~settled /\ settled' = TRUE
    /\ timer' = "off"
    /\ toClient' = Sent(toClient, <<Frame("ended")>>)
    /\ UNCHANGED <<waits, left, cancelled, kept, stored, linkVars, toCore, clientVars, mixed>>

\* done settles: the dispatcher sends the outcome and forgets prompt and call.
Settle ==
    /\ ~settled /\ settled' = TRUE
    /\ timer' = "off"
    /\ kept' = NoPrompt
    /\ toClient' = Sent(toClient, <<Frame("ended")>>)
    /\ UNCHANGED <<waits, left, cancelled, stored, linkVars, toCore, clientVars, mixed>>

\* tool_result or tool_error: a tool need not have awaited its prompts.
ToolEnds == ~Blocked /\ Settle /\ UNCHANGED <<at, open>>

WorkerExits == Settle /\ BrokerRefused

\* The worker did not react to cancel in time.
DrainTimer == cancelled /\ Settle /\ UNCHANGED <<at, open>>

TimeComes ==
    /\ timer = "armed" /\ timer' = "due"
    /\ UNCHANGED <<at, open, waits, left, cancelled, settled, kept, stored,
                   linkVars, toClient, toCore, clientVars, mixed>>

\* onTimeoutExpire.
Expires ==
    /\ timer = "due"
    /\ \/ waits = 0 /\ Settle /\ UNCHANGED <<at, open>>
       \/ /\ waits > 0 /\ timer' = "off"
          /\ UNCHANGED <<at, open, waits, left, cancelled, settled, kept, stored,
                         linkVars, toClient, toCore, clientVars, mixed>>

\* forwardCancel, and the abort of the turn.
Cancel ==
    IF settled \/ cancelled THEN UNCHANGED <<coreVars, toClient>>
    ELSE /\ cancelled' = TRUE
         /\ toClient' = Sent(toClient, <<Frame("cancelled")>>)
         /\ BrokerRefused
         /\ timer' = "off"
         /\ UNCHANGED <<waits, left, settled, kept, stored>>

\* resubscribe: the bubble so far, then the kept prompt.
Resubscribe ==
    /\ toClient' = Sent(toClient,
                        (IF settled THEN <<>> ELSE <<Frame("born")>>)
                        \o (IF kept = NoPrompt THEN <<>> ELSE <<PromptFrame(kept)>>))
    /\ UNCHANGED coreVars

\* Prompts of the call meet when a second opens beside the first (Opens), an
\* answer clears the kept prompt of another (Forward), or a prompt that was sent
\* again and its answer cross (here and in Decide).
Mixes == \E i \in 2..Len(toCore) : toCore[i].prompt = kept /\ kept # NoPrompt

CoreReceives ==
    /\ toCore # <<>>
    /\ toCore' = Tail(toCore)
    /\ LET f == Head(toCore) IN
         \/ /\ f.kind \in {"accept", "decline"}
            /\ Forward(f.prompt, f.kind = "accept")
            /\ UNCHANGED toClient
         \/ f.kind = "cancel" /\ Cancel /\ UNCHANGED mixed
         \/ f.kind = "subscribe" /\ Resubscribe /\ mixed' = (mixed \/ Mixes)
    /\ UNCHANGED <<linkVars, clientVars>>

-----------------------------------------------------------------------------
(* The client                                                              *)

\* A status is set on the bubble there is.
OnBubble(status) == IF bubble = "absent" THEN "absent" ELSE status

Queued(queue, p) == IF p \in ToSet(queue) THEN queue ELSE Append(queue, p)

ShowPrompt(p) ==
    \/ /\ p \in Ask
       /\ bubble' = OnBubble("awaiting_user")
       /\ form' = IF bubble = "absent" THEN form ELSE p
       /\ UNCHANGED <<permQueue, scheduleQueue>>
    \/ /\ p \in Permissions
       /\ permQueue' = Queued(permQueue, p)
       /\ bubble' = OnBubble("awaiting_permission")
       /\ UNCHANGED <<form, scheduleQueue>>
    \/ /\ p \in Schedule
       /\ scheduleQueue' = Queued(scheduleQueue, p)
       /\ bubble' = IF p \in ToSet(scheduleQueue) THEN bubble ELSE OnBubble("awaiting_user")
       /\ UNCHANGED <<form, permQueue>>

\* tool.result, tool.error, tool.cancelled.
ClearCall ==
    /\ permQueue' = <<>> /\ scheduleQueue' = <<>>
    /\ bubble' = OnBubble("done")
    /\ UNCHANGED form

OnFrame ==
    /\ toClient # <<>>
    /\ toClient' = Tail(toClient)
    /\ LET f == Head(toClient) IN
         \/ f.kind = "prompt" /\ ShowPrompt(f.prompt) /\ UNCHANGED attached
         \/ f.kind \in {"ended", "cancelled"} /\ ClearCall /\ UNCHANGED attached
         \/ /\ f.kind = "born"
            /\ attached' = (attached \/ ~abandoned)
            /\ bubble' = IF attached' THEN "running" ELSE bubble
            /\ UNCHANGED <<form, permQueue, scheduleQueue>>
    /\ UNCHANGED <<coreVars, linkVars, toCore, abandoned, mixed>>

\* UserInput's modes: a permission first, then the askUser form, then a proposal.
Shown ==
    IF permQueue # <<>> THEN Head(permQueue)
    ELSE IF bubble = "awaiting_user" /\ form # NoPrompt THEN form
    ELSE IF scheduleQueue # <<>> THEN Head(scheduleQueue)
    ELSE NoPrompt

\* The user decides what is shown: permissionState.respond, respondAskUser,
\* scheduleConfirmState.respond.
Decide(yes) ==
    LET p == Shown IN
    /\ p # NoPrompt
    /\ p \in Ask => yes
    /\ permQueue' = IF p \in Permissions THEN Tail(permQueue) ELSE permQueue
    /\ scheduleQueue' = IF p \in Schedule THEN Tail(scheduleQueue) ELSE scheduleQueue
    /\ form' = IF p \in Ask THEN NoPrompt ELSE form
    /\ LET awaited == IF p \in Permissions THEN "awaiting_permission" ELSE "awaiting_user"
       IN bubble' = IF bubble = awaited THEN "running" ELSE bubble
    /\ toCore' = Sent(toCore, <<AnswerFrame(p, yes)>>)
    /\ mixed' = (mixed \/ PromptFrame(p) \in ToSet(toClient))
    /\ UNCHANGED <<coreVars, linkVars, toClient, attached, abandoned>>

\* What hasActiveToolCall takes for a call that runs: a permission is not one.
LooksActive == bubble \in {"running", "awaiting_user"}

\* The stop button; a bound: not again before the first press has left.
UserStops ==
    /\ up /\ ~abandoned
    /\ (attached /\ ~settled) \/ LooksActive
    /\ \A i \in 1..Len(toCore) : toCore[i].kind # "cancel"
    /\ toCore' = Append(toCore, Frame("cancel"))
    /\ abandoned' = attached
    /\ UNCHANGED <<coreVars, linkVars, toClient, bubble, form, permQueue, scheduleQueue,
                   attached, mixed>>

\* The transport drops (detachForResume), or the client is closed and opened.
Disconnect(restarts) ==
    /\ up /\ drops < MaxDrops
    /\ up' = FALSE /\ drops' = drops + 1
    /\ toClient' = <<>> /\ toCore' = <<>>
    /\ permQueue' = <<>> /\ scheduleQueue' = <<>>
    /\ attached' = FALSE
    /\ bubble' = IF restarts THEN "absent" ELSE bubble
    /\ form' = IF restarts THEN NoPrompt ELSE form
    /\ abandoned' = (abandoned /\ ~restarts)
    /\ loads' = IF restarts THEN [i \in DOMAIN loads |-> "no"] ELSE loads
    /\ UNCHANGED <<coreVars, mixed>>

\* The reload of a reconnect first interrupts what the client believes to run.
Reconnect ==
    /\ ~up /\ up' = TRUE
    /\ toCore' = IF LooksActive THEN <<Frame("cancel")>> ELSE <<>>
    /\ loads' = [loads EXCEPT ![drops] = "asked"]
    /\ UNCHANGED <<coreVars, drops, toClient, clientVars, mixed>>

\* GET /sessions/:id: a call is in the document once it has ended.
ServeGet(i) ==
    /\ loads[i] = "asked"
    /\ loads' = [loads EXCEPT ![i] = IF settled THEN "ended" ELSE "running"]
    /\ UNCHANGED <<coreVars, up, drops, toClient, toCore, clientVars, mixed>>

\* The document replaces the transcript; chat.subscribe asks for the live rest.
Hydrate(i) ==
    /\ loads[i] \in {"ended", "running"}
    /\ loads' = [loads EXCEPT ![i] = "no"]
    /\ bubble' = IF loads[i] = "ended" THEN "done" ELSE "absent"
    /\ form' = NoPrompt /\ attached' = FALSE
    /\ toCore' = Sent(toCore, <<Frame("subscribe")>>)
    /\ UNCHANGED <<coreVars, up, drops, toClient, permQueue, scheduleQueue, abandoned, mixed>>

-----------------------------------------------------------------------------

Next ==
    \/ \E p \in Prompts : Opens(p) \/ AnsweredAtOnce(p)
    \/ ToolEnds \/ WorkerExits \/ DrainTimer \/ TimeComes \/ Expires
    \/ CoreReceives \/ OnFrame
    \/ \E yes \in BOOLEAN : Decide(yes)
    \/ UserStops
    \/ \E restarts \in BOOLEAN : Disconnect(restarts)
    \/ Reconnect
    \/ \E i \in 1..MaxDrops : ServeGet(i) \/ Hydrate(i)

Spec == Init /\ [][Next]_vars

\* Timers run, frames are delivered while the socket lives, the client comes
\* back and loads, and the user decides what is put to them.  The tool owes
\* nothing: it may neither ask nor end.
FairSpec ==
    /\ Spec
    /\ WF_vars(TimeComes) /\ WF_vars(Expires) /\ WF_vars(DrainTimer)
    /\ WF_vars(CoreReceives) /\ WF_vars(OnFrame) /\ WF_vars(Reconnect)
    /\ WF_vars(\E yes \in BOOLEAN : Decide(yes))
    /\ \A i \in 1..MaxDrops : WF_vars(ServeGet(i) \/ Hydrate(i))

-----------------------------------------------------------------------------
(* Properties                                                              *)

TypeOK ==
    /\ at \in [Prompts -> {"idle", "asked", "yes", "no"}] /\ open \subseteq Prompts
    /\ waits \in Nat /\ timer \in {"off", "armed", "due"}
    /\ {left, cancelled, settled, up, attached, abandoned, mixed} \subseteq BOOLEAN
    /\ {kept, form} \subseteq Prompts \cup {NoPrompt} /\ stored \in [Schedule -> Nat]
    /\ drops \in 0..MaxDrops /\ loads \in [1..MaxDrops -> {"no", "asked", "running", "ended"}]
    /\ bubble \in {"absent", "running", "awaiting_user", "awaiting_permission", "done"}
    /\ ToSet(permQueue) \subseteq Permissions /\ ToSet(scheduleQueue) \subseteq Schedule

\* The budget stands still exactly while some prompt of the call waits for the
\* user (worker-call.ts:153-156): the count of waits is that of the open
\* prompts, no timer runs beside one, and none is missing without one.
BudgetPausedByPrompts ==
    ~cancelled /\ ~settled =>
        /\ waits = Cardinality(open)
        /\ open # {} => timer = "off"
        /\ open = {} => timer # "off" \/ ~left

\* Nothing is on its way and the client is loaded.
Delivered == up /\ toClient = <<>> /\ toCore = <<>> /\ \A i \in DOMAIN loads : loads[i] = "no"

\* A prompt that never met another is on screen as long as it is open, also
\* after a reconnect or a restart of the client (chat.ts:226-229, 270-273), and
\* a call that ended leaves none there.
ScreenMatchesCall ==
    /\ TypeOK
    /\ Delivered =>
        /\ settled => Shown = NoPrompt
        /\ ~settled /\ ~cancelled /\ ~mixed /\ ~abandoned =>
             open = IF Shown = NoPrompt THEN {} ELSE {Shown}

\* A call that waits for the user asks them something: a client that reconnects
\* or restarts can answer it (chat.ts:246-250, 270-273).
WaitingCallAsks ==
    Delivered /\ ~settled /\ ~cancelled /\ ~abandoned /\ open # {} => Shown # NoPrompt

\* A proposal is persisted once at most, and the tool hears that it is scheduled
\* if and only if it is (chat.ts:179-181).
ScheduledAsTold ==
    \A p \in Schedule : stored[p] = IF at[p] = "yes" THEN 1 ELSE 0

\* A call ends, by the tool, its time budget, its worker or a cancel, whatever
\* waits for the user meanwhile; but not if its prompts have met, if it opened a
\* prompt just as its time had come, or if the client has left the stream.
CallEnds == <>(settled \/ mixed \/ ~left \/ abandoned)
=============================================================================
