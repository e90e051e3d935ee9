------------------------- MODULE ToolPromptsProofs -------------------------
(***************************************************************************)
(* Three invariants of ToolPrompts, for any sets of prompts and any bounds: *)
(* a proposal is stored once and reported as stored, the budget of a call   *)
(* stands still exactly while a prompt of it is open, and the screen shows  *)
(* what the call waits for.                                                 *)
(***************************************************************************)
EXTENDS ToolPrompts, FiniteSetTheorems, SequenceTheorems, TLAPS

\* What an open prompt is, on both sides, and what was stored for it.
PromptsInv ==
    /\ at \in [Prompts -> {"idle", "asked", "yes", "no"}]
    /\ stored \in [Schedule -> Nat]
    /\ open \subseteq {p \in Prompts : at[p] = "asked"}
    /\ ScheduledAsTold

\* The budget is right as long as the call can still be timed out.
BudgetInv ==
    /\ IsFiniteSet(open)
    /\ waits \in Nat /\ timer \in {"off", "armed", "due"} /\ left \in BOOLEAN
    /\ cancelled \in BOOLEAN /\ settled \in BOOLEAN
    /\ BudgetPausedByPrompts

-----------------------------------------------------------------------------
(* The prompts                                                             *)

LEMMA PromptsInit == Init => PromptsInv
<1>1. SUFFICES ASSUME Init PROVE PromptsInv
  OBVIOUS
<1>2. \A p \in Schedule : p \in Prompts
  BY DEF Prompts
<1>3. QED
  BY <1>1, <1>2 DEF Init, PromptsInv, ScheduledAsTold

\* An answer settles its prompt and no other, and only if that is open.
LEMMA RespondPrompts ==
    ASSUME PromptsInv, NEW p, NEW yes \in BOOLEAN, Respond(p, yes),
           stored' \in [Schedule -> Nat],
           \A s \in Schedule :
              stored'[s] = IF s = p /\ s \in open /\ yes THEN stored[s] + 1 ELSE stored[s],
           p \in Schedule \/ stored' = stored
    PROVE  PromptsInv'
<1>1. CASE p \in open
  <2>1. /\ open' = open \ {p}
        /\ at' = [at EXCEPT ![p] = IF yes THEN "yes" ELSE "no"]
    BY <1>1 DEF Respond
  <2>2. p \in Prompts /\ at[p] = "asked"
    BY <1>1 DEF PromptsInv
  <2>3. \A s \in Schedule : s \in Prompts /\ stored'[s] = IF at'[s] = "yes" THEN 1 ELSE 0
    BY <1>1, <2>1, <2>2 DEF PromptsInv, ScheduledAsTold, Prompts
  <2>4. QED
    BY <2>1, <2>2, <2>3 DEF PromptsInv, ScheduledAsTold
<1>2. CASE p \notin open
  <2>1. at' = at /\ open' = open
    BY <1>2 DEF Respond
  <2>2. \A s \in Schedule : stored'[s] = stored[s]
    BY <1>2
  <2>3. QED
    BY <2>1, <2>2 DEF PromptsInv, ScheduledAsTold
<1>3. QED
  BY <1>1, <1>2

LEMMA ForwardPrompts ==
    ASSUME PromptsInv, NEW p, NEW yes \in BOOLEAN, Forward(p, yes)
    PROVE  PromptsInv'
<1>1. CASE settled \/ p \in Schedule \ open
  BY <1>1 DEF Forward, coreVars, PromptsInv, ScheduledAsTold
<1>2. CASE ~(settled \/ p \in Schedule \ open)
  <2>1. CASE p \in Schedule /\ Confirm(p, yes)
    <3>1. PICK saved \in {yes, FALSE} :
              /\ stored' = [stored EXCEPT ![p] = IF saved THEN @ + 1 ELSE @]
              /\ Respond(p, saved)
      BY <2>1 DEF Confirm
    <3>2. p \in open /\ saved \in BOOLEAN
      BY <1>2, <2>1
    <3>3. /\ stored' \in [Schedule -> Nat]
          /\ \A s \in Schedule :
                stored'[s] = IF s = p /\ s \in open /\ saved THEN stored[s] + 1 ELSE stored[s]
      BY <2>1, <3>1, <3>2 DEF PromptsInv
    <3>4. QED
      BY <2>1, <3>1, <3>2, <3>3, RespondPrompts
  <2>2. CASE p \notin Schedule /\ Respond(p, yes) /\ UNCHANGED stored
    <3>1. stored' \in [Schedule -> Nat]
      BY <2>2 DEF PromptsInv
    <3>2. QED
      BY <2>2, <3>1, RespondPrompts
  <2>3. QED
    BY <1>2, <2>1, <2>2 DEF Forward
<1>3. QED
  BY <1>1, <1>2

\* The refusal of module permissions touches no proposal.
LEMMA RefusedPrompts ==
    ASSUME PromptsInv, BrokerRefused, UNCHANGED stored
    PROVE  PromptsInv'
<1>1. \A s \in Schedule : s \in Prompts /\ s \notin Broker
  BY KindsAssumption DEF Prompts, Permissions
<1>2. /\ open' = open \ Broker
      /\ at' = [p \in Prompts |-> IF p \in open \cap Broker THEN "no" ELSE at[p]]
  BY DEF BrokerRefused
<1>3. QED
  BY <1>1, <1>2 DEF PromptsInv, ScheduledAsTold

LEMMA PromptsNext == PromptsInv /\ [Next]_vars => PromptsInv'
<1> SUFFICES ASSUME PromptsInv, [Next]_vars PROVE PromptsInv'
  OBVIOUS
<1>a. Schedule \subseteq Prompts
  BY DEF Prompts
<1>b. UNCHANGED <<at, open, stored>> => PromptsInv'
  BY DEF PromptsInv, ScheduledAsTold
<1>1. ASSUME NEW p \in Prompts, Opens(p) PROVE PromptsInv'
  <2>1. /\ at[p] = "idle" /\ at' = [at EXCEPT ![p] = "asked"]
        /\ open' = open \cup {p} /\ stored' = stored
    BY <1>1 DEF Opens, CanAsk
  <2>2. QED
    BY <1>a, <2>1 DEF PromptsInv, ScheduledAsTold
<1>2. ASSUME NEW p \in Prompts, AnsweredAtOnce(p) PROVE PromptsInv'
  <2>1. PICK told \in {"yes", "no"} :
            (told = "yes" => p \in Broker) /\ at' = [at EXCEPT ![p] = told]
    BY <1>2 DEF AnsweredAtOnce
  <2>2. at[p] = "idle" /\ open' = open /\ stored' = stored
    BY <1>2 DEF AnsweredAtOnce, CanAsk
  <2>3. p \in Schedule => told = "no"
    BY <2>1, KindsAssumption DEF Permissions
  <2>4. QED
    BY <1>a, <2>1, <2>2, <2>3 DEF PromptsInv, ScheduledAsTold
<1>3. CASE ToolEnds
  BY <1>b, <1>3 DEF ToolEnds, Settle
<1>4. CASE WorkerExits
  BY <1>4, RefusedPrompts DEF WorkerExits, Settle
<1>5. CASE DrainTimer
  BY <1>b, <1>5 DEF DrainTimer, Settle
<1>6. CASE TimeComes
  BY <1>b, <1>6 DEF TimeComes
<1>7. CASE Expires
  BY <1>b, <1>7 DEF Expires, Settle
<1>8. CASE CoreReceives
  <2> DEFINE f == Head(toCore)
  <2>1. CASE f.kind \in {"accept", "decline"} /\ Forward(f.prompt, f.kind = "accept")
    BY <2>1, ForwardPrompts
  <2>2. CASE Cancel
    <3>1. CASE settled \/ cancelled
      BY <1>b, <2>2, <3>1 DEF Cancel, coreVars
    <3>2. CASE ~(settled \/ cancelled)
      BY <2>2, <3>2, RefusedPrompts DEF Cancel
    <3>3. QED
      BY <3>1, <3>2
  <2>3. CASE Resubscribe
    BY <1>b, <2>3 DEF Resubscribe, coreVars
  <2>4. QED
    BY <1>8, <2>1, <2>2, <2>3 DEF CoreReceives
<1>9. CASE OnFrame
  BY <1>b, <1>9 DEF OnFrame, coreVars
<1>10. ASSUME NEW yes \in BOOLEAN, Decide(yes) PROVE PromptsInv'
  BY <1>b, <1>10 DEF Decide, coreVars
<1>11. CASE UserStops
  BY <1>b, <1>11 DEF UserStops, coreVars
<1>12. ASSUME NEW restarts \in BOOLEAN, Disconnect(restarts) PROVE PromptsInv'
  BY <1>b, <1>12 DEF Disconnect, coreVars
<1>13. CASE Reconnect
  BY <1>b, <1>13 DEF Reconnect, coreVars
<1>14. ASSUME NEW i \in 1..MaxDrops, ServeGet(i) \/ Hydrate(i) PROVE PromptsInv'
  BY <1>b, <1>14 DEF ServeGet, Hydrate, coreVars
<1>15. CASE UNCHANGED vars
  BY <1>b, <1>15 DEF vars, coreVars
<1>16. QED
  BY <1>1, <1>2, <1>3, <1>4, <1>5, <1>6, <1>7, <1>8, <1>9, <1>10, <1>11, <1>12,
     <1>13, <1>14, <1>15 DEF Next

\* A proposal is stored once at most, and the tool hears that it is scheduled if
\* and only if it was stored, for any number of prompts of a call and however
\* often answers are lost, repeated or late (forwardScheduleResponse).
THEOREM ToldWhatIsStored == Spec => []ScheduledAsTold
<1>1. PromptsInv => ScheduledAsTold
  BY DEF PromptsInv
<1>2. QED
  BY <1>1, PromptsInit, PromptsNext, PTL DEF Spec

-----------------------------------------------------------------------------
(* The budget                                                              *)

LEMMA BudgetInit == Init => BudgetInv
<1> SUFFICES ASSUME Init PROVE BudgetInv
  OBVIOUS
<1>1. IsFiniteSet({}) /\ Cardinality({}) = 0
  BY FS_EmptySet
<1>2. /\ open = {} /\ waits = 0 /\ timer = "armed" /\ left = TRUE
      /\ cancelled = FALSE /\ settled = FALSE
  BY DEF Init
<1>3. QED
  BY <1>1, <1>2 DEF BudgetInv, BudgetPausedByPrompts

\* An answer ends one wait, and the last one resumes what is left.
LEMMA RespondBudget ==
    ASSUME BudgetInv, NEW p, NEW yes, Respond(p, yes), UNCHANGED <<cancelled, settled>>
    PROVE  BudgetInv'
<1>1. CASE p \in open
  <2>1. open' = open \ {p} /\ EndUserWait
    BY <1>1 DEF Respond
  <2>2. /\ IsFiniteSet(open') /\ Cardinality(open') = Cardinality(open) - 1
        /\ Cardinality(open) \in Nat /\ Cardinality(open) # 0
    BY <1>1, <2>1, FS_RemoveElement, FS_CardinalityType, FS_EmptySet DEF BudgetInv
  <2>3. Cardinality(open') = 0 <=> open' = {}
    BY <2>2, FS_EmptySet
  <2>4. /\ waits' \in Nat /\ timer' \in {"off", "armed", "due"} /\ left' \in BOOLEAN
    BY <2>1 DEF EndUserWait, BudgetInv
  <2>5. ASSUME ~cancelled, ~settled
        PROVE  /\ waits' = Cardinality(open')
               /\ open' # {} => timer' = "off"
               /\ open' = {} => timer' # "off" \/ ~left'
    <3>1. waits = Cardinality(open) /\ timer = "off"
      BY <1>1, <2>5 DEF BudgetInv, BudgetPausedByPrompts
    <3>2. waits' = Cardinality(open')
      BY <2>1, <2>2, <3>1 DEF EndUserWait
    <3>3. CASE open' = {}
      BY <2>1, <2>3, <2>5, <3>1, <3>2, <3>3 DEF EndUserWait, BudgetInv
    <3>4. CASE open' # {}
      BY <2>1, <2>3, <3>1, <3>2, <3>4 DEF EndUserWait
    <3>5. QED
      BY <3>2, <3>3, <3>4
  <2>6. QED
    BY <2>2, <2>4, <2>5 DEF BudgetInv, BudgetPausedByPrompts
<1>2. CASE p \notin open
  BY <1>2 DEF Respond, BudgetInv, BudgetPausedByPrompts
<1>3. QED
  BY <1>1, <1>2

\* A call that ends or is cancelled owes its budget nothing any more.
LEMMA EndedBudget ==
    ASSUME BudgetInv, settled' \/ cancelled',
           IsFiniteSet(open'), waits' \in Nat, timer' \in {"off", "armed", "due"},
           left' \in BOOLEAN, cancelled' \in BOOLEAN, settled' \in BOOLEAN
    PROVE  BudgetInv'
  BY DEF BudgetInv, BudgetPausedByPrompts

LEMMA SettleBudget ==
    ASSUME BudgetInv, Settle, IsFiniteSet(open')
    PROVE  BudgetInv'
  BY EndedBudget DEF Settle, BudgetInv

LEMMA BudgetNext == PromptsInv /\ BudgetInv /\ [Next]_vars => BudgetInv'
<1> SUFFICES ASSUME PromptsInv, BudgetInv, [Next]_vars PROVE BudgetInv'
  OBVIOUS
<1>a. UNCHANGED <<open, waits, timer, left, cancelled, settled>> => BudgetInv'
  BY DEF BudgetInv, BudgetPausedByPrompts
<1>b. BrokerRefused => IsFiniteSet(open')
  BY FS_Difference DEF BrokerRefused, BudgetInv
<1>1. ASSUME NEW p \in Prompts, Opens(p) PROVE BudgetInv'
  <2>1. /\ at[p] = "idle" /\ open' = open \cup {p} /\ waits' = waits + 1
        /\ timer' = "off" /\ left' = (left /\ timer # "due")
        /\ UNCHANGED <<cancelled, settled>>
    BY <1>1 DEF Opens, CanAsk, Pause
  <2>2. p \notin open
    BY <2>1 DEF PromptsInv
  <2>3. IsFiniteSet(open') /\ Cardinality(open') = Cardinality(open) + 1
    BY <2>1, <2>2, FS_AddElement DEF BudgetInv
  <2>4. left' \in BOOLEAN
    BY <2>1
  <2>5. QED
    BY <2>1, <2>3, <2>4 DEF BudgetInv, BudgetPausedByPrompts
<1>2. ASSUME NEW p \in Prompts, AnsweredAtOnce(p) PROVE BudgetInv'
  BY <1>a, <1>2 DEF AnsweredAtOnce
<1>3. CASE ToolEnds
  BY <1>3, SettleBudget DEF ToolEnds, BudgetInv
<1>4. CASE WorkerExits
  BY <1>b, <1>4, SettleBudget DEF WorkerExits
<1>5. CASE DrainTimer
  BY <1>5, SettleBudget DEF DrainTimer, BudgetInv
<1>6. CASE TimeComes
  BY <1>6 DEF TimeComes, BudgetInv, BudgetPausedByPrompts
<1>7. CASE Expires
  <2>1. CASE Settle /\ UNCHANGED open
    BY <2>1, SettleBudget DEF BudgetInv
  <2>2. CASE /\ waits > 0 /\ timer = "due" /\ timer' = "off"
             /\ UNCHANGED <<open, waits, left, cancelled, settled>>
    <3>1. ~cancelled /\ ~settled => FALSE
      <4>1. SUFFICES ASSUME ~cancelled, ~settled PROVE FALSE
        OBVIOUS
      <4>2. Cardinality(open) > 0 /\ open = {}
        BY <2>2, <4>1 DEF BudgetInv, BudgetPausedByPrompts
      <4>3. QED
        BY <4>2, FS_EmptySet
    <3>2. QED
      BY <2>2, <3>1 DEF BudgetInv, BudgetPausedByPrompts
  <2>3. QED
    BY <1>7, <2>1, <2>2 DEF Expires
<1>8. CASE CoreReceives
  <2> DEFINE f == Head(toCore)
  <2>1. CASE Forward(f.prompt, f.kind = "accept")
    <3>1. CASE UNCHANGED coreVars
      BY <1>a, <3>1 DEF coreVars
    <3>2. ASSUME NEW yes, Respond(f.prompt, yes), UNCHANGED <<cancelled, settled>>
          PROVE  BudgetInv'
      BY <3>2, RespondBudget
    <3>3. QED
      BY <2>1, <3>1, <3>2 DEF Forward, Confirm
  <2>2. CASE Cancel
    <3>1. CASE settled \/ cancelled
      BY <1>a, <2>2, <3>1 DEF Cancel, coreVars
    <3>2. CASE ~(settled \/ cancelled)
      BY <1>b, <2>2, <3>2, EndedBudget DEF Cancel, BudgetInv
    <3>3. QED
      BY <3>1, <3>2
  <2>3. CASE Resubscribe
    BY <1>a, <2>3 DEF Resubscribe, coreVars
  <2>4. QED
    BY <1>8, <2>1, <2>2, <2>3 DEF CoreReceives
<1>9. CASE OnFrame
  BY <1>a, <1>9 DEF OnFrame, coreVars
<1>10. ASSUME NEW yes \in BOOLEAN, Decide(yes) PROVE BudgetInv'
  BY <1>a, <1>10 DEF Decide, coreVars
<1>11. CASE UserStops
  BY <1>a, <1>11 DEF UserStops, coreVars
<1>12. ASSUME NEW restarts \in BOOLEAN, Disconnect(restarts) PROVE BudgetInv'
  BY <1>a, <1>12 DEF Disconnect, coreVars
<1>13. CASE Reconnect
  BY <1>a, <1>13 DEF Reconnect, coreVars
<1>14. ASSUME NEW i \in 1..MaxDrops, ServeGet(i) \/ Hydrate(i) PROVE BudgetInv'
  BY <1>a, <1>14 DEF ServeGet, Hydrate, coreVars
<1>15. CASE UNCHANGED vars
  BY <1>a, <1>15 DEF vars, coreVars
<1>16. QED
  BY <1>1, <1>2, <1>3, <1>4, <1>5, <1>6, <1>7, <1>8, <1>9, <1>10, <1>11, <1>12,
     <1>13, <1>14, <1>15 DEF Next

\* As long as a call is neither ended nor cancelled, its budget stands still
\* exactly while a prompt is open, whichever prompts it has and in whatever
\* order they open, are answered, or race the timer (beginUserWait, endUserWait).
THEOREM BudgetStandsStill == Spec => []BudgetPausedByPrompts
<1>1. BudgetInv => BudgetPausedByPrompts
  BY DEF BudgetInv
<1>2. QED
  BY <1>1, PromptsInit, PromptsNext, BudgetInit, BudgetNext, PTL DEF Spec

-----------------------------------------------------------------------------
(* The screen                                                              *)

\* Frames carry a prompt if they are about one.
ToClient == {f \in [kind : {"prompt", "born", "ended", "cancelled"},
                    prompt : Prompts \cup {NoPrompt}] :
                f.kind = "prompt" <=> f.prompt # NoPrompt}
ToCore == {f \in [kind : {"accept", "decline", "cancel", "subscribe"},
                  prompt : Prompts \cup {NoPrompt}] :
                f.kind \in {"accept", "decline"} <=> f.prompt # NoPrompt}

\* The types of the client, of what is kept for it and of what is on its way.
Types ==
    /\ {up, attached, abandoned, mixed} \subseteq BOOLEAN
    /\ kept \in Prompts \cup {NoPrompt}
    /\ drops \in 0..MaxDrops /\ loads \in [1..MaxDrops -> {"no", "asked", "running", "ended"}]
    /\ bubble \in {"absent", "running", "awaiting_user", "awaiting_permission", "done"}
    /\ toClient \in Seq(ToClient) /\ toCore \in Seq(ToCore)
    /\ permQueue \in Seq(Permissions) /\ scheduleQueue \in Seq(Schedule)
    /\ form \in Ask \cup {NoPrompt}

Loading == \E i \in 1..MaxDrops : loads[i] # "no"
Subscribing == \E i \in 1..Len(toCore) : toCore[i].kind = "subscribe"
Answering == \E i \in 1..Len(toCore) : toCore[i].prompt # NoPrompt

\* A connection that dropped carries nothing and leaves no queue behind.
Severed ==
    ~up => /\ drops > 0 /\ toClient = <<>> /\ toCore = <<>>
           /\ permQueue = <<>> /\ scheduleQueue = <<>>

\* The last thing a client hears of a call is that it ended; one that missed it
\* has a document to load.
Finished ==
    settled =>
        /\ kept = NoPrompt
        /\ toClient # <<>> => toClient[Len(toClient)].kind = "ended"
        /\ toClient = <<>> => /\ permQueue = <<>> /\ scheduleQueue = <<>>
                              /\ ~up \/ Loading \/ bubble # "awaiting_user"

\* The call goes on and its prompts have not met.
Alone == ~settled /\ ~cancelled /\ ~mixed

\* The prompt that is kept is the one that is open, the only one on its way to
\* the client and the only one the client has; nothing follows it.
Single ==
    /\ open = {kept} \ {NoPrompt}
    /\ permQueue \in {<<>>, <<kept>>} /\ scheduleQueue \in {<<>>, <<kept>>}
    /\ form \in {NoPrompt, kept}
    /\ \A i \in 1..Len(toClient) : /\ toClient[i].kind \in {"prompt", "born"}
                                   /\ toClient[i].prompt \in {NoPrompt, kept}
    /\ toClient # <<>> => toClient[Len(toClient)].prompt = kept

\* Its answer is the only one on its way, and leaves the client without it.
Answered ==
    /\ \A i, j \in 1..Len(toCore) :
         toCore[i].prompt # NoPrompt /\ toCore[j].prompt # NoPrompt => i = j
    /\ \A i \in 1..Len(toCore) : toCore[i].prompt \in {NoPrompt, kept}
    /\ Answering => /\ toClient = <<>> /\ permQueue = <<>> /\ scheduleQueue = <<>>
                    /\ form = NoPrompt

\* The client has a prompt where its user is asked.
Has(p) == \/ form = p /\ bubble = "awaiting_user"
          \/ permQueue = <<p>>
          \/ scheduleQueue = <<p>>

\* A client that is loaded and has subscribed has the call's bubble, or is about
\* to; and then the open prompt, unless it is on its way or answered.
Presented ==
    ~abandoned /\ up /\ ~Loading /\ ~Subscribing =>
        /\ bubble # "absent" \/ \E i \in 1..Len(toClient) : toClient[i].kind = "born"
        /\ kept # NoPrompt /\ toClient = <<>> /\ ~Answering => Has(kept)

ScreenInv ==
    /\ Types /\ Severed /\ Finished
    /\ Alone => Single /\ Answered /\ Presented

-----------------------------------------------------------------------------
(* Queues                                                                  *)

\* What is sent comes last, or is lost.
LEMMA SentFrames ==
    ASSUME NEW S, NEW q \in Seq(S), NEW t \in Seq(S)
    PROVE  /\ Sent(q, t) \in Seq(S)
           /\ ~up => Sent(q, t) = q
           /\ up => /\ Len(Sent(q, t)) = Len(q) + Len(t)
                    /\ \A i \in 1..Len(q) : Sent(q, t)[i] = q[i]
                    /\ \A i \in 1..Len(t) : Sent(q, t)[Len(q) + i] = t[i]
  BY DEF Sent

LEMMA SentFrame ==
    ASSUME NEW S, NEW q \in Seq(S), NEW f \in S
    PROVE  /\ Sent(q, <<f>>) \in Seq(S)
           /\ ~up => Sent(q, <<f>>) = q
           /\ up => /\ Sent(q, <<f>>) # <<>>
                    /\ Len(Sent(q, <<f>>)) = Len(q) + 1
                    /\ \A i \in 1..Len(q) : Sent(q, <<f>>)[i] = q[i]
                    /\ Sent(q, <<f>>)[Len(q) + 1] = f
  <1>1. q \o <<f>> = Append(q, f)
    BY AppendIsConcat
  <1>2. /\ Append(q, f) \in Seq(S) /\ Append(q, f) # <<>>
        /\ Len(Append(q, f)) = Len(q) + 1 /\ Append(q, f)[Len(q) + 1] = f
        /\ \A i \in 1..Len(q) : Append(q, f)[i] = q[i]
    BY AppendProperties
  <1>3. QED  BY <1>1, <1>2, Zenon DEF Sent

\* What is received came first.
LEMMA Received ==
    ASSUME NEW S, NEW q \in Seq(S), q # <<>>
    PROVE  /\ Head(q) = q[1] /\ Head(q) \in S /\ Len(q) \in Nat \ {0}
           /\ Tail(q) \in Seq(S) /\ Len(Tail(q)) = Len(q) - 1
           /\ \A i \in 1..Len(Tail(q)) : Tail(q)[i] = q[i + 1] /\ i + 1 \in 1..Len(q)
           /\ Tail(q) = <<>> <=> Len(q) = 1
           /\ Tail(q) # <<>> => Tail(q)[Len(Tail(q))] = q[Len(q)]
  <1> DEFINE t == Tail(q)
             n == Len(t)
  <1>1. /\ Head(q) = q[1] /\ Head(q) \in S /\ Len(q) \in Nat \ {0}
        /\ t \in Seq(S) /\ n = Len(q) - 1
    <2>1. Len(q) \in Nat \ {0}
      BY EmptySeq
    <2>2. Head(q) = q[1]
      OBVIOUS
    <2>3. QED  BY <2>1, <2>2, HeadTailProperties
  <1>2. \A i \in 1..n : t[i] = q[i + 1]
    BY HeadTailProperties
  <1> HIDE DEF t
  <1>3. t = <<>> <=> n = 0
    BY <1>1, EmptySeq
  <1> HIDE DEF n
  <1>4. \A i \in 1..n : i + 1 \in 1..Len(q)
    BY <1>1
  <1>5. t # <<>> => n \in 1..n /\ n + 1 = Len(q)
    BY <1>1, <1>3
  <1>6. QED  BY <1>1, <1>2, <1>3, <1>4, <1>5 DEF t, n

\* The frames there are.
LEMMA FrameTypes ==
    /\ \A p \in Prompts :
         /\ PromptFrame(p) \in ToClient
         /\ PromptFrame(p).kind = "prompt" /\ PromptFrame(p).prompt = p
    /\ \A k \in {"born", "ended", "cancelled"} :
         Frame(k) \in ToClient /\ Frame(k).kind = k /\ Frame(k).prompt = NoPrompt
    /\ \A k \in {"cancel", "subscribe"} :
         Frame(k) \in ToCore /\ Frame(k).kind = k /\ Frame(k).prompt = NoPrompt
    /\ \A p \in Prompts, yes \in BOOLEAN :
         AnswerFrame(p, yes) \in ToCore /\ AnswerFrame(p, yes).prompt = p
           /\ AnswerFrame(p, yes).kind \in {"accept", "decline"}
  BY PromptsAssumption DEF PromptFrame, Frame, AnswerFrame, ToClient, ToCore

\* Of the queues and the form, a prompt fits one, and none of them holds NoPrompt.
LEMMA OnePlace ==
    ASSUME Types
    PROVE  /\ NoPrompt \notin Prompts
           /\ \A q \in {permQueue, scheduleQueue} : q # <<NoPrompt>>
           /\ \A p \in Permissions : scheduleQueue # <<p>> /\ form # p
           /\ \A p \in Schedule : permQueue # <<p>> /\ form # p
           /\ \A p \in Ask : permQueue # <<p>> /\ scheduleQueue # <<p>>
  <1>1. NoPrompt \notin Permissions /\ NoPrompt \notin Schedule /\ NoPrompt \notin Ask
        /\ NoPrompt \notin Prompts
    BY PromptsAssumption DEF Prompts, Permissions
  <1>2. ASSUME NEW S, NEW q \in Seq(S), NEW p, p \notin S PROVE q # <<p>>
    <2> SUFFICES ASSUME q = <<p>> PROVE FALSE  OBVIOUS
    <2>1. Len(q) = 1 /\ q[1] = p
      OBVIOUS
    <2>2. QED  BY <1>2, <2>1
  <1>3. permQueue \in Seq(Permissions) /\ scheduleQueue \in Seq(Schedule)
        /\ form \in Ask \cup {NoPrompt}
    BY DEF Types
  <1>4. \A p \in Permissions : p \notin Schedule /\ p \notin Ask
    BY KindsAssumption
  <1>5. \A p \in Schedule : p \notin Permissions /\ p \notin Ask
    BY KindsAssumption
  <1>6. \A p \in Ask : p \notin Permissions /\ p \notin Schedule
    BY KindsAssumption
  <1>7. /\ \A p : p \notin Permissions => permQueue # <<p>>
        /\ \A p : p \notin Schedule => scheduleQueue # <<p>>
    BY <1>2, <1>3
  <1>8. QED  BY <1>1, <1>3, <1>4, <1>5, <1>6, <1>7

\* What the invariant says of a client while its call goes on.
LEMMA AloneFacts ==
    ASSUME ScreenInv, Alone
    PROVE  /\ Single /\ Answered /\ Presented
           /\ \A p : Has(p) /\ p # NoPrompt => p = kept
           /\ kept = NoPrompt => /\ open = {} /\ permQueue = <<>> /\ scheduleQueue = <<>>
                                 /\ form = NoPrompt /\ ~Answering
           /\ kept # NoPrompt => open = {kept}
  <1>1. Single /\ Answered /\ Presented /\ Types
    BY DEF ScreenInv
  <1>2. permQueue # <<NoPrompt>> /\ scheduleQueue # <<NoPrompt>>
    BY <1>1, OnePlace
  <1>3. permQueue \in {<<>>, <<kept>>} /\ scheduleQueue \in {<<>>, <<kept>>}
        /\ form \in {NoPrompt, kept} /\ open = {kept} \ {NoPrompt}
    BY <1>1 DEF Single
  <1>4. \A i \in 1..Len(toCore) : toCore[i].prompt \in {NoPrompt, kept}
    BY <1>1 DEF Answered
  <1>5. kept = NoPrompt => ~Answering
    BY <1>4 DEF Answering
  <1>6. \A p : Has(p) /\ p # NoPrompt => p = kept
    <2> SUFFICES ASSUME NEW p, Has(p), p # NoPrompt PROVE p = kept  OBVIOUS
    <2>1. \A q : <<p>> # <<>> /\ (<<p>> = <<q>> => p = q)
      OBVIOUS
    <2>2. QED  BY <1>3, <2>1 DEF Has
  <1>7. QED  BY <1>1, <1>2, <1>3, <1>5, <1>6

\* What a step that leaves the client and the frames alone keeps.
LEMMA SameScreen ==
    ASSUME ScreenInv, UNCHANGED <<open, kept, settled, up, drops, toClient, toCore, loads,
                                  clientVars, mixed>>,
           cancelled' \in BOOLEAN, cancelled => cancelled'
    PROVE  ScreenInv'
  <1>1. UNCHANGED <<bubble, form, permQueue, scheduleQueue, attached, abandoned>>
    BY DEF clientVars
  <1>2. (Loading' <=> Loading) /\ (Subscribing' <=> Subscribing)
        /\ (Answering' <=> Answering)
    BY DEF Loading, Subscribing, Answering
  <1>3. Types' /\ Severed' /\ Finished'
    BY <1>1, <1>2 DEF ScreenInv, Types, Severed, Finished
  <1>4. ASSUME Alone' PROVE Single' /\ Answered' /\ Presented'
    <2>1. Single /\ Answered /\ Presented
      BY <1>4 DEF ScreenInv, Alone
    <2>2. Single' /\ Answered'
      BY <1>1, <1>2, <2>1 DEF Single, Answered
    <2>3. Presented'
      BY <1>1, <1>2, <2>1 DEF Presented, Has
    <2>4. QED  BY <2>2, <2>3
  <1>5. QED  BY <1>3, <1>4 DEF ScreenInv

-----------------------------------------------------------------------------
(* The core's steps                                                        *)

\* A prompt opens: it is kept and sent; if it met none, it is alone.
LEMMA OpensScreen ==
    ASSUME ScreenInv, NEW p \in Prompts, Opens(p)
    PROVE  ScreenInv'
  <1> DEFINE f == PromptFrame(p)
  <1>1. f \in ToClient /\ f.kind = "prompt" /\ f.prompt = p /\ p # NoPrompt
    BY FrameTypes, OnePlace DEF ScreenInv
  <1>2. /\ toClient' = Sent(toClient, <<f>>) /\ kept' = p /\ open' = open \cup {p}
        /\ ~settled /\ mixed' = (mixed \/ open # {})
        /\ UNCHANGED <<cancelled, settled, up, drops, loads, toCore>>
        /\ UNCHANGED <<bubble, form, permQueue, scheduleQueue, attached, abandoned>>
    BY DEF Opens, CanAsk, linkVars, clientVars
  <1> HIDE DEF f
  <1>3. Types /\ Severed
    BY DEF ScreenInv
  <1>4. /\ toClient' \in Seq(ToClient) /\ (~up => toClient' = toClient)
        /\ up => /\ toClient' # <<>> /\ Len(toClient') = Len(toClient) + 1
                 /\ Len(toClient) \in Nat
                 /\ \A i \in 1..Len(toClient) : toClient'[i] = toClient[i]
                 /\ toClient'[Len(toClient) + 1] = f
    <2>1. toClient \in Seq(ToClient) /\ Len(toClient) \in Nat
      BY <1>3 DEF Types
    <2> DEFINE r == Sent(toClient, <<f>>)
    <2>2. /\ r \in Seq(ToClient) /\ (~up => r = toClient)
          /\ up => /\ r # <<>> /\ Len(r) = Len(toClient) + 1
                   /\ \A i \in 1..Len(toClient) : r[i] = toClient[i]
                   /\ r[Len(toClient) + 1] = f
      BY <1>1, <2>1, SentFrame
    <2>3. toClient' = r
      BY <1>2
    <2> HIDE DEF r
    <2>4. QED  BY <2>1, <2>2, <2>3
  <1>5. (Loading' <=> Loading) /\ (Subscribing' <=> Subscribing)
        /\ (Answering' <=> Answering)
    BY <1>2 DEF Loading, Subscribing, Answering
  <1>6. mixed' \in BOOLEAN
    BY <1>2, <1>3 DEF Types
  <1>7. Types'
    BY <1>2, <1>3, <1>4, <1>6 DEF Types
  <1>8. Severed'
    BY <1>2, <1>3, <1>4 DEF Severed
  <1>9. Finished'
    BY <1>2 DEF Finished
  <1>10. ASSUME Alone' PROVE Single' /\ Answered' /\ Presented'
    <2>1. Alone /\ open = {}
      BY <1>2, <1>10 DEF Alone
    <2>2. /\ Single /\ Answered /\ Presented /\ kept = NoPrompt
          /\ permQueue = <<>> /\ scheduleQueue = <<>> /\ form = NoPrompt /\ ~Answering
      BY <2>1, AloneFacts
    <2>3. \A i \in 1..Len(toClient) : /\ toClient[i].kind \in {"prompt", "born"}
                                      /\ toClient[i].prompt = NoPrompt
      BY <2>2 DEF Single
    <2>4. \A i \in 1..Len(toClient') : /\ toClient'[i].kind \in {"prompt", "born"}
                                       /\ toClient'[i].prompt \in {NoPrompt, p}
      BY <1>1, <1>2, <1>3, <1>4, <2>3 DEF Severed
    <2>5. toClient' # <<>> => toClient'[Len(toClient')].prompt = p
      BY <1>1, <1>2, <1>3, <1>4, <2>3 DEF Severed
    <2>6. Single'
      BY <1>1, <1>2, <2>1, <2>2, <2>4, <2>5 DEF Single
    <2>7. Answered'
      BY <1>2, <1>5, <2>2 DEF Answered
    <2>8. Presented'
      <3> SUFFICES ASSUME ~abandoned, up, ~Loading, ~Subscribing
                   PROVE  /\ bubble # "absent"
                             \/ \E i \in 1..Len(toClient') : toClient'[i].kind = "born"
                          /\ toClient' # <<>>
        BY <1>2, <1>5 DEF Presented
      <3>1. bubble # "absent" \/ \E i \in 1..Len(toClient) : toClient[i].kind = "born"
        BY <2>2 DEF Presented
      <3>2. \A i \in 1..Len(toClient) : i \in 1..Len(toClient') /\ toClient'[i] = toClient[i]
        BY <1>4
      <3>3. CASE bubble # "absent"
        BY <1>4, <3>3
      <3>4. ASSUME NEW i \in 1..Len(toClient), toClient[i].kind = "born"
            PROVE  i \in 1..Len(toClient') /\ toClient'[i].kind = "born"
        BY <3>2, <3>4
      <3>5. QED  BY <1>4, <3>1, <3>3, <3>4
    <2>9. QED  BY <2>6, <2>7, <2>8
  <1>11. QED  BY <1>7, <1>8, <1>9, <1>10 DEF ScreenInv

\* A call that ends tells the client, if it is there, after everything else.
LEMMA SettleScreen ==
    ASSUME ScreenInv, Settle
    PROVE  ScreenInv'
  <1> DEFINE f == Frame("ended")
  <1>1. f \in ToClient /\ f.kind = "ended"
    BY FrameTypes
  <1>2. /\ toClient' = Sent(toClient, <<f>>) /\ kept' = NoPrompt /\ settled'
        /\ UNCHANGED <<up, drops, loads, toCore, mixed>>
        /\ UNCHANGED <<bubble, form, permQueue, scheduleQueue, attached, abandoned>>
    BY DEF Settle, linkVars, clientVars
  <1> HIDE DEF f
  <1>3. Types /\ Severed
    BY DEF ScreenInv
  <1>4. /\ toClient' \in Seq(ToClient) /\ (~up => toClient' = toClient)
        /\ up => /\ toClient' # <<>> /\ toClient'[Len(toClient')] = f
    <2>1. toClient \in Seq(ToClient)
      BY <1>3 DEF Types
    <2>2. QED  BY <1>1, <1>2, <2>1, SentFrame
  <1>5. Types'
    BY <1>2, <1>3, <1>4 DEF Types
  <1>6. Severed'
    BY <1>2, <1>3, <1>4 DEF Severed
  <1>7. Finished'
    BY <1>1, <1>2, <1>3, <1>4 DEF Finished, Severed
  <1>8. ~Alone'
    BY <1>2 DEF Alone
  <1>9. QED  BY <1>5, <1>6, <1>7, <1>8 DEF ScreenInv

\* What taking a frame of the client leaves on the way.
LEMMA Taken ==
    ASSUME toCore \in Seq(ToCore), toCore # <<>>, toCore' = Tail(toCore)
    PROVE  /\ Head(toCore) = toCore[1] /\ Head(toCore) \in ToCore /\ 1 \in 1..Len(toCore)
           /\ toCore' \in Seq(ToCore)
           /\ \A i \in 1..Len(toCore') : /\ toCore'[i] = toCore[i + 1]
                                         /\ i + 1 \in 2..Len(toCore)
           /\ Head(toCore).kind # "subscribe" => (Subscribing' <=> Subscribing)
           /\ Head(toCore).prompt = NoPrompt => (Answering' <=> Answering)
           /\ Head(toCore).prompt # NoPrompt => Answering
  <1> DEFINE f == Head(toCore)
             n == Len(toCore)
             m == Len(toCore')
  <1>1. /\ f = toCore[1] /\ f \in ToCore /\ n \in Nat \ {0} /\ toCore' \in Seq(ToCore)
        /\ m = n - 1 /\ \A i \in 1..m : toCore'[i] = toCore[i + 1]
    BY Received
  <1> HIDE DEF f, n, m
  <1>2. 1 \in 1..n /\ \A i \in 1..m : i + 1 \in 2..n /\ i + 1 \in 1..n
    BY <1>1
  <1>3. \A j \in 1..n : j = 1 \/ (j - 1 \in 1..m /\ toCore'[j - 1] = toCore[j])
    <2> SUFFICES ASSUME NEW j \in 1..n, j # 1
                 PROVE  j - 1 \in 1..m /\ toCore'[j - 1] = toCore[j]
      OBVIOUS
    <2>1. j - 1 \in 1..m /\ (j - 1) + 1 = j
      BY <1>1
    <2>2. toCore'[j - 1] = toCore[(j - 1) + 1]
      BY <1>1, <2>1
    <2>3. QED  BY <2>1, <2>2
  <1>4. /\ Subscribing <=> \E j \in 1..n : toCore[j].kind = "subscribe"
        /\ Subscribing' <=> \E i \in 1..m : toCore'[i].kind = "subscribe"
        /\ Answering <=> \E j \in 1..n : toCore[j].prompt # NoPrompt
        /\ Answering' <=> \E i \in 1..m : toCore'[i].prompt # NoPrompt
    BY Zenon DEF Subscribing, Answering, n, m
  <1>5. (Subscribing' => Subscribing) /\ (Answering' => Answering)
    <2>1. ASSUME NEW i \in 1..m
          PROVE  i + 1 \in 1..n /\ toCore'[i] = toCore[i + 1]
      BY <1>1, <1>2
    <2>2. Subscribing' => Subscribing
      BY <1>4, <2>1
    <2>3. Answering' => Answering
      BY <1>4, <2>1
    <2>4. QED  BY <2>2, <2>3
  <1>6. f.kind # "subscribe" => (Subscribing => Subscribing')
    <2> SUFFICES ASSUME f.kind # "subscribe", NEW j \in 1..n, toCore[j].kind = "subscribe"
                 PROVE  Subscribing'
      BY <1>4
    <2>1. j - 1 \in 1..m /\ toCore'[j - 1] = toCore[j]
      BY <1>1, <1>3
    <2>2. QED  BY <1>4, <2>1
  <1>7. f.prompt = NoPrompt => (Answering => Answering')
    <2> SUFFICES ASSUME f.prompt = NoPrompt, NEW j \in 1..n, toCore[j].prompt # NoPrompt
                 PROVE  Answering'
      BY <1>4
    <2>1. j - 1 \in 1..m /\ toCore'[j - 1] = toCore[j]
      BY <1>1, <1>3
    <2>2. QED  BY <1>4, <2>1
  <1>8. f.prompt # NoPrompt => Answering
    BY <1>1, <1>2, <1>4
  <1>9. QED  BY <1>1, <1>2, <1>5, <1>6, <1>7, <1>8 DEF f, n, m

\* An answer of the open prompt closes it; the core drops any other, or the
\* prompts have met.
LEMMA AnswerScreen ==
    ASSUME ScreenInv, toCore # <<>>, toCore' = Tail(toCore),
           Head(toCore).kind \in {"accept", "decline"},
           Forward(Head(toCore).prompt, Head(toCore).kind = "accept"),
           UNCHANGED <<linkVars, clientVars, toClient>>
    PROVE  ScreenInv'
  <1> DEFINE p == Head(toCore).prompt
             yes == (Head(toCore).kind = "accept")
  <1>1. Types /\ Severed /\ Finished
    BY DEF ScreenInv
  <1>2. /\ p = toCore[1].prompt /\ 1 \in 1..Len(toCore) /\ p # NoPrompt
        /\ toCore' \in Seq(ToCore) /\ Answering /\ (Subscribing' <=> Subscribing)
        /\ \A i \in 1..Len(toCore') : /\ toCore'[i] = toCore[i + 1]
                                      /\ i + 1 \in 2..Len(toCore)
    <2>1. toCore \in Seq(ToCore)
      BY <1>1 DEF Types
    <2>2. p # NoPrompt /\ Head(toCore).kind # "subscribe"
      BY <2>1, Taken DEF ToCore
    <2>3. QED  BY <2>1, <2>2, Taken
  <1>3. UNCHANGED <<up, drops, loads, toClient, bubble, form, permQueue, scheduleQueue,
                    attached, abandoned>>
    BY DEF linkVars, clientVars
  <1>4. Forward(p, yes)
    OBVIOUS
  <1> HIDE DEF p, yes
  <1>5. Loading' <=> Loading
    BY <1>3 DEF Loading
  <1>6. toCore' = <<>> \/ up
    BY <1>1 DEF Severed
  <1>7. CASE settled \/ p \in Schedule \ open
    <2>1. UNCHANGED <<kept, settled, cancelled, mixed>>
      BY <1>4, <1>7 DEF Forward, coreVars
    <2>2. Types'
      BY <1>1, <1>2, <1>3, <2>1 DEF Types
    <2>3. Severed'
      BY <1>1, <1>3, <1>6 DEF Severed
    <2>4. Finished'
      BY <1>1, <1>3, <1>5, <2>1 DEF Finished
    <2>5. ~Alone'
      <3> SUFFICES ASSUME Alone PROVE FALSE
        BY <2>1 DEF Alone
      <3>1. open = {kept} \ {NoPrompt} /\ p \in {NoPrompt, kept}
        BY <1>2, AloneFacts DEF Single, Answered
      <3>2. QED  BY <1>2, <1>7, <3>1 DEF Alone
    <2>6. QED  BY <2>2, <2>3, <2>4, <2>5 DEF ScreenInv
  <1>8. CASE ~(settled \/ p \in Schedule \ open)
    <2>1. /\ kept' = NoPrompt /\ mixed' = (mixed \/ kept \notin {p, NoPrompt})
          /\ UNCHANGED <<settled, cancelled>>
      BY <1>4, <1>8 DEF Forward
    <2>2. open' = IF p \in open THEN open \ {p} ELSE open
      BY <1>4, <1>8 DEF Forward, Confirm, Respond
    <2>3. mixed' \in BOOLEAN
      BY <1>1, <2>1 DEF Types
    <2>4. Types'
      BY <1>1, <1>2, <1>3, <2>1, <2>3 DEF Types
    <2>5. Severed'
      BY <1>1, <1>3, <1>6 DEF Severed
    <2>6. Finished'
      BY <1>8, <2>1 DEF Finished
    <2>7. ASSUME Alone' PROVE Single' /\ Answered' /\ Presented'
      <3>1. Alone
        BY <2>1, <2>7 DEF Alone
      <3>2. Single /\ Answered /\ Presented
        BY <3>1, AloneFacts
      <3>3. /\ p = kept /\ toClient = <<>> /\ permQueue = <<>> /\ scheduleQueue = <<>>
            /\ form = NoPrompt
        BY <1>2, <3>2 DEF Answered
      <3>4. \A i \in 1..Len(toCore') : toCore'[i].prompt = NoPrompt
        <4> SUFFICES ASSUME NEW i \in 1..Len(toCore'), toCore'[i].prompt # NoPrompt
                     PROVE  FALSE
          OBVIOUS
        <4>1. /\ toCore[i + 1].prompt # NoPrompt /\ i + 1 \in 2..Len(toCore)
              /\ i + 1 \in 1..Len(toCore) /\ i + 1 # 1
          BY <1>2
        <4>2. QED  BY <1>2, <3>2, <4>1 DEF Answered
      <3>5. ~Answering'
        BY <3>4 DEF Answering
      <3>6. open' = {}
        BY <2>2, <3>2, <3>3 DEF Single
      <3>7. Single'
        BY <1>3, <2>1, <3>3, <3>6, EmptySeq DEF Single
      <3>8. Answered'
        BY <3>4, <3>5 DEF Answered
      <3>9. Presented'
        BY <1>2, <1>3, <1>5, <2>1, <3>2 DEF Presented
      <3>10. QED  BY <3>7, <3>8, <3>9
    <2>8. QED  BY <2>4, <2>5, <2>6, <2>7 DEF ScreenInv
  <1>9. QED  BY <1>7, <1>8

\* A cancel ends the matter.
LEMMA CancelScreen ==
    ASSUME ScreenInv, toCore # <<>>, toCore' = Tail(toCore),
           Head(toCore).kind = "cancel", Cancel, UNCHANGED <<linkVars, clientVars, mixed>>
    PROVE  ScreenInv'
  <1>1. Types /\ Severed /\ Finished
    BY DEF ScreenInv
  <1>2. toCore \in Seq(ToCore) /\ toCore' \in Seq(ToCore)
    BY <1>1, Taken DEF Types
  <1>3. UNCHANGED <<up, drops, loads, bubble, form, permQueue, scheduleQueue, attached,
                    abandoned, mixed>>
    BY DEF linkVars, clientVars
  <1>4. Loading' <=> Loading
    BY <1>3 DEF Loading
  <1>5. UNCHANGED <<kept, settled>>
    BY DEF Cancel, coreVars
  <1>6. ~Alone'
    BY DEF Cancel, coreVars, Alone
  <1>7. toClient' \in Seq(ToClient) /\ (~up \/ settled => toClient' = toClient)
    <2>1. CASE settled \/ cancelled
      BY <1>1, <2>1 DEF Cancel, Types
    <2>2. CASE ~(settled \/ cancelled)
      <3>1. toClient' = Sent(toClient, <<Frame("cancelled")>>)
        BY <2>2 DEF Cancel
      <3>2. toClient \in Seq(ToClient) /\ Frame("cancelled") \in ToClient
        BY <1>1, FrameTypes DEF Types
      <3>3. QED  BY <2>2, <3>1, <3>2, SentFrame
    <2>3. QED  BY <2>1, <2>2
  <1>8. Types'
    BY <1>1, <1>2, <1>3, <1>5, <1>7 DEF Types
  <1>9. Severed'
    BY <1>1, <1>3, <1>7 DEF Severed
  <1>10. Finished'
    BY <1>1, <1>3, <1>4, <1>5, <1>7 DEF Finished
  <1>11. QED  BY <1>6, <1>8, <1>9, <1>10 DEF ScreenInv

\* What a client that subscribes is sent: the bubble of a call that goes on, and
\* the prompt that is kept.
LEMMA Resent ==
    ASSUME Types, Finished, Severed, Resubscribe
    PROVE  /\ toClient' \in Seq(ToClient)
           /\ ~up \/ settled => toClient' = toClient
           /\ up /\ ~settled =>
                /\ toClient' # <<>>
                /\ \A i \in 1..Len(toClient') :
                     \/ i \in 1..Len(toClient) /\ toClient'[i] = toClient[i]
                     \/ toClient'[i].kind = "born" /\ toClient'[i].prompt = NoPrompt
                     \/ toClient'[i].kind = "prompt" /\ toClient'[i].prompt = kept
                /\ toClient'[Len(toClient')].prompt = kept
                /\ \E i \in 1..Len(toClient') : toClient'[i].kind = "born"
  <1> DEFINE b == Frame("born")
             f == PromptFrame(kept)
             n == Len(toClient)
  <1>1. toClient \in Seq(ToClient) /\ n \in Nat /\ b \in ToClient
        /\ b.kind = "born" /\ b.prompt = NoPrompt
    BY FrameTypes DEF Types
  <1>2. toClient' = Sent(toClient, (IF settled THEN <<>> ELSE <<b>>)
                                   \o (IF kept = NoPrompt THEN <<>> ELSE <<f>>))
    BY DEF Resubscribe
  <1>3. kept # NoPrompt => f \in ToClient /\ f.kind = "prompt" /\ f.prompt = kept
    BY FrameTypes DEF Types
  <1> HIDE DEF b, f
  <1>4. CASE settled
    <2>1. kept = NoPrompt /\ <<>> \o <<>> = <<>>
      BY <1>4 DEF Finished
    <2>2. toClient' = Sent(toClient, <<>>)
      BY <1>2, <1>4, <2>1
    <2>3. toClient \o <<>> = toClient
      BY <1>1, ConcatEmptySeq
    <2>4. QED  BY <1>1, <1>4, <2>2, <2>3 DEF Sent
  <1>5. CASE ~settled /\ ~up
    BY <1>1, <1>2, <1>5 DEF Sent
  <1>6. CASE ~settled /\ up /\ kept = NoPrompt
    <2>1. <<b>> \o <<>> = <<b>>
      BY <1>1, ConcatEmptySeq
    <2>2. toClient' = Sent(toClient, <<b>>)
      BY <1>2, <1>6, <2>1
    <2>3. /\ toClient' \in Seq(ToClient) /\ toClient' # <<>> /\ Len(toClient') = n + 1
          /\ \A i \in 1..n : toClient'[i] = toClient[i]
          /\ toClient'[n + 1] = b
      BY <1>1, <1>6, <2>2, SentFrame
    <2> HIDE DEF n
    <2>4. \A i \in 1..Len(toClient') : i \in 1..n \/ i = n + 1
      BY <1>1, <2>3
    <2>5. n + 1 \in 1..Len(toClient')
      BY <1>1, <2>3
    <2>6. QED  BY <1>1, <1>6, <2>3, <2>4, <2>5 DEF n
  <1>7. CASE ~settled /\ up /\ kept # NoPrompt
    <2> DEFINE c == <<b>> \o <<f>>
               r == toClient \o c
    <2>1. /\ <<b>> \in Seq(ToClient) /\ Len(<<b>>) = 1 /\ <<b>>[1] = b
          /\ <<f>> \in Seq(ToClient) /\ Len(<<f>>) = 1 /\ <<f>>[1] = f
      BY <1>1, <1>3, <1>7
    <2>2. /\ c \in Seq(ToClient) /\ Len(c) = 2
          /\ \A i \in 1..2 : c[i] = IF i <= 1 THEN <<b>>[i] ELSE <<f>>[i - 1]
      BY <2>1, ConcatProperties
    <2> HIDE DEF c, n
    <2>3. c[1] = b /\ c[2] = f
      BY <2>1, <2>2
    <2>4. /\ r \in Seq(ToClient) /\ Len(r) = Len(toClient) + Len(c)
          /\ \A i \in 1..Len(toClient) + Len(c) :
               r[i] = IF i <= Len(toClient) THEN toClient[i] ELSE c[i - Len(toClient)]
      BY <1>1, <2>2, ConcatProperties
    <2>5. toClient' = r
      BY <1>2, <1>7 DEF Sent, c
    <2> HIDE DEF r
    <2>6. /\ toClient' \in Seq(ToClient) /\ Len(toClient') = n + 2
          /\ \A i \in 1..n : toClient'[i] = toClient[i]
          /\ toClient'[n + 1] = b /\ toClient'[n + 2] = f
      BY <1>1, <2>2, <2>3, <2>4, <2>5 DEF n
    <2>7. \A i \in 1..Len(toClient') : i \in 1..n \/ i = n + 1 \/ i = n + 2
      BY <1>1, <2>6
    <2>8. n + 1 \in 1..Len(toClient') /\ toClient' # <<>>
      BY <1>1, <2>6, EmptySeq
    <2>9. QED  BY <1>1, <1>3, <1>7, <2>6, <2>7, <2>8 DEF n
  <1>8. QED  BY <1>4, <1>5, <1>6, <1>7

\* A client that subscribes is sent the open prompt again.
LEMMA ResubscribeScreen ==
    ASSUME ScreenInv, toCore # <<>>, toCore' = Tail(toCore),
           Head(toCore).kind = "subscribe", Resubscribe, mixed' = (mixed \/ Mixes),
           UNCHANGED <<linkVars, clientVars>>
    PROVE  ScreenInv'
  <1>1. Types /\ Severed /\ Finished
    BY DEF ScreenInv
  <1>2. /\ toCore' \in Seq(ToCore) /\ (Answering' <=> Answering)
        /\ toCore[1].prompt = NoPrompt /\ Len(toCore) \in Nat
        /\ \A i \in 1..Len(toCore') : /\ toCore'[i] = toCore[i + 1]
                                      /\ i + 1 \in 2..Len(toCore)
    <2>1. toCore \in Seq(ToCore)
      BY <1>1 DEF Types
    <2>2. Head(toCore).prompt = NoPrompt
      BY <2>1, Taken DEF ToCore
    <2>3. QED  BY <2>1, <2>2, Taken
  <1>3. UNCHANGED <<up, drops, loads, bubble, form, permQueue, scheduleQueue, attached,
                    abandoned>>
    BY DEF linkVars, clientVars
  <1>4. UNCHANGED <<kept, settled, cancelled, open>>
    BY DEF Resubscribe, coreVars
  <1>5. Loading' <=> Loading
    BY <1>3 DEF Loading
  <1>6. /\ toClient' \in Seq(ToClient) /\ (~up \/ settled => toClient' = toClient)
        /\ up /\ ~settled => toClient' # <<>>
    BY <1>1, Resent
  <1>7. up
    BY <1>1 DEF Severed
  <1>8. mixed' \in BOOLEAN
    BY <1>1 DEF Types
  <1>9. Types'
    BY <1>1, <1>2, <1>3, <1>4, <1>6, <1>8 DEF Types
  <1>10. Severed' /\ Finished'
    BY <1>1, <1>3, <1>4, <1>5, <1>6, <1>7 DEF Severed, Finished
  <1>11. ASSUME Alone' PROVE Single' /\ Answered' /\ Presented'
    <2>1. Alone /\ ~Mixes /\ ~settled
      BY <1>4, <1>11 DEF Alone
    <2>2. Single /\ Answered
      BY <2>1, AloneFacts
    <2>3. \A i \in 1..Len(toCore) : toCore[i].prompt = NoPrompt
      <3> SUFFICES ASSUME NEW i \in 1..Len(toCore), toCore[i].prompt # NoPrompt PROVE FALSE
        OBVIOUS
      <3>1. toCore[i].prompt = kept /\ kept # NoPrompt
        BY <2>2 DEF Answered
      <3>2. i \in 2..Len(toCore)
        BY <1>2
      <3>3. QED  BY <2>1, <3>1, <3>2 DEF Mixes
    <2>4. ~Answering' /\ \A i \in 1..Len(toCore') : toCore'[i].prompt = NoPrompt
      <3>1. \A i \in 2..Len(toCore) : i \in 1..Len(toCore)
        BY <1>2
      <3>2. QED  BY <1>2, <2>3, <3>1 DEF Answering
    <2>5. Answered'
      BY <2>4 DEF Answered
    <2>6. /\ \A i \in 1..Len(toClient') : /\ toClient'[i].kind \in {"prompt", "born"}
                                          /\ toClient'[i].prompt \in {NoPrompt, kept}
          /\ toClient'[Len(toClient')].prompt = kept
          /\ \E i \in 1..Len(toClient') : toClient'[i].kind = "born"
      BY <1>1, <1>7, <2>1, <2>2, Resent DEF Single
    <2>7. Single'
      BY <1>3, <1>4, <2>2, <2>6 DEF Single
    <2>8. Presented'
      BY <1>6, <1>7, <2>1, <2>6 DEF Presented
    <2>9. QED  BY <2>5, <2>7, <2>8
  <1>12. QED  BY <1>9, <1>10, <1>11 DEF ScreenInv

-----------------------------------------------------------------------------
(* The client's steps                                                      *)

\* A prompt joins its queue once.
LEMMA QueuedOnce ==
    ASSUME NEW S, NEW q \in Seq(S), NEW p \in S
    PROVE  /\ Queued(q, p) \in Seq(S)
           /\ q \in {<<>>, <<p>>} => Queued(q, p) = <<p>>
  <1>1. Queued(q, p) \in Seq(S)
    BY AppendProperties DEF Queued
  <1>2. ASSUME q = <<>> PROVE Queued(q, p) = <<p>>
    <2>1. p \notin ToSet(q)
      BY <1>2 DEF ToSet
    <2>2. QED  BY <1>2, <2>1 DEF Queued
  <1>3. ASSUME q = <<p>> PROVE Queued(q, p) = <<p>>
    <2>1. 1 \in DOMAIN q /\ q[1] = p
      BY <1>3
    <2>2. p \in ToSet(q)
      BY <2>1, Zenon DEF ToSet
    <2>3. QED  BY <1>3, <2>2 DEF Queued
  <1>4. QED  BY <1>1, <1>2, <1>3

\* A prompt that arrives is where it belongs, and is seen if there is a bubble.
LEMMA Arrives ==
    ASSUME Types, NEW p \in Prompts, ShowPrompt(p)
    PROVE  /\ permQueue' \in Seq(Permissions) /\ scheduleQueue' \in Seq(Schedule)
           /\ form' \in Ask \cup {NoPrompt} /\ form' \in {form, p}
           /\ bubble' \in {"absent", "running", "awaiting_user", "awaiting_permission", "done"}
           /\ bubble' = "absent" <=> bubble = "absent"
           /\ permQueue \in {<<>>, <<p>>} => permQueue' \in {permQueue, <<p>>}
           /\ scheduleQueue \in {<<>>, <<p>>} => scheduleQueue' \in {scheduleQueue, <<p>>}
           /\ permQueue \in {<<>>, <<p>>} /\ scheduleQueue \in {<<>>, <<p>>}
                /\ bubble # "absent" => Has(p)'
  <1>1. /\ permQueue \in Seq(Permissions) /\ scheduleQueue \in Seq(Schedule)
        /\ form \in Ask \cup {NoPrompt}
        /\ bubble \in {"absent", "running", "awaiting_user", "awaiting_permission", "done"}
    BY DEF Types
  <1>2. CASE p \in Ask /\ bubble' = OnBubble("awaiting_user")
             /\ form' = (IF bubble = "absent" THEN form ELSE p)
             /\ UNCHANGED <<permQueue, scheduleQueue>>
    BY <1>1, <1>2 DEF OnBubble, Has
  <1>3. CASE p \in Permissions /\ permQueue' = Queued(permQueue, p)
             /\ bubble' = OnBubble("awaiting_permission")
             /\ UNCHANGED <<form, scheduleQueue>>
    <2>1. /\ permQueue' \in Seq(Permissions)
          /\ permQueue \in {<<>>, <<p>>} => permQueue' = <<p>>
      BY <1>1, <1>3, QueuedOnce
    <2>2. QED  BY <1>1, <1>3, <2>1 DEF OnBubble, Has
  <1>4. CASE p \in Schedule /\ scheduleQueue' = Queued(scheduleQueue, p)
             /\ bubble' \in {bubble, OnBubble("awaiting_user")}
             /\ UNCHANGED <<form, permQueue>>
    <2>1. /\ scheduleQueue' \in Seq(Schedule)
          /\ scheduleQueue \in {<<>>, <<p>>} => scheduleQueue' = <<p>>
      BY <1>1, <1>4, QueuedOnce
    <2>2. QED  BY <1>1, <1>4, <2>1 DEF OnBubble, Has
  <1>5. QED  BY <1>2, <1>3, <1>4 DEF ShowPrompt

\* The last prompt to arrive is the open one; the end of a call clears the screen.
LEMMA OnFrameScreen ==
    ASSUME ScreenInv, OnFrame
    PROVE  ScreenInv'
  <1> DEFINE f == Head(toClient)
             n == Len(toClient)
  <1>1. Types /\ Severed /\ Finished
    BY DEF ScreenInv
  <1>2. /\ toClient # <<>> /\ toClient' = Tail(toClient)
        /\ UNCHANGED <<open, kept, settled, cancelled, up, drops, loads, toCore, abandoned,
                       mixed>>
    BY DEF OnFrame, coreVars, linkVars
  <1>3. \/ f.kind = "prompt" /\ ShowPrompt(f.prompt) /\ UNCHANGED attached
        \/ f.kind \in {"ended", "cancelled"} /\ ClearCall /\ UNCHANGED attached
        \/ /\ f.kind = "born" /\ attached' = (attached \/ ~abandoned)
           /\ bubble' = IF attached' THEN "running" ELSE bubble
           /\ UNCHANGED <<form, permQueue, scheduleQueue>>
    BY DEF OnFrame
  <1>4. /\ f = toClient[1] /\ f \in ToClient /\ n \in Nat \ {0} /\ toClient' \in Seq(ToClient)
        /\ Len(toClient') = n - 1
        /\ \A i \in 1..Len(toClient') : toClient'[i] = toClient[i + 1] /\ i + 1 \in 1..n
        /\ toClient' = <<>> <=> n = 1
        /\ toClient' # <<>> => toClient'[Len(toClient')] = toClient[n]
    <2>1. toClient \in Seq(ToClient)
      BY <1>1 DEF Types
    <2>2. QED  BY <1>2, <2>1, Received
  <1> HIDE DEF f, n
  <1>5. f.kind = "prompt" => f.prompt \in Prompts
    BY <1>4 DEF ToClient
  <1>6. (Loading' <=> Loading) /\ (Subscribing' <=> Subscribing)
        /\ (Answering' <=> Answering)
    BY <1>2 DEF Loading, Subscribing, Answering
  <1>7. up
    BY <1>1, <1>2 DEF Severed
  <1>8. Types'
    <2>1. CASE f.kind = "prompt" /\ ShowPrompt(f.prompt) /\ UNCHANGED attached
      BY <1>1, <1>2, <1>4, <1>5, <2>1, Arrives DEF Types
    <2>2. CASE ClearCall /\ UNCHANGED attached
      BY <1>1, <1>2, <1>4, <2>2, EmptySeq DEF Types, ClearCall, OnBubble
    <2>3. CASE /\ attached' = (attached \/ ~abandoned)
               /\ bubble' = IF attached' THEN "running" ELSE bubble
               /\ UNCHANGED <<form, permQueue, scheduleQueue>>
      BY <1>1, <1>2, <1>4, <2>3 DEF Types
    <2>4. QED  BY <1>3, <2>1, <2>2, <2>3
  <1>9. Severed'
    BY <1>2, <1>7 DEF Severed
  <1>10. Finished'
    <2> SUFFICES ASSUME settled PROVE Finished'
      BY <1>2 DEF Finished
    <2>1. kept = NoPrompt /\ toClient[n].kind = "ended"
      BY <1>1, <1>2 DEF Finished, n
    <2>2. CASE toClient' = <<>>
      <3>1. f.kind = "ended"
        BY <1>4, <2>1, <2>2
      <3>2. ClearCall
        BY <1>3, <3>1
      <3>3. QED  BY <1>2, <2>1, <2>2, <3>2 DEF ClearCall, OnBubble, Finished
    <2>3. CASE toClient' # <<>>
      BY <1>2, <1>4, <2>1, <2>3 DEF Finished
    <2>4. QED  BY <2>2, <2>3
  <1>11. ASSUME Alone' PROVE Single' /\ Answered' /\ Presented'
    <2>1. Alone
      BY <1>2, <1>11 DEF Alone
    <2>2. Single /\ Answered /\ Presented
      BY <2>1, AloneFacts
    <2>3. /\ \A i \in 1..n : /\ toClient[i].kind \in {"prompt", "born"}
                             /\ toClient[i].prompt \in {NoPrompt, kept}
          /\ toClient[n].prompt = kept
      BY <1>2, <2>2 DEF Single, n
    <2>4. ~Answering
      BY <1>2, <2>2 DEF Answered
    <2>5. f.kind \in {"prompt", "born"} /\ f.prompt \in {NoPrompt, kept}
      BY <1>4, <2>3
    <2>6. Answered'
      BY <1>2, <1>6, <2>2, <2>4 DEF Answered
    <2>7. /\ \A i \in 1..Len(toClient') : /\ toClient'[i].kind \in {"prompt", "born"}
                                          /\ toClient'[i].prompt \in {NoPrompt, kept}
          /\ toClient' # <<>> => toClient'[Len(toClient')].prompt = kept
      BY <1>4, <2>3
    <2>8. CASE f.kind = "prompt"
      <3>1. f.prompt \in Prompts /\ f.prompt = kept /\ kept # NoPrompt /\ ShowPrompt(kept)
        BY <1>3, <1>5, <2>5, <2>8, PromptsAssumption
      <3>2. permQueue \in {<<>>, <<kept>>} /\ scheduleQueue \in {<<>>, <<kept>>}
            /\ form \in {NoPrompt, kept}
        BY <2>2 DEF Single
      <3>3. /\ permQueue' \in {<<>>, <<kept>>} /\ scheduleQueue' \in {<<>>, <<kept>>}
            /\ form' \in {NoPrompt, kept}
            /\ bubble' = "absent" <=> bubble = "absent"
            /\ bubble # "absent" => Has(kept)'
        <4>1. /\ form' \in {form, kept} /\ (bubble' = "absent" <=> bubble = "absent")
              /\ permQueue \in {<<>>, <<kept>>} => permQueue' \in {permQueue, <<kept>>}
              /\ scheduleQueue \in {<<>>, <<kept>>}
                   => scheduleQueue' \in {scheduleQueue, <<kept>>}
          BY <1>1, <3>1, Arrives
        <4>2. ASSUME NEW p, p = kept, bubble # "absent" PROVE Has(p)'
          BY <1>1, <3>1, <3>2, <4>2, Arrives
        <4>3. bubble # "absent" => Has(kept)'
          BY <1>2, <3>2 , <4>2 DEF Has
        <4>4. QED  BY <3>2, <4>1, <4>3
      <3>4. Single'
        BY <1>2, <2>2, <2>7, <3>3 DEF Single
      <3>5. Presented'
        <4> SUFFICES ASSUME ~abandoned, up, ~Loading, ~Subscribing
                     PROVE  /\ bubble' # "absent"
                               \/ \E i \in 1..Len(toClient') : toClient'[i].kind = "born"
                            /\ toClient' = <<>> => Has(kept)'
          BY <1>2, <1>6 DEF Presented
        <4>1. CASE bubble # "absent"
          BY <3>3, <4>1
        <4>2. ASSUME NEW i \in 1..n, toClient[i].kind = "born"
              PROVE  i - 1 \in 1..Len(toClient') /\ toClient'[i - 1].kind = "born"
          <5>1. i # 1
            BY <1>4, <2>8, <4>2
          <5>2. i - 1 \in 1..Len(toClient') /\ (i - 1) + 1 = i
            BY <1>4, <5>1
          <5>3. toClient'[i - 1] = toClient[(i - 1) + 1]
            BY <1>4, <5>2
          <5>4. QED  BY <4>2, <5>2, <5>3
        <4>3. bubble # "absent" \/ \E i \in 1..n : toClient[i].kind = "born"
          BY <2>2 DEF Presented, n
        <4>4. CASE \E i \in 1..n : toClient[i].kind = "born"
          <5>1. PICK i \in 1..n : toClient[i].kind = "born"
            BY <4>4
          <5>2. i - 1 \in 1..Len(toClient') /\ toClient'[i - 1].kind = "born"
            BY <4>2, <5>1
          <5>3. toClient' # <<>>
            BY <1>4, <5>2
          <5>4. QED  BY <5>2, <5>3
        <4>5. QED  BY <4>1, <4>3, <4>4
      <3>6. QED  BY <2>6, <3>4, <3>5
    <2>9. CASE f.kind = "born"
      <3>1. /\ attached' = (attached \/ ~abandoned)
            /\ bubble' = IF attached' THEN "running" ELSE bubble
            /\ UNCHANGED <<form, permQueue, scheduleQueue>>
        BY <1>3, <2>9
      <3>2. Single'
        BY <1>2, <2>2, <2>7, <3>1 DEF Single
      <3>3. f.prompt = NoPrompt
        BY <1>4, <2>9 DEF ToClient
      <3>4. toClient' = <<>> => kept = NoPrompt
        BY <1>4, <2>3, <3>3
      <3>5. ~abandoned => bubble' = "running"
        BY <3>1
      <3>6. Presented'
        BY <1>2, <3>4, <3>5 DEF Presented
      <3>7. QED  BY <2>6, <3>2, <3>6
    <2>10. QED  BY <2>5, <2>8, <2>9
  <1>12. QED  BY <1>8, <1>9, <1>10, <1>11 DEF ScreenInv

\* SentFrame, of what the client sends.
LEMMA SentToCore ==
    ASSUME toCore \in Seq(ToCore), NEW f \in ToCore
    PROVE  /\ Sent(toCore, <<f>>) \in Seq(ToCore)
           /\ ~up => Sent(toCore, <<f>>) = toCore
           /\ up => /\ Len(Sent(toCore, <<f>>)) = Len(toCore) + 1
                    /\ Sent(toCore, <<f>>)[Len(toCore) + 1] = f
                    /\ \A i \in 1..Len(toCore) : Sent(toCore, <<f>>)[i] = toCore[i]
  <1>1. toCore \o <<f>> = Append(toCore, f)
    BY AppendIsConcat
  <1>2. /\ Append(toCore, f) \in Seq(ToCore)
        /\ Len(Append(toCore, f)) = Len(toCore) + 1
        /\ Append(toCore, f)[Len(toCore) + 1] = f
        /\ \A i \in 1..Len(toCore) : Append(toCore, f)[i] = toCore[i]
    BY AppendProperties
  <1>3. QED  BY <1>1, <1>2, Zenon DEF Sent

\* A message of the client is put behind the others, unless it is lost.
LEMMA Put ==
    ASSUME toCore \in Seq(ToCore), NEW f \in ToCore, toCore' = Sent(toCore, <<f>>)
    PROVE  /\ toCore' \in Seq(ToCore) /\ (~up => toCore' = toCore)
           /\ \A i \in 1..Len(toCore') : \/ i \in 1..Len(toCore) /\ toCore'[i] = toCore[i]
                                         \/ up /\ i = Len(toCore) + 1 /\ toCore'[i] = f
           /\ Subscribing => Subscribing'
           /\ up => /\ f.kind = "subscribe" => Subscribing'
                    /\ f.prompt # NoPrompt => Answering'
           /\ f.prompt = NoPrompt => (Answering' <=> Answering)
  <1> DEFINE n == Len(toCore)
             m == Len(toCore')
  <1>1. /\ n \in Nat /\ toCore' \in Seq(ToCore) /\ (~up => toCore' = toCore)
        /\ up => /\ m = n + 1 /\ toCore'[n + 1] = f
                 /\ \A i \in 1..n : toCore'[i] = toCore[i]
    <2>1. n \in Nat
      OBVIOUS
    <2>2. QED  BY <2>1, SentToCore, Zenon
  <1>2. /\ Subscribing <=> \E j \in 1..n : toCore[j].kind = "subscribe"
        /\ Subscribing' <=> \E i \in 1..m : toCore'[i].kind = "subscribe"
        /\ Answering <=> \E j \in 1..n : toCore[j].prompt # NoPrompt
        /\ Answering' <=> \E i \in 1..m : toCore'[i].prompt # NoPrompt
    BY Zenon DEF Subscribing, Answering
  <1>3. ~up => m = n
    BY <1>1
  <1> HIDE DEF n, m
  <1>4. \A i \in 1..m : \/ i \in 1..n /\ toCore'[i] = toCore[i]
                        \/ up /\ i = n + 1 /\ toCore'[i] = f
    BY <1>1, <1>3
  <1>5. \A j \in 1..n : j \in 1..m /\ toCore'[j] = toCore[j]
    BY <1>1, <1>3
  <1>6. Subscribing => Subscribing'
    BY <1>2, <1>5
  <1>7. Answering => Answering'
    BY <1>2, <1>5
  <1>8. up => n + 1 \in 1..m /\ toCore'[n + 1] = f
    BY <1>1
  <1>9. f.prompt = NoPrompt => (Answering' => Answering)
    BY <1>2, <1>4
  <1>10. up => /\ f.kind = "subscribe" => Subscribing'
               /\ f.prompt # NoPrompt => Answering'
    BY <1>2, <1>8
  <1>11. QED  BY <1>1, <1>4, <1>6, <1>7, <1>9, <1>10 DEF n, m

\* What the user decides is what the client has.
LEMMA ShownHas ==
    ASSUME Types, Shown # NoPrompt
    PROVE  /\ Shown \in Prompts
           /\ Shown \in Permissions => permQueue # <<>> /\ Shown = permQueue[1]
           /\ Shown \in Ask => form = Shown /\ bubble = "awaiting_user"
           /\ Shown \in Schedule => scheduleQueue # <<>> /\ Shown = scheduleQueue[1]
           /\ Shown \in Permissions \cup Ask \cup Schedule
  <1>1. /\ permQueue \in Seq(Permissions) /\ scheduleQueue \in Seq(Schedule)
        /\ form \in Ask \cup {NoPrompt}
    BY DEF Types
  <1>2. CASE permQueue # <<>>
    <2>1. Shown = permQueue[1] /\ Shown \in Permissions
      BY <1>1, <1>2, Received DEF Shown
    <2>2. QED  BY <1>2, <2>1, KindsAssumption DEF Prompts, Permissions
  <1>3. CASE permQueue = <<>> /\ bubble = "awaiting_user" /\ form # NoPrompt
    <2>1. Shown = form /\ form \in Ask
      BY <1>1, <1>3 DEF Shown
    <2>2. QED  BY <1>3, <2>1, KindsAssumption DEF Prompts, Permissions
  <1>4. CASE permQueue = <<>> /\ ~(bubble = "awaiting_user" /\ form # NoPrompt)
             /\ scheduleQueue # <<>>
    <2>1. Shown = scheduleQueue[1] /\ Shown \in Schedule
      BY <1>1, <1>4, Received DEF Shown
    <2>2. QED  BY <1>4, <2>1, KindsAssumption DEF Prompts, Permissions
  <1>5. QED  BY <1>2, <1>3, <1>4 DEF Shown

\* An answer leaves the client without a prompt.
LEMMA DecideScreen ==
    ASSUME ScreenInv, NEW yes \in BOOLEAN, Decide(yes)
    PROVE  ScreenInv'
  <1> DEFINE p == Shown
             f == AnswerFrame(p, yes)
  <1>1. Types /\ Severed /\ Finished
    BY DEF ScreenInv
  <1>2. /\ p # NoPrompt
        /\ permQueue' = IF p \in Permissions THEN Tail(permQueue) ELSE permQueue
        /\ scheduleQueue' = IF p \in Schedule THEN Tail(scheduleQueue) ELSE scheduleQueue
        /\ form' = IF p \in Ask THEN NoPrompt ELSE form
        /\ bubble' \in {bubble, "running"}
        /\ toCore' = Sent(toCore, <<f>>)
        /\ mixed' = (mixed \/ PromptFrame(p) \in ToSet(toClient))
    BY DEF Decide
  <1>3. UNCHANGED <<open, kept, settled, cancelled, up, drops, loads, toClient, attached,
                    abandoned>>
    BY DEF Decide, coreVars, linkVars
  <1>4. /\ p \in Prompts
        /\ p \in Permissions => permQueue # <<>> /\ p = permQueue[1]
        /\ p \in Ask => form = p /\ bubble = "awaiting_user"
        /\ p \in Schedule => scheduleQueue # <<>> /\ p = scheduleQueue[1]
        /\ p \in Permissions \cup Ask \cup Schedule
    BY <1>1, <1>2, ShownHas
  <1>5. f \in ToCore /\ f.prompt = p
    BY <1>4, FrameTypes
  <1> HIDE DEF p, f
  <1>6. /\ toCore' \in Seq(ToCore) /\ (~up => toCore' = toCore)
        /\ \A i \in 1..Len(toCore') : \/ i \in 1..Len(toCore) /\ toCore'[i] = toCore[i]
                                      \/ up /\ i = Len(toCore) + 1 /\ toCore'[i] = f
        /\ Subscribing => Subscribing'
        /\ up => Answering'
    <2>1. toCore \in Seq(ToCore)
      BY <1>1 DEF Types
    <2>2. QED  BY <1>2, <1>5, <2>1, Put
  <1>7. /\ permQueue' \in Seq(Permissions) /\ scheduleQueue' \in Seq(Schedule)
        /\ permQueue = <<>> => permQueue' = <<>>
        /\ scheduleQueue = <<>> => scheduleQueue' = <<>>
    <2>1. permQueue \in Seq(Permissions) /\ scheduleQueue \in Seq(Schedule)
      BY <1>1 DEF Types
    <2>2. QED  BY <1>2, <1>4, <2>1
  <1>8. mixed' \in BOOLEAN
    BY <1>1, <1>2 DEF Types
  <1>9. Loading' <=> Loading
    BY <1>3 DEF Loading
  <1>10. Types'
    BY <1>1, <1>2, <1>3, <1>6, <1>7, <1>8 DEF Types
  <1>11. Severed'
    BY <1>1, <1>3, <1>6, <1>7 DEF Severed
  <1>12. Finished'
    BY <1>1, <1>2, <1>3, <1>7, <1>9 DEF Finished
  <1>13. ASSUME Alone' PROVE Single' /\ Answered' /\ Presented'
    <2>1. Alone /\ PromptFrame(p) \notin ToSet(toClient)
      BY <1>2, <1>3, <1>13 DEF Alone
    <2>2. Single /\ Answered /\ Presented
      BY <2>1, AloneFacts
    <2>3. p = kept
      <3>1. <<kept>>[1] = kept
        OBVIOUS
      <3>2. QED  BY <1>2, <1>4, <2>2, <3>1 DEF Single
    <2>4. permQueue' = <<>> /\ scheduleQueue' = <<>> /\ form' = NoPrompt
      <3>1. /\ permQueue \in {<<>>, <<p>>} /\ scheduleQueue \in {<<>>, <<p>>}
            /\ form \in {NoPrompt, p}
        BY <2>2, <2>3 DEF Single
      <3>2. Tail(<<p>>) = <<>>
        OBVIOUS
      <3>3. /\ p \notin Permissions => permQueue = <<>>
            /\ p \notin Schedule => scheduleQueue = <<>>
            /\ p \notin Ask => form = NoPrompt
        BY <1>1, <1>4, <3>1, OnePlace
      <3>4. QED  BY <1>2, <1>4, <3>1, <3>2, <3>3
    <2>5. toClient = <<>>
      <3> SUFFICES ASSUME toClient # <<>> PROVE FALSE  OBVIOUS
      <3> DEFINE g == toClient[Len(toClient)]
      <3>1. toClient \in Seq(ToClient) /\ DOMAIN toClient = 1..Len(toClient)
            /\ Len(toClient) \in 1..Len(toClient)
        BY <1>1, EmptySeq DEF Types
      <3>2. g \in ToClient /\ g.prompt = p
        BY <2>2, <2>3, <3>1 DEF Single
      <3>3. g \in ToSet(toClient)
        BY <3>1, Zenon DEF ToSet
      <3> HIDE DEF g
      <3>4. g = PromptFrame(p)
        BY <1>2, <3>2 DEF ToClient, PromptFrame
      <3>5. QED  BY <2>1, <3>3, <3>4
    <2>6. \A i \in 1..Len(toCore) : toCore[i].prompt = NoPrompt
      <3>1. ~Answering
        BY <1>2, <1>4, <2>2 DEF Answered
      <3>2. QED  BY <3>1 DEF Answering
    <2>7. Single'
      BY <1>3, <2>2, <2>4, <2>5 DEF Single
    <2>8. Answered'
      <3>1. \A i \in 1..Len(toCore') : toCore'[i].prompt # NoPrompt => i = Len(toCore) + 1
        BY <1>6, <2>6
      <3>2. \A i \in 1..Len(toCore') : toCore'[i].prompt \in {NoPrompt, kept}
        BY <1>5, <1>6, <2>3, <2>6
      <3>3. QED  BY <1>3, <2>4, <2>5, <3>1, <3>2 DEF Answered
    <2>9. Presented'
      BY <1>2, <1>3, <1>6, <1>9, <2>2 DEF Presented
    <2>10. QED  BY <2>7, <2>8, <2>9
  <1>14. QED  BY <1>10, <1>11, <1>12, <1>13 DEF ScreenInv

\* The stop button adds no prompt and takes none.
LEMMA UserStopsScreen ==
    ASSUME ScreenInv, UserStops
    PROVE  ScreenInv'
  <1> DEFINE f == Frame("cancel")
  <1>1. Types /\ Severed /\ Finished
    BY DEF ScreenInv
  <1>2. /\ up /\ ~abandoned /\ toCore' = Append(toCore, f) /\ abandoned' = attached
        /\ UNCHANGED <<open, kept, settled, cancelled, up, drops, loads, toClient, bubble,
                       form, permQueue, scheduleQueue, attached, mixed>>
    BY DEF UserStops, coreVars, linkVars
  <1>3. toCore \in Seq(ToCore) /\ f \in ToCore /\ f.prompt = NoPrompt
    BY <1>1, FrameTypes DEF Types
  <1> HIDE DEF f
  <1>4. toCore' = Sent(toCore, <<f>>)
    BY <1>2, <1>3, AppendIsConcat DEF Sent
  <1>5. /\ toCore' \in Seq(ToCore) /\ (Subscribing => Subscribing')
        /\ (Answering' <=> Answering)
        /\ \A i \in 1..Len(toCore') : \/ i \in 1..Len(toCore) /\ toCore'[i] = toCore[i]
                                      \/ toCore'[i] = f
    BY <1>3, <1>4, Put
  <1>6. Loading' <=> Loading
    BY <1>2 DEF Loading
  <1>7. Types' /\ Severed' /\ Finished'
    BY <1>1, <1>2, <1>5, <1>6 DEF Types, Severed, Finished
  <1>8. ASSUME Alone' PROVE Single' /\ Answered' /\ Presented'
    <2>1. Single /\ Answered /\ Presented
      BY <1>2, <1>8 DEF ScreenInv, Alone
    <2>2. Single'
      BY <1>2, <2>1 DEF Single
    <2>3. Answered'
      <3>1. \A i \in 1..Len(toCore') : toCore'[i].prompt # NoPrompt
              => i \in 1..Len(toCore) /\ toCore'[i] = toCore[i]
        BY <1>3, <1>5
      <3>2. QED  BY <1>2, <1>5, <2>1, <3>1 DEF Answered
    <2>4. Presented'
      BY <1>2, <1>5, <1>6, <2>1 DEF Presented, Has
    <2>5. QED  BY <2>2, <2>3, <2>4
  <1>9. QED  BY <1>7, <1>8 DEF ScreenInv

\* A connection that drops takes along all that is on its way and in the queues.
LEMMA DisconnectScreen ==
    ASSUME ScreenInv, NEW restarts \in BOOLEAN, Disconnect(restarts)
    PROVE  ScreenInv'
  <1>1. Types /\ Finished
    BY DEF ScreenInv
  <1>2. /\ ~up' /\ drops < MaxDrops /\ drops' = drops + 1
        /\ toClient' = <<>> /\ toCore' = <<>> /\ permQueue' = <<>> /\ scheduleQueue' = <<>>
        /\ form' \in {form, NoPrompt} /\ bubble' \in {bubble, "absent"} /\ ~attached'
        /\ loads' \in {loads, [i \in DOMAIN loads |-> "no"]}
        /\ abandoned' = (abandoned /\ ~restarts) /\ up' \in BOOLEAN /\ attached' \in BOOLEAN
        /\ UNCHANGED <<open, kept, settled, cancelled, mixed>>
    BY DEF Disconnect, coreVars
  <1>3. loads' \in [1..MaxDrops -> {"no", "asked", "running", "ended"}]
    BY <1>1, <1>2 DEF Types
  <1>4. drops' \in 0..MaxDrops /\ drops' > 0
    BY <1>1, <1>2, PromptsAssumption DEF Types
  <1>5. abandoned' \in BOOLEAN
    BY <1>1, <1>2 DEF Types
  <1>6. Types'
    BY <1>1, <1>2, <1>3, <1>4, <1>5, EmptySeq DEF Types
  <1>7. Severed' /\ Finished'
    BY <1>1, <1>2, <1>4 DEF Severed, Finished
  <1>8. Len(toClient') = 0 /\ Len(toCore') = 0
    BY <1>2
  <1>9. ASSUME Alone' PROVE Single' /\ Answered' /\ Presented'
    <2>1. Single
      BY <1>2, <1>9 DEF ScreenInv, Alone
    <2>2. Single'
      BY <1>2, <1>8, <2>1 DEF Single
    <2>3. Answered' /\ Presented'
      BY <1>2, <1>8 DEF Answered, Answering, Presented
    <2>4. QED  BY <2>2, <2>3
  <1>10. QED  BY <1>6, <1>7, <1>9 DEF ScreenInv

\* A client that is back has a document to load before anything else counts.
LEMMA ReconnectScreen ==
    ASSUME ScreenInv, Reconnect
    PROVE  ScreenInv'
  <1>1. Types /\ Severed /\ Finished
    BY DEF ScreenInv
  <1>2. /\ ~up /\ up' /\ up' \in BOOLEAN
        /\ toCore' = (IF LooksActive THEN <<Frame("cancel")>> ELSE <<>>)
        /\ loads' = [loads EXCEPT ![drops] = "asked"]
        /\ UNCHANGED <<open, kept, settled, cancelled, drops, toClient, bubble, form,
                       permQueue, scheduleQueue, attached, abandoned, mixed>>
    BY DEF Reconnect, coreVars, clientVars
  <1>3. /\ drops \in 1..MaxDrops /\ toClient = <<>>
        /\ permQueue = <<>> /\ scheduleQueue = <<>>
    BY <1>1, <1>2, PromptsAssumption DEF Severed, Types
  <1>4. /\ loads' \in [1..MaxDrops -> {"no", "asked", "running", "ended"}]
        /\ Loading'
    BY <1>1, <1>2, <1>3 DEF Types, Loading
  <1>5. toCore' \in Seq(ToCore) /\ \A i \in 1..Len(toCore') : toCore'[i].prompt = NoPrompt
    <2> DEFINE f == Frame("cancel")
    <2>1. f \in ToCore /\ f.prompt = NoPrompt
      BY FrameTypes
    <2>2. toCore' = <<f>> \/ toCore' = <<>>
      BY <1>2
    <2> HIDE DEF f
    <2>3. CASE toCore' = <<f>>
      <3>1. Len(toCore') = 1 /\ toCore'[1] = f /\ toCore' \in Seq(ToCore)
        BY <2>1, <2>3
      <3>2. QED  BY <2>1, <3>1
    <2>4. CASE toCore' = <<>>
      BY <2>4
    <2>5. QED  BY <2>2, <2>3, <2>4
  <1>6. Types'
    BY <1>1, <1>2, <1>4, <1>5 DEF Types
  <1>7. Severed' /\ Finished'
    BY <1>1, <1>2, <1>3, <1>4 DEF Severed, Finished
  <1>8. ASSUME Alone' PROVE Single' /\ Answered' /\ Presented'
    <2>1. Single
      BY <1>2, <1>8 DEF ScreenInv, Alone
    <2>2. Single'
      BY <1>2, <2>1 DEF Single
    <2>3. Answered'
      BY <1>5 DEF Answered, Answering
    <2>4. Presented'
      BY <1>4 DEF Presented
    <2>5. QED  BY <2>2, <2>3, <2>4
  <1>9. QED  BY <1>6, <1>7, <1>8 DEF ScreenInv

\* A load that is answered is still to be applied.
LEMMA ServeGetScreen ==
    ASSUME ScreenInv, NEW i \in 1..MaxDrops, ServeGet(i)
    PROVE  ScreenInv'
  <1>1. Types /\ Severed /\ Finished
    BY DEF ScreenInv
  <1>2. /\ \E s \in {"ended", "running"} : loads' = [loads EXCEPT ![i] = s]
        /\ loads[i] = "asked"
        /\ UNCHANGED <<open, kept, settled, cancelled, up, drops, toClient, toCore, bubble,
                       form, permQueue, scheduleQueue, attached, abandoned, mixed>>
    BY DEF ServeGet, coreVars, clientVars
  <1>3. /\ loads' \in [1..MaxDrops -> {"no", "asked", "running", "ended"}]
        /\ Loading' /\ Loading
    BY <1>1, <1>2 DEF Types, Loading
  <1>4. Types' /\ Severed' /\ Finished'
    BY <1>1, <1>2, <1>3 DEF Types, Severed, Finished
  <1>5. ASSUME Alone' PROVE Single' /\ Answered' /\ Presented'
    <2>1. Single /\ Answered
      BY <1>2, <1>5 DEF ScreenInv, Alone
    <2>2. Answering' <=> Answering
      BY <1>2 DEF Answering
    <2>3. Single' /\ Answered'
      BY <1>2, <2>1, <2>2 DEF Single, Answered
    <2>4. Presented'
      BY <1>3 DEF Presented
    <2>5. QED  BY <2>3, <2>4
  <1>6. QED  BY <1>4, <1>5 DEF ScreenInv

\* A document that is applied is followed by a subscription.
LEMMA HydrateScreen ==
    ASSUME ScreenInv, NEW i \in 1..MaxDrops, Hydrate(i)
    PROVE  ScreenInv'
  <1> DEFINE f == Frame("subscribe")
  <1>1. Types /\ Severed /\ Finished
    BY DEF ScreenInv
  <1>2. /\ loads' = [loads EXCEPT ![i] = "no"] /\ bubble' \in {"done", "absent"}
        /\ form' = NoPrompt /\ ~attached' /\ attached' \in BOOLEAN
        /\ toCore' = Sent(toCore, <<f>>)
        /\ UNCHANGED <<open, kept, settled, cancelled, up, drops, toClient, permQueue,
                       scheduleQueue, abandoned, mixed>>
    BY DEF Hydrate, coreVars
  <1>3. f \in ToCore /\ f.prompt = NoPrompt /\ f.kind = "subscribe"
    BY FrameTypes
  <1> HIDE DEF f
  <1>4. /\ toCore' \in Seq(ToCore) /\ (~up => toCore' = toCore)
        /\ \A j \in 1..Len(toCore') : \/ j \in 1..Len(toCore) /\ toCore'[j] = toCore[j]
                                      \/ toCore'[j] = f
        /\ up => Subscribing'
        /\ Answering' <=> Answering
    <2>1. toCore \in Seq(ToCore)
      BY <1>1 DEF Types
    <2>2. QED  BY <1>2, <1>3, <2>1, Put
  <1>5. loads' \in [1..MaxDrops -> {"no", "asked", "running", "ended"}]
    BY <1>1, <1>2 DEF Types
  <1>6. Types'
    BY <1>1, <1>2, <1>4, <1>5 DEF Types
  <1>7. Severed' /\ Finished'
    BY <1>1, <1>2, <1>4 DEF Severed, Finished
  <1>8. ASSUME Alone' PROVE Single' /\ Answered' /\ Presented'
    <2>1. Single /\ Answered
      BY <1>2, <1>8 DEF ScreenInv, Alone
    <2>2. Single'
      BY <1>2, <2>1 DEF Single
    <2>3. Answered'
      <3>1. \A j \in 1..Len(toCore') : toCore'[j].prompt # NoPrompt
              => j \in 1..Len(toCore) /\ toCore'[j] = toCore[j]
        BY <1>3, <1>4
      <3>2. QED  BY <1>2, <1>4, <2>1, <3>1 DEF Answered
    <2>4. Presented'
      BY <1>2, <1>4 DEF Presented
    <2>5. QED  BY <2>2, <2>3, <2>4
  <1>9. QED  BY <1>6, <1>7, <1>8 DEF ScreenInv

-----------------------------------------------------------------------------

LEMMA ScreenInit == Init => ScreenInv
  <1> SUFFICES ASSUME Init PROVE ScreenInv
    OBVIOUS
  <1>1. /\ open = {} /\ cancelled = FALSE /\ settled = FALSE /\ kept = NoPrompt
        /\ up = TRUE /\ drops = 0 /\ toClient = <<>> /\ toCore = <<>>
        /\ loads = [i \in 1..MaxDrops |-> "no"]
        /\ bubble = "running" /\ form = NoPrompt /\ permQueue = <<>> /\ scheduleQueue = <<>>
        /\ attached = TRUE /\ abandoned = FALSE /\ mixed = FALSE
    BY DEF Init
  <1>2. Types
    <2>1. /\ toClient \in Seq(ToClient) /\ toCore \in Seq(ToCore)
          /\ permQueue \in Seq(Permissions) /\ scheduleQueue \in Seq(Schedule)
      BY <1>1, EmptySeq
    <2>2. drops \in 0..MaxDrops
      BY <1>1, PromptsAssumption
    <2>3. loads \in [1..MaxDrops -> {"no", "asked", "running", "ended"}]
      BY <1>1
    <2>4. QED  BY <1>1, <2>1, <2>2, <2>3 DEF Types
  <1>3. Severed /\ Finished
    BY <1>1 DEF Severed, Finished
  <1>4. Len(toClient) = 0 /\ Len(toCore) = 0
    BY <1>1
  <1>5. Single /\ Answered /\ Presented
    BY <1>1, <1>4 DEF Single, Answered, Answering, Presented
  <1>6. QED  BY <1>2, <1>3, <1>5 DEF ScreenInv

LEMMA ScreenNext == ScreenInv /\ BudgetInv /\ [Next]_vars => ScreenInv'
  <1> SUFFICES ASSUME ScreenInv, BudgetInv, [Next]_vars PROVE ScreenInv'
    OBVIOUS
  <1>1. cancelled \in BOOLEAN
    BY DEF BudgetInv
  <1>2. ASSUME NEW p \in Prompts, Opens(p) PROVE ScreenInv'
    BY <1>2, OpensScreen
  <1>3. ASSUME NEW p \in Prompts, AnsweredAtOnce(p) PROVE ScreenInv'
    BY <1>1, <1>3, SameScreen DEF AnsweredAtOnce, linkVars
  <1>4. CASE ToolEnds \/ WorkerExits \/ DrainTimer
    BY <1>4, SettleScreen DEF ToolEnds, WorkerExits, DrainTimer
  <1>5. CASE TimeComes
    BY <1>1, <1>5, SameScreen DEF TimeComes, linkVars
  <1>6. CASE Expires
    <2>1. CASE Settle
      BY <2>1, SettleScreen
    <2>2. CASE UNCHANGED <<open, cancelled, settled, kept, linkVars, toClient, toCore,
                           clientVars, mixed>>
      BY <1>1, <2>2, SameScreen DEF linkVars
    <2>3. QED  BY <1>6, <2>1, <2>2 DEF Expires
  <1>7. CASE CoreReceives
    <2> DEFINE f == Head(toCore)
    <2>1. toCore # <<>> /\ toCore' = Tail(toCore) /\ UNCHANGED <<linkVars, clientVars>>
      BY <1>7 DEF CoreReceives
    <2>2. \/ /\ f.kind \in {"accept", "decline"} /\ Forward(f.prompt, f.kind = "accept")
             /\ UNCHANGED toClient
          \/ f.kind = "cancel" /\ Cancel /\ UNCHANGED mixed
          \/ f.kind = "subscribe" /\ Resubscribe /\ mixed' = (mixed \/ Mixes)
      BY <1>7 DEF CoreReceives
    <2>3. QED  BY <2>1, <2>2, AnswerScreen, CancelScreen, ResubscribeScreen
  <1>8. CASE OnFrame
    BY <1>8, OnFrameScreen
  <1>9. ASSUME NEW yes \in BOOLEAN, Decide(yes) PROVE ScreenInv'
    BY <1>9, DecideScreen
  <1>10. CASE UserStops
    BY <1>10, UserStopsScreen
  <1>11. ASSUME NEW restarts \in BOOLEAN, Disconnect(restarts) PROVE ScreenInv'
    BY <1>11, DisconnectScreen
  <1>12. CASE Reconnect
    BY <1>12, ReconnectScreen
  <1>13. ASSUME NEW i \in 1..MaxDrops, ServeGet(i) \/ Hydrate(i) PROVE ScreenInv'
    BY <1>13, ServeGetScreen, HydrateScreen
  <1>14. CASE UNCHANGED vars
    BY <1>1, <1>14, SameScreen DEF vars, coreVars, linkVars
  <1>15. QED
    BY <1>2, <1>3, <1>4, <1>5, <1>6, <1>7, <1>8, <1>9, <1>10, <1>11, <1>12, <1>13,
       <1>14 DEF Next

\* Once everything is delivered, a call that ended leaves no prompt on screen,
\* and a prompt that never met another is on screen exactly as long as it is
\* open: for any number of prompts, reconnects, restarts of the client, reloads
\* under way at once, and lost answers (resubscribe, onToolCallPrompt).
THEOREM PromptsOnScreen == Spec => []ScreenMatchesCall
  <1>1. ASSUME PromptsInv, BudgetInv, ScreenInv PROVE ScreenMatchesCall
    <2>1. Types /\ Finished /\ Severed
      BY <1>1 DEF ScreenInv
    <2>2. TypeOK
      <3>1. open \subseteq Prompts
        BY <1>1 DEF PromptsInv
      <3>2. ToSet(permQueue) \subseteq Permissions /\ ToSet(scheduleQueue) \subseteq Schedule
        BY <2>1 DEF Types, ToSet
      <3>3. form \in Prompts \cup {NoPrompt}
        BY <2>1 DEF Types, Prompts
      <3>4. QED
        BY <1>1, <2>1, <3>1, <3>2, <3>3 DEF TypeOK, Types, PromptsInv, BudgetInv
    <2>3. ASSUME Delivered PROVE up /\ toClient = <<>> /\ toCore = <<>> /\ ~Loading
      BY <2>1, <2>3 DEF Delivered, Loading, Types
    <2>4. ASSUME Delivered, settled PROVE Shown = NoPrompt
      BY <2>1, <2>3, <2>4 DEF Finished, Shown
    <2>5. ASSUME Delivered, Alone, ~abandoned
          PROVE  open = IF Shown = NoPrompt THEN {} ELSE {Shown}
      <3>1. /\ Single /\ Presented
            /\ kept = NoPrompt => /\ open = {} /\ permQueue = <<>> /\ scheduleQueue = <<>>
                                  /\ form = NoPrompt
            /\ kept # NoPrompt => open = {kept}
        BY <1>1, <2>5, AloneFacts
      <3>2. CASE kept = NoPrompt
        BY <3>1, <3>2 DEF Shown
      <3>3. CASE kept # NoPrompt
        <4>1. Len(toCore) = 0
          BY <2>3, <2>5
        <4>2. Has(kept)
          BY <2>3, <2>5, <3>1, <3>3, <4>1 DEF Presented, Subscribing, Answering
        <4>3. Head(<<kept>>) = kept /\ <<kept>> # <<>>
          OBVIOUS
        <4>4. Shown = kept
          <5>1. /\ permQueue \in {<<>>, <<kept>>} /\ scheduleQueue \in {<<>>, <<kept>>}
                /\ form \in {NoPrompt, kept}
            BY <3>1 DEF Single
          <5>2. QED  BY <3>3, <4>2, <4>3, <5>1 DEF Shown, Has
        <4>5. QED  BY <3>1, <3>3, <4>4
      <3>4. QED  BY <3>2, <3>3
    <2>6. QED  BY <2>2, <2>4, <2>5 DEF ScreenMatchesCall, Alone
  <1>2. QED
    BY <1>1, PromptsInit, PromptsNext, BudgetInit, BudgetNext, ScreenInit, ScreenNext, PTL
       DEF Spec

=============================================================================
