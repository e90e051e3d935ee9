----------------------------- MODULE ChatProofs -----------------------------
(***************************************************************************)
(* Proofs about ChatTurn, for any number of messages, hops and deltas: the *)
(* messages of a turn are stored in one block in the order they appeared,  *)
(* nothing that was streamed is lost, and what a client that subscribes is *)
(* told is complete and can be placed.  And about ChatResume, which runs   *)
(* the same turn, for any number of connections: what the client shows of  *)
(* it when nothing is on its way.                                          *)
(***************************************************************************)
EXTENDS ChatResume, FiniteSetTheorems, SequenceTheorems, TLAPS

Msgs == Users \cup {OldReply} \cup New
Phases == {"idle", "setup", "deleted", "filters", "hop", "streaming", "append", "tools",
           "running", "leaving", "ended", "crashed"}
Roles == {"none", "tool_filter", "memory_filter", "memory_filter_error", "reasoning",
          "assistant", "tool", "display"}

\* The TurnWriter has an anchor.
Begun == phase \notin {"idle", "setup", "deleted"}
Anchors == IF Regenerate THEN {Anchor} ELSE {Anchor, LateUser}

\* Messages are numbered in the order of their creation, and finalized in it: the
\* first Announced have been, the first Stored are in the document, and the first
\* Claimed are finalized or handed to finalize().
Announced == IF cursor \in New THEN cursor ELSE 0
Stored == Announced + (IF persisted THEN 1 ELSE 0)
Claimed == Announced + Len(finalizing)

Streaming == phase = "streaming" /\ ~Busy
Appending == phase = "append" \/ (Busy /\ then = "append")
Calling == phase = "running" /\ ~Busy

Types ==
    /\ doc \in Seq(Msgs) /\ IsInjective(doc)
    /\ phase \in Phases /\ hop \in 0..MaxHops /\ created \in 0..MaxMessages
    /\ role \in [New -> Roles] /\ text \in [New -> 0..MaxText] /\ flushed \in [New -> 0..MaxText]
    /\ bornIds \subseteq 1..created /\ cancelled \subseteq 1..created
    /\ finalizing \in Seq(Nat) /\ displays \in Seq(Nat)
    /\ {reasoning, assistant, tool} \subseteq 0..created /\ calls \in 0..2
    /\ persisted \in BOOLEAN /\ aborted \in BOOLEAN

\* The documents a turn may find, and what is known of one without the turn.
Found == {<<Anchor>>, <<Anchor, LateUser>>, <<Anchor, OldReply, NewerUser>>,
          <<Anchor, OldReply, NewerUser, LateUser>>}
Blank(d) == /\ d \in Seq(Msgs) /\ IsInjective(d) /\ Anchor \in ToSet(d)
            /\ \A m \in New : m \notin ToSet(d)

\* What a turn starts on, and where it begins.
Opening ==
    /\ phase \in {"idle", "setup"} => doc \in Found
    /\ phase = "deleted" => Blank(doc) /\ NewerUser \in ToSet(doc)
    /\ ~Begun => created = 0 /\ finalizing = <<>> /\ cursor = None
    /\ Begun => /\ cursor \in New \cup Anchors /\ cursor \in ToSet(doc)
                /\ liveCursor \in ToSet(doc) \cup DOMAIN live

Stages ==
    /\ persisted => Busy
    /\ Busy => \/ phase = "filters" /\ then = "filters"
               \/ phase = "streaming" /\ then \in {"append", "leaving", "tools"}
               \/ phase = "running" /\ then = "tools"
    /\ phase \in {"streaming", "append", "tools", "running"} => hop < MaxHops
    /\ Calling => calls > 0

Numbered ==
    /\ \A m \in New : m \in ToSet(doc) <=> m <= Stored
    /\ \A i \in 1..Len(finalizing) : finalizing[i] = Announced + i
    /\ Claimed <= created

\* What is created and not yet handed to finalize(): the hop's bubble that still
\* grows, or the running call's message and its displays.
InHand ==
    /\ Streaming => \/ reasoning = 0 /\ assistant = 0 /\ created = Claimed
                    \/ reasoning = created /\ assistant = 0 /\ created = Claimed + 1
                    \/ assistant = created /\ created = Claimed + 1 /\ reasoning <= Claimed
    /\ Appending => /\ assistant = created /\ created = Claimed + 1 /\ reasoning <= Claimed
                    /\ text[assistant] = 0
    /\ Calling => /\ tool = Claimed + 1 /\ created = Claimed + 1 + Len(displays)
                  /\ \A i \in 1..Len(displays) : displays[i] = tool + i
    /\ ~Streaming /\ ~Appending /\ ~Calling /\ phase # "crashed" => created = Claimed

\* The catch-up buffer holds what was born and not yet announced as final.
Catching ==
    /\ DOMAIN live = {m \in bornIds : m > Announced}
    /\ \A m \in DOMAIN live : live[m] \in ToSet(doc) \cup {k \in DOMAIN live : k < m}

\* Only the bubble that grows has text that was not flushed.
Texts == \A m \in New :
    /\ flushed[m] <= text[m]
    /\ m > created => text[m] = 0
    /\ flushed[m] # text[m] => Streaming /\ m = created /\ m \in {reasoning, assistant}

\* The first message is behind the anchor and each other behind the one before.
Block ==
    /\ \A i, j \in 1..Len(doc) : doc[i] \in New /\ doc[j] \in New => doc[i] - i = doc[j] - j
    /\ \A i \in 1..Len(doc) : doc[i] \in New =>
          i > 1 /\ IF doc[i] = 1 THEN doc[i - 1] \in Anchors ELSE doc[i - 1] = doc[i] - 1

IInv == Types /\ Opening /\ Stages /\ Numbered /\ InHand /\ Catching /\ Texts /\ Block

-----------------------------------------------------------------------------
(* The document                                                            *)

\* Where a message is.
LEMMA PosOf ==
  ASSUME NEW m \in ToSet(doc), doc \in Seq(Msgs)
  PROVE  Pos(m) \in 1..Len(doc) /\ doc[Pos(m)] = m
  <1>1. PICK i \in DOMAIN doc : doc[i] = m
    BY Zenon DEF ToSet
  <1>2. DOMAIN doc = 1..Len(doc)
    OBVIOUS
  <1>3. \E j \in 1..Len(doc) : doc[j] = m
    BY <1>1, <1>2
  <1>4. QED  BY <1>3, Zenon DEF Pos

\* What InsertAt() returns.
LEMMA InsertAtElements ==
  ASSUME NEW S, NEW s \in Seq(S), NEW e \in S, NEW i \in 1..(Len(s) + 1)
  PROVE  /\ InsertAt(s, i, e) \in Seq(S) /\ Len(InsertAt(s, i, e)) = Len(s) + 1
         /\ InsertAt(s, i, e)[i] = e
         /\ \A j \in 1..(i - 1) : InsertAt(s, i, e)[j] = s[j]
         /\ \A j \in i..Len(s) : InsertAt(s, i, e)[j + 1] = s[j]
  <1> DEFINE a == SubSeq(s, 1, i - 1)
             b == SubSeq(s, i, Len(s))
             u == a \o <<e>>
             t == InsertAt(s, i, e)
  <1>1. t = u \o b
    BY DEF InsertAt
  <1>2. a \in Seq(S) /\ Len(a) = i - 1 /\ \A j \in 1..(i - 1) : a[j] = s[j]
    OBVIOUS
  <1>3. b \in Seq(S) /\ Len(b) = Len(s) - i + 1
        /\ \A j \in 1..(Len(s) - i + 1) : b[j] = s[i + j - 1]
    OBVIOUS
  <1>4. Len(s) \in Nat /\ i \in Nat /\ 1 <= i /\ i <= Len(s) + 1
    OBVIOUS
  <1> HIDE DEF a, b
  <1>5. u \in Seq(S) /\ Len(u) = i /\ u[i] = e /\ \A j \in 1..(i - 1) : u[j] = s[j]
    BY <1>2, <1>4
  <1> HIDE DEF u, t
  <1>6. /\ t \in Seq(S) /\ Len(t) = Len(u) + Len(b)
        /\ \A j \in 1..(Len(u) + Len(b)) : t[j] = IF j <= Len(u) THEN u[j] ELSE b[j - Len(u)]
    BY <1>1, <1>3, <1>5, ConcatProperties, Zenon
  <1>7. Len(t) = Len(s) + 1 /\ \A j \in 1..i : t[j] = u[j]
    BY <1>3, <1>4, <1>5, <1>6
  <1>8. ASSUME NEW j \in i..Len(s) PROVE t[j + 1] = s[j]
    <2>1. /\ j + 1 \in 1..(Len(u) + Len(b)) /\ ~(j + 1 <= Len(u))
          /\ (j + 1) - Len(u) = j - i + 1 /\ j - i + 1 \in 1..(Len(s) - i + 1)
          /\ i + (j - i + 1) - 1 = j
      BY <1>3, <1>4, <1>5
    <2>2. t[j + 1] = b[j - i + 1] /\ b[j - i + 1] = s[i + (j - i + 1) - 1]
      BY <1>3, <1>6, <2>1
    <2>3. QED  BY <2>1, <2>2
  <1>9. t[i] = e /\ \A j \in 1..(i - 1) : t[j] = s[j]
    BY <1>4, <1>5, <1>7
  <1>10. QED  BY <1>6, <1>7, <1>8, <1>9 DEF t

\* So a message inserted behind another is the only one that is new.
LEMMA InsertedAfter ==
  ASSUME doc \in Seq(Msgs), IsInjective(doc), NEW a \in ToSet(doc), NEW m \in Msgs,
         m \notin ToSet(doc)
  PROVE  LET t == InsertAfter(m, a)
             p == Pos(a)
         IN  /\ p \in 1..Len(doc) /\ doc[p] = a
             /\ t \in Seq(Msgs) /\ Len(t) = Len(doc) + 1 /\ t[p + 1] = m
             /\ \A j \in 1..p : t[j] = doc[j]
             /\ \A j \in (p + 1)..Len(doc) : t[j + 1] = doc[j]
             /\ ToSet(t) = ToSet(doc) \cup {m} /\ IsInjective(t)
  <1> DEFINE t == InsertAfter(m, a)
             p == Pos(a)
  <1>1. p \in 1..Len(doc) /\ doc[p] = a
    BY PosOf
  <1>2. t = InsertAt(doc, 1 + p, m)
    BY DEF InsertAfter
  <1> HIDE DEF t, p
  <1>3. /\ t \in Seq(Msgs) /\ Len(t) = Len(doc) + 1 /\ t[p + 1] = m
        /\ \A j \in 1..p : t[j] = doc[j]
        /\ \A j \in (p + 1)..Len(doc) : t[j + 1] = doc[j]
    <2> DEFINE i == 1 + p
    <2>1. i \in 1..(Len(doc) + 1) /\ i = p + 1 /\ i - 1 = p
      BY <1>1
    <2> HIDE DEF i
    <2>2. /\ t \in Seq(Msgs) /\ Len(t) = Len(doc) + 1 /\ t[i] = m
          /\ \A j \in 1..(i - 1) : t[j] = doc[j]
          /\ \A j \in i..Len(doc) : t[j + 1] = doc[j]
      <3>1. t = InsertAt(doc, i, m)
        BY <1>2 DEF i
      <3>2. QED  BY <2>1, <3>1, InsertAtElements
    <2>3. QED  BY <2>1, <2>2
  <1>4. DOMAIN t = 1..(Len(doc) + 1) /\ DOMAIN doc = 1..Len(doc) /\ Len(doc) \in Nat
    BY <1>3
  <1>5. \A j \in 1..(Len(doc) + 1) :
          \/ j \in 1..p /\ t[j] = doc[j]
          \/ j = p + 1 /\ t[j] = m
          \/ j - 1 \in (p + 1)..Len(doc) /\ t[j] = doc[j - 1]
    <2> TAKE j \in 1..(Len(doc) + 1)
    <2>1. CASE j <= p
      <3>1. j \in 1..p
        BY <1>1, <2>1
      <3>2. QED  BY <1>3, <3>1
    <2>2. CASE j = p + 1
      BY <1>3, <2>2
    <2>3. CASE j > p + 1
      <3>1. j - 1 \in (p + 1)..Len(doc) /\ (j - 1) + 1 = j
        BY <1>1, <1>4, <2>3
      <3>2. QED  BY <1>3, <3>1
    <2>4. QED  BY <1>1, <2>1, <2>2, <2>3
  <1>6. ToSet(t) = ToSet(doc) \cup {m}
    <2>1. ASSUME NEW x \in ToSet(t) PROVE x \in ToSet(doc) \cup {m}
      <3>1. PICK j \in DOMAIN t : t[j] = x
        BY <2>1, Zenon DEF ToSet
      <3>2. QED  BY <1>1, <1>4, <1>5, <3>1, SMTT(30) DEF ToSet
    <2>2. ASSUME NEW x \in ToSet(doc) PROVE x \in ToSet(t)
      <3>1. PICK j \in DOMAIN doc : doc[j] = x
        BY <2>2, Zenon DEF ToSet
      <3>2. \E i \in DOMAIN t : t[i] = x
        BY <1>1, <1>3, <1>4, <3>1, SMTT(30)
      <3>3. QED  BY <3>2, Zenon DEF ToSet
    <2>3. m \in ToSet(t)
      <3>1. p + 1 \in DOMAIN t
        BY <1>1, <1>4
      <3>2. QED  BY <1>3, <3>1, Zenon DEF ToSet
    <2>4. QED  BY <2>1, <2>2, <2>3
  <1>7. IsInjective(t)
    <2>1. \A j \in DOMAIN doc : doc[j] # m
      BY Zenon DEF ToSet
    <2>2. ASSUME NEW i \in DOMAIN t, NEW j \in DOMAIN t, t[i] = t[j] PROVE i = j
      <3>1. /\ \/ i \in 1..p /\ t[i] = doc[i]
               \/ i = p + 1 /\ t[i] = m
               \/ i - 1 \in (p + 1)..Len(doc) /\ t[i] = doc[i - 1]
            /\ \/ j \in 1..p /\ t[j] = doc[j]
               \/ j = p + 1 /\ t[j] = m
               \/ j - 1 \in (p + 1)..Len(doc) /\ t[j] = doc[j - 1]
        BY <1>4, <1>5
      <3>2. \A x, y \in 1..Len(doc) : doc[x] = doc[y] => x = y
        BY <1>4 DEF IsInjective
      <3>3. QED  BY <1>1, <1>4, <2>1, <2>2, <3>1, <3>2
    <2>3. QED  BY <2>2 DEF IsInjective
  <1>8. QED  BY <1>1, <1>3, <1>6, <1>7 DEF t, p

\* A user message that is posted is the last.
LEMMA PostedAtEnd ==
  ASSUME doc \in Seq(Msgs), IsInjective(doc), LateUser \notin ToSet(doc),
         doc' = Append(doc, LateUser)
  PROVE  /\ doc' \in Seq(Msgs) /\ IsInjective(doc') /\ ToSet(doc') = ToSet(doc) \cup {LateUser}
         /\ Len(doc') = Len(doc) + 1 /\ doc'[Len(doc) + 1] = LateUser
         /\ \A j \in 1..Len(doc) : doc'[j] = doc[j]
  <1>1. LateUser \in Msgs
    BY DEF Msgs, Users
  <1>2. /\ doc' \in Seq(Msgs) /\ Len(doc') = Len(doc) + 1
        /\ \A j \in 1..Len(doc) : doc'[j] = doc[j]
        /\ doc'[Len(doc) + 1] = LateUser
    BY <1>1
  <1>3. IsInjective(doc')
    BY <1>2 DEF IsInjective, ToSet
  <1>4. ToSet(doc') = ToSet(doc) \cup {LateUser}
    BY <1>2 DEF ToSet
  <1>5. QED  BY <1>2, <1>3, <1>4

-----------------------------------------------------------------------------
(* Steps that write no message                                             *)

\* The numbers of messages are natural numbers.
LEMMA Counts ==
  ASSUME Types
  PROVE  /\ Announced \in Nat /\ Stored \in Nat /\ Claimed \in Nat /\ created \in Nat
         /\ Len(finalizing) \in Nat /\ Len(displays) \in Nat
         /\ Announced <= Stored /\ (Busy <=> Len(finalizing) > 0)
         /\ Claimed = Announced + Len(finalizing)
         /\ Stored = Announced + (IF persisted THEN 1 ELSE 0)
  <1>1. Len(finalizing) \in Nat /\ Len(displays) \in Nat /\ created \in Nat /\ Announced \in Nat
    BY TurnAssumption DEF Types, Announced, New
  <1>2. Busy <=> Len(finalizing) > 0
    BY <1>1, EmptySeq DEF Busy, Types
  <1>3. QED  BY <1>1, <1>2 DEF Stored, Claimed, Types

\* The document stays.
LEMMA KeepDoc ==
  ASSUME UNCHANGED doc
  PROVE  (Block => Block') /\ Anchors' = Anchors /\ ToSet(doc)' = ToSet(doc)
  BY DEF Block, Anchors, Regenerate

\* The catch-up buffer stays.
LEMMA KeepCatching ==
  ASSUME Catching, UNCHANGED <<live, bornIds, cursor>>, ToSet(doc) \subseteq ToSet(doc)'
  PROVE  Catching'
  BY DEF Catching, Announced

\* The numbers stay.
LEMMA KeepNumbers ==
  ASSUME UNCHANGED <<cursor, persisted, finalizing>>
  PROVE  Announced' = Announced /\ Stored' = Stored /\ Claimed' = Claimed /\ Busy' = Busy
  BY DEF Announced, Stored, Claimed, Busy

\* A handler that only asks for an abort or a cancel, or replays, and a message
\* that is written again.
LEMMA HandlerInv ==
  ASSUME IInv, aborted' \in BOOLEAN, cancelled' \subseteq 1..created, role' \in [New -> Roles],
         UNCHANGED <<doc, phase, hop, created, textVars, writerVars, finalizing, persisted,
                     then, streamVars, toolVars>>
  PROVE  IInv'
  <1>1. UNCHANGED <<doc, phase, hop, created, text, flushed, cursor, liveCursor, bornIds,
                    live, finalizing, persisted, then, reasoning, assistant, calls, tool, displays>>
    BY DEF textVars, writerVars, streamVars, toolVars
  <1>2. /\ Announced' = Announced /\ Stored' = Stored /\ Claimed' = Claimed /\ Busy' = Busy
        /\ Anchors' = Anchors /\ ToSet(doc)' = ToSet(doc) /\ Block'
    BY <1>1, KeepNumbers, KeepDoc DEF IInv
  <1>3. Types'
    BY <1>1 DEF IInv, Types
  <1>4. Opening' /\ Stages' /\ Numbered' /\ InHand' /\ Texts'
    BY <1>1, <1>2 DEF IInv, Opening, Begun, Stages, Calling, Numbered, InHand, Streaming,
                      Appending, Texts
  <1>5. Catching'
    BY <1>1, <1>2, KeepCatching DEF IInv
  <1>6. QED  BY <1>2, <1>3, <1>4, <1>5 DEF IInv

LEMMA InterruptInv == ASSUME IInv, Interrupt PROVE IInv'
  <1>1. Calling => tool \in 1..created
    <2>1. Types /\ InHand
      BY DEF IInv
    <2>2. QED  BY <2>1, Counts DEF InHand
  <1>2. aborted' \in BOOLEAN /\ cancelled' \subseteq 1..created /\ role' \in [New -> Roles]
    BY <1>1 DEF Interrupt, IInv, Types, Calling
  <1>3. QED  BY <1>2, HandlerInv DEF Interrupt

LEMMA CancelInv == ASSUME IInv, NEW m \in New, Cancel(m) PROVE IInv'
  <1>1. Calling => tool \in 1..created
    <2>1. Types /\ InHand
      BY DEF IInv
    <2>2. QED  BY <2>1, Counts DEF InHand
  <1>2. aborted' \in BOOLEAN /\ cancelled' \subseteq 1..created /\ role' \in [New -> Roles]
    BY <1>1 DEF Cancel, IInv, Types, Calling
  <1>3. QED  BY <1>2, HandlerInv DEF Cancel

LEMMA ResubscribeInv == ASSUME IInv, Resubscribe PROVE IInv'
  BY HandlerInv DEF Resubscribe, coreVars, textVars, writerVars, streamVars, toolVars,
     IInv, Types

LEMMA MemoryFilterRetriesInv == ASSUME IInv, MemoryFilterRetries PROVE IInv'
  <1>1. aborted' \in BOOLEAN /\ cancelled' \subseteq 1..created /\ role' \in [New -> Roles]
    BY DEF MemoryFilterRetries, IInv, Types, Roles
  <1>2. QED  BY <1>1, HandlerInv DEF MemoryFilterRetries

\* Between two parts of the turn, when nothing is being finalized.
LEMMA BetweenInv ==
  ASSUME IInv, phase \in {"filters", "hop", "leaving", "tools"}, ~Busy,
         phase' \in {"hop", "streaming", "ended"}, hop' \in 0..MaxHops, calls' \in 0..2,
         {reasoning', assistant'} \subseteq 0..created,
         phase' = "streaming" => hop' < MaxHops /\ reasoning' = 0 /\ assistant' = 0,
         UNCHANGED <<doc, created, role, textVars, writerVars, finalizing, persisted, then,
                     toolVars, aborted, cancelled>>
  PROVE  IInv'
  <1>1. UNCHANGED <<doc, created, role, text, flushed, cursor, liveCursor, bornIds, live,
                    finalizing, persisted, then, tool, displays, aborted, cancelled>>
    BY DEF textVars, writerVars, toolVars
  <1>2. /\ Announced' = Announced /\ Stored' = Stored /\ Claimed' = Claimed /\ ~Busy'
        /\ Anchors' = Anchors /\ ToSet(doc)' = ToSet(doc) /\ Block'
    BY <1>1, KeepNumbers, KeepDoc DEF IInv
  <1>3. Begun /\ Begun' /\ created = Claimed /\ ~Streaming
    BY DEF IInv, Begun, InHand, Streaming, Appending, Calling
  <1>4. Types'
    BY <1>1 DEF IInv, Types, Phases
  <1>5. Opening'
    BY <1>1, <1>2, <1>3 DEF IInv, Opening, Begun
  <1>6. Stages' /\ Numbered'
    BY <1>1, <1>2 DEF IInv, Stages, Calling, Numbered
  <1>7. InHand'
    BY <1>1, <1>2, <1>3 DEF InHand, Streaming, Appending, Calling
  <1>8. Texts'
    BY <1>1, <1>3 DEF IInv, Texts
  <1>9. Catching'
    BY <1>1, <1>2, KeepCatching DEF IInv
  <1>10. QED  BY <1>2, <1>4, <1>5, <1>6, <1>7, <1>8, <1>9 DEF IInv

LEMMA BetweenSteps ==
  ASSUME IInv, EnterLoop \/ Hop \/ LeaveLoop \/ NextHop PROVE IInv'
  <1>1. Stages /\ hop \in 0..MaxHops /\ MaxHops \in Nat /\ 0 \in 0..created
        /\ {reasoning, assistant} \subseteq 0..created /\ calls \in 0..2
    BY TurnAssumption DEF IInv, Types
  <1>2. CASE EnterLoop
    BY <1>1, <1>2, BetweenInv DEF EnterLoop, streamVars
  <1>3. CASE Hop
    <2>1. ~Busy
      BY <1>1, <1>3 DEF Hop, Stages
    <2>2. QED  BY <1>1, <1>3, <2>1, BetweenInv DEF Hop
  <1>4. CASE LeaveLoop
    <2>1. ~Busy
      BY <1>1, <1>4 DEF LeaveLoop, Stages
    <2>2. QED  BY <1>1, <1>4, <2>1, BetweenInv DEF LeaveLoop, EndTurn, streamVars
  <1>5. CASE NextHop
    <2>1. hop + 1 \in 0..MaxHops
      BY <1>1, <1>5 DEF NextHop, Stages
    <2>2. QED  BY <1>1, <1>5, <2>1, BetweenInv DEF NextHop, streamVars
  <1>6. QED  BY <1>2, <1>3, <1>4, <1>5

\* A session write throws: the turn is over, what was handed over is dropped.
LEMMA PersistFailsInv == ASSUME IInv, PersistFails PROVE IInv'
  <1>1. /\ Busy /\ ~persisted /\ phase' = "crashed" /\ finalizing' = <<>>
        /\ UNCHANGED <<doc, hop, created, role, text, flushed, cursor, liveCursor, bornIds, live,
                       persisted, then, reasoning, assistant, calls, tool, displays, aborted,
                       cancelled>>
    BY DEF PersistFails, textVars, writerVars, streamVars, toolVars
  <1>2. /\ Announced' = Announced /\ Stored' = Stored /\ Claimed' = Announced /\ ~Busy'
        /\ Anchors' = Anchors /\ ToSet(doc)' = ToSet(doc) /\ Block' /\ Len(finalizing') = 0
    BY <1>1, KeepDoc, Counts DEF IInv, Announced, Stored, Claimed, Busy
  <1>3. Begun /\ Begun' /\ ~Streaming /\ Announced <= created
    BY <1>1, Counts DEF IInv, Begun, Stages, Streaming, Numbered
  <1>4. Types'
    BY <1>1 DEF IInv, Types, Phases
  <1>5. Opening'
    BY <1>1, <1>2, <1>3 DEF IInv, Opening, Begun
  <1>6. Stages' /\ Numbered'
    BY <1>1, <1>2, <1>3 DEF IInv, Stages, Calling, Numbered
  <1>7. InHand'
    BY <1>1, <1>2 DEF InHand, Streaming, Appending, Calling
  <1>8. Texts'
    BY <1>1, <1>3 DEF IInv, Texts
  <1>9. Catching'
    BY <1>1, <1>2, KeepCatching DEF IInv
  <1>10. QED  BY <1>2, <1>4, <1>5, <1>6, <1>7, <1>8, <1>9 DEF IInv

-----------------------------------------------------------------------------
(* How a turn begins                                                       *)

\* None of the documents found holds a message of the turn.
LEMMA FoundDocs ==
  ASSUME NEW t \in Found
  PROVE  Blank(t) /\ (NewerUser \notin ToSet(t) => ToSet(t) \subseteq {Anchor, LateUser})
  <1>1. /\ {Anchor, OldReply, NewerUser, LateUser} \subseteq Msgs
        /\ {Anchor, OldReply, NewerUser, LateUser} \cap New = {}
    BY MessageAssumption DEF Msgs, Users
  <1>2. CASE t = <<Anchor>>
    <2>1. ToSet(t) = {Anchor}
      BY <1>2 DEF ToSet
    <2>2. t \in Seq(Msgs) /\ IsInjective(t)
      BY <1>1, <1>2 DEF IsInjective
    <2>3. QED  BY <1>1, <2>1, <2>2, MessageAssumption DEF Blank
  <1>3. CASE t = <<Anchor, LateUser>>
    <2>1. ToSet(t) = {Anchor, LateUser}
      BY <1>3 DEF ToSet
    <2>2. t \in Seq(Msgs) /\ IsInjective(t)
      BY <1>1, <1>3, MessageAssumption DEF IsInjective
    <2>3. QED  BY <1>1, <2>1, <2>2, MessageAssumption DEF Blank
  <1>4. CASE t = <<Anchor, OldReply, NewerUser>>
    <2>1. ToSet(t) = {Anchor, OldReply, NewerUser}
      BY <1>4 DEF ToSet
    <2>2. t \in Seq(Msgs) /\ IsInjective(t)
      BY <1>1, <1>4, MessageAssumption DEF IsInjective
    <2>3. QED  BY <1>1, <2>1, <2>2, MessageAssumption DEF Blank
  <1>5. CASE t = <<Anchor, OldReply, NewerUser, LateUser>>
    <2>1. ToSet(t) = {Anchor, OldReply, NewerUser, LateUser}
      BY <1>5 DEF ToSet
    <2>2. t \in Seq(Msgs) /\ IsInjective(t)
      BY <1>1, <1>5, MessageAssumption DEF IsInjective
    <2>3. QED  BY <1>1, <2>1, <2>2, MessageAssumption DEF Blank
  <1>6. QED  BY <1>2, <1>3, <1>4, <1>5 DEF Found, Blank

LEMMA InitInv == ASSUME Init PROVE IInv
  <1>1. doc \in Found
    <2>1. PICK r \in Regenerates :
            doc = IF r THEN <<Anchor, OldReply, NewerUser>> ELSE <<Anchor>>
      BY DEF Init
    <2>2. r = TRUE \/ r = FALSE
      BY TurnAssumption
    <2>3. QED  BY <2>1, <2>2 DEF Found
  <1>2. /\ phase = "idle" /\ hop = 0 /\ created = 0 /\ role = [m \in New |-> "none"]
        /\ text = [m \in New |-> 0] /\ flushed = [m \in New |-> 0]
        /\ DOMAIN live = {} /\ cursor = None /\ bornIds = {}
        /\ finalizing = <<>> /\ persisted = FALSE /\ displays = <<>>
        /\ reasoning = 0 /\ assistant = 0 /\ calls = 0 /\ tool = 0 /\ cancelled = {}
        /\ aborted = FALSE
    BY DEF Init
  <1>3. doc \in Seq(Msgs) /\ IsInjective(doc) /\ \A m \in New : m \notin ToSet(doc)
    BY <1>1, FoundDocs DEF Blank
  <1>4. ~Busy /\ Len(finalizing) = 0 /\ Announced = 0 /\ Stored = 0 /\ Claimed = 0
    <2>1. None \notin New
      BY MessageAssumption
    <2>2. QED  BY <1>2, <2>1 DEF Busy, Announced, Stored, Claimed
  <1>5. /\ 0 \in 0..MaxMessages /\ 0 \in 0..MaxHops /\ 0 \in 0..MaxText /\ 0 \in 0..created
        /\ finalizing \in Seq(Nat) /\ displays \in Seq(Nat)
    BY <1>2, TurnAssumption
  <1>6. Types
    <2>1. /\ role \in [New -> Roles] /\ text \in [New -> 0..MaxText]
          /\ flushed \in [New -> 0..MaxText]
      BY <1>2, <1>5 DEF Roles
    <2>2. {reasoning, assistant, tool} \subseteq 0..created /\ calls \in 0..2
      BY <1>2, <1>5
    <2>3. QED  BY <1>2, <1>3, <1>5, <2>1, <2>2 DEF Types, Phases
  <1>7. Opening /\ Stages
    BY <1>1, <1>2, <1>4 DEF Opening, Stages, Begun, Calling
  <1>8. Numbered
    BY <1>2, <1>3, <1>4 DEF Numbered, New
  <1>9. InHand
    BY <1>2, <1>4 DEF InHand, Streaming, Appending, Calling
  <1>10. Catching /\ Texts
    BY <1>2, <1>4 DEF Catching, Texts, New
  <1>11. \A i \in 1..Len(doc) : doc[i] \notin New
    BY <1>3 DEF ToSet
  <1>12. QED  BY <1>6, <1>7, <1>8, <1>9, <1>10, <1>11 DEF IInv, Block

\* Until the turn begins only the document changes, ...
LEMMA UnbegunInv ==
  ASSUME IInv, ~Begun, \/ phase' \in {"idle", "setup"} /\ doc' \in Found
                       \/ phase' = "deleted" /\ Blank(doc') /\ NewerUser \in ToSet(doc'),
         UNCHANGED <<hop, created, role, textVars, writerVars, finalizing, persisted, then,
                     streamVars, toolVars, aborted, cancelled>>
  PROVE  IInv'
  <1>1. UNCHANGED <<hop, created, role, text, flushed, cursor, liveCursor, bornIds, live,
                    finalizing, persisted, then, reasoning, assistant, calls, tool, displays,
                    aborted, cancelled>>
    BY DEF textVars, writerVars, streamVars, toolVars
  <1>2. doc' \in Seq(Msgs) /\ IsInjective(doc') /\ \A m \in New : m \notin ToSet(doc')
    BY FoundDocs DEF Blank
  <1>3. /\ created = 0 /\ finalizing = <<>> /\ cursor = None /\ Len(finalizing) = 0
        /\ bornIds = {} /\ DOMAIN live = {} /\ ~Busy /\ persisted = FALSE
    <2>1. created = 0 /\ finalizing = <<>> /\ cursor = None /\ Len(finalizing) = 0 /\ ~Busy
      BY DEF IInv, Opening, Busy
    <2>2. persisted = FALSE
      BY <2>1 DEF IInv, Stages, Types
    <2>3. bornIds = {}
      BY <2>1 DEF IInv, Types
    <2>4. DOMAIN live = {}
      BY <2>3 DEF IInv, Catching
    <2>5. QED  BY <2>1, <2>2, <2>3, <2>4
  <1>4. /\ ~Busy' /\ Announced' = Announced /\ Stored' = Stored /\ Claimed' = Claimed
        /\ Announced = 0 /\ Stored = 0 /\ Claimed = 0
    <2>1. None \notin New
      BY MessageAssumption
    <2>2. QED  BY <1>1, <1>3, <2>1, KeepNumbers DEF Announced, Stored, Claimed
  <1>5. Types'
    BY <1>1, <1>2 DEF IInv, Types, Phases
  <1>6. Opening' /\ Stages'
    BY <1>1, <1>3, <1>4 DEF Opening, Stages, Begun, Calling
  <1>7. Numbered'
    BY <1>1, <1>2, <1>3, <1>4 DEF Numbered, New
  <1>8. InHand'
    BY <1>1, <1>3, <1>4 DEF InHand, Streaming, Appending, Calling
  <1>9. Catching'
    BY <1>1, <1>3 DEF Catching
  <1>10. Texts'
    <2>1. ~Streaming
      BY DEF Streaming, Begun
    <2>2. QED  BY <1>1, <2>1 DEF IInv, Texts
  <1>11. \A i \in 1..Len(doc') : doc'[i] \notin New
    BY <1>2 DEF ToSet
  <1>12. Block'
    BY <1>11 DEF Block
  <1>13. QED  BY <1>5, <1>6, <1>7, <1>8, <1>9, <1>10, <1>12 DEF IInv

\* ... when deleteTurn() takes the old reply out,
LEMMA ReplyTaken ==
  ASSUME IInv, DeleteTurn
  PROVE  /\ doc \in {<<Anchor, OldReply, NewerUser>>, <<Anchor, OldReply, NewerUser, LateUser>>}
         /\ doc' \in Seq(Msgs) /\ Len(doc') = Len(doc) - 1 /\ Len(doc') \in 2..3
         /\ doc'[1] = Anchor /\ doc'[2] = NewerUser /\ (Len(doc') = 3 => doc'[3] = LateUser)
  <1> DEFINE a == Pos(Anchor)
             end == EndOfTurn(a)
  <1>1. doc \in {<<Anchor, OldReply, NewerUser>>, <<Anchor, OldReply, NewerUser, LateUser>>}
    <2>1. doc \in Found /\ NewerUser \in ToSet(doc)
      BY DEF DeleteTurn, Regenerate, IInv, Opening
    <2>2. NewerUser \notin ToSet(<<Anchor>>) /\ NewerUser \notin ToSet(<<Anchor, LateUser>>)
      BY MessageAssumption DEF ToSet
    <2>3. QED  BY <2>1, <2>2 DEF Found
  <1>2. /\ Len(doc) \in 3..4 /\ doc[1] = Anchor /\ doc[2] = OldReply /\ doc[3] = NewerUser
        /\ Len(doc) = 4 => doc[4] = LateUser
    BY <1>1
  <1>3. a = 1
    <2>1. Anchor \in ToSet(doc) /\ doc \in Seq(Msgs)
      BY <1>2 DEF ToSet, IInv, Types
    <2>2. a \in 1..Len(doc) /\ doc[a] = Anchor
      BY <2>1, PosOf
    <2>3. QED  BY <1>2, <2>2, MessageAssumption
  <1>4. end = 3
    <2> DEFINE Ends(e) == /\ e <= Len(doc) => doc[e] \in Users
                          /\ \A j \in (a + 1)..(e - 1) : doc[j] \notin Users
    <2>1. 3 \in (a + 1)..(Len(doc) + 1) /\ Ends(3)
      BY <1>2, <1>3, MessageAssumption DEF Users
    <2>2. ASSUME NEW e \in (a + 1)..(Len(doc) + 1), Ends(e) PROVE e = 3
      <3>1. e \in 2..5 /\ e # 2
        BY <1>2, <1>3, <2>2, MessageAssumption DEF Users
      <3>2. ~(e > 3)
        <4>1. SUFFICES ASSUME e > 3 PROVE FALSE
          OBVIOUS
        <4>2. 3 \in (a + 1)..(e - 1) /\ doc[3] \in Users
          BY <1>2, <1>3, <3>1, <4>1 DEF Users
        <4>3. QED  BY <2>2, <4>2
      <3>3. QED  BY <3>1, <3>2
    <2>3. end = CHOOSE e \in (a + 1)..(Len(doc) + 1) : Ends(e)
      BY DEF EndOfTurn
    <2> HIDE DEF Ends, end
    <2>4. QED  BY <2>1, <2>2, <2>3
  <1>5. doc' = SubSeq(doc, 1, 1) \o SubSeq(doc, 3, Len(doc))
    BY <1>3, <1>4 DEF DeleteTurn
  <1>6. /\ doc' \in Seq(Msgs) /\ Len(doc') = Len(doc) - 1 /\ Len(doc') \in 2..3
        /\ doc'[1] = Anchor /\ doc'[2] = NewerUser /\ (Len(doc') = 3 => doc'[3] = LateUser)
    <2> DEFINE s == SubSeq(doc, 1, 1)
               u == SubSeq(doc, 3, Len(doc))
    <2>1. doc \in Seq(Msgs) /\ IsInjective(doc) /\ \A m \in New : m \notin ToSet(doc)
      BY FoundDocs DEF IInv, Opening, DeleteTurn, Blank
    <2>2. s \in Seq(Msgs) /\ Len(s) = 1 /\ s[1] = doc[1]
      BY <1>2, <2>1
    <2>3. u \in Seq(Msgs) /\ Len(u) = Len(doc) - 2 /\ \A i \in 1..(Len(doc) - 2) : u[i] = doc[i + 2]
      BY <1>2, <2>1
    <2> HIDE DEF s, u
    <2>4. /\ doc' \in Seq(Msgs) /\ Len(doc') = Len(doc) - 1
          /\ \A i \in 1..(Len(s) + Len(u)) : doc'[i] = IF i <= Len(s) THEN s[i] ELSE u[i - Len(s)]
      <3>1. doc' = s \o u
        BY <1>5 DEF s, u
      <3>2. doc' \in Seq(Msgs) /\ Len(doc') = Len(s) + Len(u)
            /\ \A i \in 1..(Len(s) + Len(u)) : doc'[i] = IF i <= Len(s) THEN s[i] ELSE u[i - Len(s)]
        BY <2>2, <2>3, <3>1, ConcatProperties, Zenon
      <3>3. QED  BY <1>2, <2>2, <2>3, <3>2
    <2>5. doc'[1] = Anchor /\ doc'[2] = NewerUser /\ (Len(doc') = 3 => doc'[3] = LateUser)
      BY <1>2, <2>2, <2>3, <2>4
    <2>6. Len(doc') \in 2..3
      BY <1>2, <2>4
    <2>7. QED  BY <2>4, <2>5, <2>6
  <1>7. QED  BY <1>1, <1>6

\* and it alone.
LEMMA DeleteTurnInv == ASSUME IInv, DeleteTurn PROVE IInv'
  <1>1. /\ doc' \in Seq(Msgs) /\ Len(doc') \in 2..3
        /\ doc'[1] = Anchor /\ doc'[2] = NewerUser /\ (Len(doc') = 3 => doc'[3] = LateUser)
    BY ReplyTaken
  <1>2. DOMAIN doc' = 1..Len(doc')
    BY <1>1
  <1>3. IsInjective(doc')
    BY <1>1, <1>2, MessageAssumption DEF IsInjective
  <1>4. Anchor \in ToSet(doc') /\ NewerUser \in ToSet(doc')
        /\ ToSet(doc') \subseteq {Anchor, NewerUser, LateUser}
    BY <1>1, <1>2 DEF ToSet
  <1>5. Blank(doc') /\ NewerUser \in ToSet(doc')
    BY <1>1, <1>3, <1>4, MessageAssumption DEF Blank
  <1>6. QED  BY <1>5, UnbegunInv DEF DeleteTurn, Begun

LEMMA StartInv == ASSUME IInv, Start PROVE IInv'
  <1>1. phase' = "setup" /\ doc' \in Found /\ ~Begun
    BY DEF Start, IInv, Opening, Begun
  <1>2. QED  BY <1>1, UnbegunInv DEF Start

\* The writer's cursors start at the user message that the turn answers.
LEMMA BeginTurnInv == ASSUME IInv, BeginTurn PROVE IInv'
  <1>1. /\ phase' = "filters" /\ liveCursor' = cursor' /\ ~Begun
        /\ cursor' = IF Regenerate THEN Anchor ELSE LastUser
        /\ UNCHANGED <<doc, hop, created, role, text, flushed, bornIds, live, finalizing,
                       persisted, then, reasoning, assistant, calls, tool, displays, aborted,
                       cancelled>>
    BY DEF BeginTurn, Begun, textVars, streamVars, toolVars
  <1>2. /\ created = 0 /\ finalizing = <<>> /\ cursor = None /\ Len(finalizing) = 0 /\ ~Busy
        /\ persisted = FALSE
    BY <1>1 DEF IInv, Opening, Busy, Stages, Types
  <1>3. cursor' \in Anchors /\ cursor' \in ToSet(doc)
    <2>1. CASE Regenerate
      <3>1. phase = "setup" => FALSE
        BY <2>1 DEF BeginTurn
      <3>2. Blank(doc)
        BY <3>1 DEF BeginTurn, IInv, Opening
      <3>3. QED  BY <1>1, <2>1, <3>2 DEF Blank, Anchors
    <2>2. CASE ~Regenerate
      <3>1. doc \in Found /\ NewerUser \notin ToSet(doc)
        BY <2>2 DEF BeginTurn, IInv, Opening, Regenerate
      <3>2. ToSet(doc) \subseteq {Anchor, LateUser} /\ Anchor \in ToSet(doc) /\ doc \in Seq(Msgs)
        BY <3>1, FoundDocs DEF Blank
      <3>3. \A i \in 1..Len(doc) : doc[i] \in ToSet(doc)
        BY <3>2 DEF ToSet
      <3>4. Len(doc) \in Nat /\ Len(doc) > 0
        <4>1. DOMAIN doc # {}
          BY <3>2 DEF ToSet
        <4>2. QED  BY <3>2, <4>1
      <3> DEFINE IsLast(i) == doc[i] \in Users /\ \A j \in (i + 1)..Len(doc) : doc[j] \notin Users
      <3>5. Len(doc) \in 1..Len(doc) /\ IsLast(Len(doc))
        BY <3>2, <3>3, <3>4 DEF Users
      <3>6. LastUser = doc[CHOOSE i \in 1..Len(doc) : IsLast(i)]
        BY DEF LastUser
      <3> HIDE DEF IsLast
      <3>7. PICK i \in 1..Len(doc) : LastUser = doc[i]
        BY <3>5, <3>6, Zenon
      <3>8. LastUser \in ToSet(doc)
        BY <3>3, <3>7
      <3>9. QED  BY <1>1, <2>2, <3>2, <3>8 DEF Anchors
    <2>3. QED  BY <2>1, <2>2
  <1>4. cursor' \notin New /\ None \notin New
    BY <1>3, MessageAssumption DEF Anchors
  <1>5. /\ Announced = 0 /\ Stored = 0 /\ Claimed = 0 /\ Announced' = 0 /\ Stored' = 0
        /\ Claimed' = 0 /\ ~Busy' /\ Anchors' = Anchors /\ ToSet(doc)' = ToSet(doc) /\ Block'
    BY <1>1, <1>2, <1>4, KeepDoc DEF IInv, Announced, Stored, Claimed, Busy
  <1>6. Types'
    BY <1>1 DEF IInv, Types, Phases
  <1>7. Opening'
    BY <1>1, <1>3, <1>5 DEF Opening, Begun
  <1>8. Stages' /\ Numbered'
    BY <1>1, <1>2, <1>5 DEF IInv, Stages, Calling, Numbered
  <1>9. InHand'
    BY <1>1, <1>2, <1>5 DEF InHand, Streaming, Appending, Calling
  <1>10. Texts'
    BY <1>1 DEF IInv, Texts, Streaming, Begun
  <1>11. Catching'
    BY <1>1, <1>5 DEF IInv, Catching
  <1>12. QED  BY <1>5, <1>6, <1>7, <1>8, <1>9, <1>10, <1>11 DEF IInv

\* A user message goes to the end of the session, whatever the turn is doing.
LEMMA PostUserInv == ASSUME IInv, PostUser PROVE IInv'
  <1>1. /\ LateUser \notin ToSet(doc) /\ doc' = Append(doc, LateUser)
        /\ UNCHANGED <<phase, hop, created, role, text, flushed, cursor, liveCursor, bornIds, live,
                       finalizing, persisted, then, reasoning, assistant, calls, tool, displays,
                       aborted, cancelled>>
    BY DEF PostUser, textVars, writerVars, streamVars, toolVars
  <1>2. /\ doc' \in Seq(Msgs) /\ IsInjective(doc') /\ ToSet(doc') = ToSet(doc) \cup {LateUser}
        /\ Len(doc') = Len(doc) + 1 /\ doc'[Len(doc) + 1] = LateUser
        /\ \A j \in 1..Len(doc) : doc'[j] = doc[j]
    BY <1>1, PostedAtEnd DEF IInv, Types
  <1>3. LateUser \notin New /\ LateUser # NewerUser
    BY MessageAssumption
  <1>4. CASE ~Begun
    <2>1. CASE phase \in {"idle", "setup"}
      <3>1. doc \in Found
        BY <2>1 DEF IInv, Opening
      <3>2. LateUser \in ToSet(<<Anchor, LateUser>>)
            /\ LateUser \in ToSet(<<Anchor, OldReply, NewerUser, LateUser>>)
        BY DEF ToSet
      <3>3. doc = <<Anchor>> \/ doc = <<Anchor, OldReply, NewerUser>>
        BY <1>1, <3>1, <3>2 DEF Found
      <3>4. doc' \in Found
        <4>1. {Anchor, OldReply, NewerUser, LateUser} \subseteq Msgs
          BY DEF Msgs, Users
        <4>2. CASE doc = <<Anchor>>
          <5>1. Len(doc') = 2 /\ doc'[1] = Anchor /\ doc'[2] = LateUser
            BY <1>2, <4>2
          <5> DEFINE u == <<Anchor, LateUser>>
          <5>2. u \in Seq(Msgs) /\ Len(u) = 2 /\ u[1] = Anchor /\ u[2] = LateUser
            BY <4>1
          <5> HIDE DEF u
          <5>3. doc' = u
            BY <1>2, <5>1, <5>2
          <5>4. QED  BY <5>3 DEF u, Found
        <4>3. CASE doc = <<Anchor, OldReply, NewerUser>>
          <5>1. /\ Len(doc') = 4 /\ doc'[1] = Anchor /\ doc'[2] = OldReply
                /\ doc'[3] = NewerUser /\ doc'[4] = LateUser
            BY <1>2, <4>3
          <5> DEFINE u == <<Anchor, OldReply, NewerUser, LateUser>>
          <5>2. /\ u \in Seq(Msgs) /\ Len(u) = 4 /\ u[1] = Anchor /\ u[2] = OldReply
                /\ u[3] = NewerUser /\ u[4] = LateUser
            BY <4>1
          <5> HIDE DEF u
          <5>3. doc' = u
            BY <1>2, <5>1, <5>2
          <5>4. QED  BY <5>3 DEF u, Found
        <4>4. QED  BY <3>3, <4>2, <4>3
      <3>5. QED  BY <1>1, <1>4, <2>1, <3>4, UnbegunInv DEF PostUser
    <2>2. CASE phase = "deleted"
      <3>1. Blank(doc') /\ NewerUser \in ToSet(doc')
        BY <1>2, <1>3, <2>2 DEF IInv, Opening, Blank
      <3>2. QED  BY <1>1, <1>4, <2>2, <3>1, UnbegunInv DEF PostUser
    <2>3. QED  BY <1>4, <2>1, <2>2 DEF Begun
  <1>5. CASE Begun
    <2>1. Anchors' = Anchors
      BY <1>2, <1>3 DEF Anchors, Regenerate
    <2>2. Announced' = Announced /\ Stored' = Stored /\ Claimed' = Claimed /\ Busy' = Busy
      BY <1>1, KeepNumbers
    <2>3. Types'
      BY <1>1, <1>2 DEF IInv, Types
    <2>4. Opening'
      BY <1>1, <1>2, <1>5, <2>1 DEF IInv, Opening, Begun
    <2>5. Stages' /\ Numbered'
      BY <1>1, <1>2, <1>3, <2>2 DEF IInv, Stages, Calling, Numbered
    <2>6. InHand' /\ Texts'
      BY <1>1, <2>2 DEF IInv, InHand, Streaming, Appending, Calling, Texts
    <2>7. Catching'
      BY <1>1, <1>2, KeepCatching DEF IInv
    <2>8. Block'
      <3>1. Len(doc) \in Nat
        BY DEF IInv, Types
      <3>2. \A i \in 1..Len(doc') : doc'[i] \in New => i \in 1..Len(doc) /\ doc'[i] = doc[i]
        BY <1>2, <1>3, <3>1
      <3>3. \A i \in 1..Len(doc) : i > 1 => doc'[i - 1] = doc[i - 1]
        BY <1>2, <3>1
      <3>4. Block
        BY DEF IInv
      <3>5. \A i, j \in 1..Len(doc') : doc'[i] \in New /\ doc'[j] \in New => doc'[i] - i = doc'[j] - j
        BY <3>2, <3>4 DEF Block
      <3>6. \A i \in 1..Len(doc') : doc'[i] \in New =>
              i > 1 /\ IF doc'[i] = 1 THEN doc'[i - 1] \in Anchors ELSE doc'[i - 1] = doc'[i] - 1
        <4> TAKE i \in 1..Len(doc')
        <4> HAVE doc'[i] \in New
        <4>1. i \in 1..Len(doc) /\ doc'[i] = doc[i]
          BY <3>2
        <4>2. i > 1 /\ IF doc[i] = 1 THEN doc[i - 1] \in Anchors ELSE doc[i - 1] = doc[i] - 1
          BY <3>4, <4>1 DEF Block
        <4>3. doc'[i - 1] = doc[i - 1]
          BY <3>3, <4>1, <4>2
        <4>4. QED  BY <4>1, <4>2, <4>3
      <3>7. QED  BY <2>1, <3>5, <3>6 DEF Block
    <2>9. QED  BY <2>3, <2>4, <2>5, <2>6, <2>7, <2>8 DEF IInv
  <1>6. QED  BY <1>4, <1>5

-----------------------------------------------------------------------------
(* The TurnWriter                                                          *)

\* What is next to be finalized, and where the writer stands.
LEMMA NextToFinalize ==
  ASSUME IInv, Busy
  PROVE  LET m == Head(finalizing)
         IN  /\ m = Announced + 1 /\ m \in New /\ m <= created /\ Begun
             /\ cursor \in New \cup Anchors /\ cursor \in ToSet(doc)
             /\ cursor \in New => cursor = Announced
             /\ cursor \notin New => cursor \in Anchors /\ Announced = 0
             /\ ~Streaming /\ ~Calling /\ phase # "crashed"
  <1>1. Types /\ Numbered /\ Stages /\ Opening
    BY DEF IInv
  <1>2. /\ Len(finalizing) \in Nat /\ Len(finalizing) > 0 /\ Announced \in Nat /\ created \in Nat
        /\ Announced + Len(finalizing) <= created
    BY <1>1, Counts DEF Numbered
  <1>3. Head(finalizing) = finalizing[1]
    BY <1>1, <1>2 DEF Types
  <1>4. Head(finalizing) = Announced + 1
    BY <1>1, <1>2, <1>3 DEF Numbered
  <1>5. created <= MaxMessages
    BY <1>1, TurnAssumption DEF Types
  <1>6. Announced + 1 \in New /\ Announced + 1 <= created
    BY <1>2, <1>5, TurnAssumption DEF New
  <1>7. Begun /\ ~Streaming /\ ~Calling /\ phase # "crashed"
    BY <1>1 DEF Stages, Begun, Streaming, Calling
  <1>8. QED  BY <1>1, <1>4, <1>6, <1>7 DEF Opening, Announced

\* The first message handed over goes behind the cursor: the block grows at its end.
LEMMA PersistInv == ASSUME IInv, Persist PROVE IInv'
  <1> DEFINE m == Head(finalizing)
             p == Pos(cursor)
  <1>1. /\ Busy /\ ~persisted /\ doc' = InsertAfter(m, cursor) /\ persisted' = TRUE
        /\ UNCHANGED <<phase, hop, created, role, text, flushed, cursor, liveCursor, bornIds, live,
                       finalizing, then, reasoning, assistant, calls, tool, displays, aborted,
                       cancelled>>
    BY DEF Persist, textVars, writerVars, streamVars, toolVars
  <1>2. /\ m = Announced + 1 /\ m \in New /\ m <= created /\ Begun
        /\ cursor \in New \cup Anchors /\ cursor \in ToSet(doc)
        /\ cursor \in New => cursor = Announced
        /\ cursor \notin New => cursor \in Anchors /\ Announced = 0
        /\ ~Streaming
    BY <1>1, NextToFinalize
  <1>3. Types /\ Opening /\ Stages /\ Numbered /\ InHand /\ Catching /\ Texts /\ Block
    BY DEF IInv
  <1>4. Announced \in Nat /\ Stored = Announced /\ m \in Nat
    BY <1>1, <1>2, <1>3, Counts
  <1>5. m \notin ToSet(doc) /\ m \in Msgs /\ doc \in Seq(Msgs) /\ IsInjective(doc)
    BY <1>2, <1>3, <1>4 DEF Numbered, Msgs, Types
  <1>6. /\ p \in 1..Len(doc) /\ doc[p] = cursor
        /\ doc' \in Seq(Msgs) /\ Len(doc') = Len(doc) + 1 /\ doc'[p + 1] = m
        /\ \A j \in 1..p : doc'[j] = doc[j]
        /\ \A j \in (p + 1)..Len(doc) : doc'[j + 1] = doc[j]
        /\ ToSet(doc') = ToSet(doc) \cup {m} /\ IsInjective(doc')
    BY <1>1, <1>2, <1>5, InsertedAfter
  <1> HIDE DEF m, p
  <1>7. Announced' = Announced /\ Claimed' = Claimed /\ Busy' /\ Stored' = Announced + 1
    BY <1>1 DEF Announced, Claimed, Stored, Busy
  <1>8. Anchors' = Anchors
    <2>1. NewerUser # m
      BY <1>2, MessageAssumption
    <2>2. QED  BY <1>6, <2>1 DEF Anchors, Regenerate
  <1>9. Types'
    BY <1>1, <1>3, <1>6 DEF Types
  <1>10. Opening'
    BY <1>1, <1>2, <1>3, <1>6, <1>8 DEF Opening, Begun
  <1>11. Stages'
    BY <1>1, <1>3, <1>7 DEF Stages, Calling
  <1>12. Numbered'
    <2>1. ASSUME NEW x \in New PROVE x \in ToSet(doc') <=> x <= Announced + 1
      <3>1. x \in Nat /\ (x \in ToSet(doc) <=> x <= Announced)
        BY <1>3, <1>4 DEF Numbered, New
      <3>2. QED  BY <1>2, <1>4, <1>6, <3>1
    <2>2. QED  BY <1>1, <1>3, <1>7, <2>1 DEF Numbered
  <1>13. InHand'
    BY <1>1, <1>2, <1>3, <1>7 DEF InHand, Streaming, Appending, Calling
  <1>14. Catching'
    BY <1>1, <1>3, <1>6, KeepCatching
  <1>15. Texts'
    BY <1>1, <1>2, <1>3 DEF Texts
  <1>16. Len(doc) \in Nat /\ p \in Nat /\ 1 <= p /\ p <= Len(doc)
    BY <1>5, <1>6
  <1>17. \A i \in 1..Len(doc) : doc[i] \in New => doc[i] \in Nat /\ doc[i] <= Announced
    BY <1>3, <1>4 DEF ToSet, Numbered, New
  <1>18. \A j \in (p + 1)..Len(doc) : doc[j] \notin New
    <2>1. SUFFICES ASSUME NEW j \in (p + 1)..Len(doc), doc[j] \in New PROVE FALSE
      OBVIOUS
    <2>2. j \in 1..Len(doc) /\ doc[j] \in Nat /\ doc[j] <= Announced /\ doc[j] >= 1
      BY <1>16, <1>17, <2>1 DEF New
    <2>3. cursor \in New /\ cursor = Announced
      BY <1>2, <2>2
    <2>4. doc[j] - j = doc[p] - p
      BY <1>3, <1>6, <2>1, <2>2, <2>3 DEF Block
    <2>5. QED  BY <1>4, <1>6, <1>16, <2>1, <2>2, <2>3, <2>4
  <1>19. \A i \in 1..Len(doc') : doc'[i] \in New =>
           \/ i \in 1..p /\ doc'[i] = doc[i]
           \/ i = p + 1 /\ doc'[i] = m
    <2> TAKE i \in 1..Len(doc')
    <2>1. CASE i > p + 1
      <3>1. i - 1 \in (p + 1)..Len(doc) /\ (i - 1) + 1 = i
        BY <1>6, <1>16, <2>1
      <3>2. doc'[i] = doc[i - 1]
        BY <1>6, <3>1
      <3>3. QED  BY <1>18, <3>1, <3>2
    <2>2. CASE i <= p + 1
      <3>1. i \in 1..p \/ i = p + 1
        BY <1>16, <2>2
      <3>2. QED  BY <1>6, <3>1
    <2>3. QED  BY <1>16, <2>1, <2>2
  <1>20. \A i \in 1..p : doc[i] \in New => m - (p + 1) = doc[i] - i
    <2> TAKE i \in 1..p
    <2> HAVE doc[i] \in New
    <2>1. i \in 1..Len(doc) /\ doc[i] \in Nat /\ doc[i] <= Announced /\ doc[i] >= 1
      BY <1>16, <1>17 DEF New
    <2>2. cursor \in New /\ cursor = Announced
      BY <1>2, <2>1
    <2>3. doc[i] - i = doc[p] - p
      BY <1>3, <1>6, <2>1, <2>2 DEF Block
    <2>4. QED  BY <1>2, <1>4, <1>6, <1>16, <2>2, <2>3
  <1>21. \A i, j \in 1..Len(doc') : doc'[i] \in New /\ doc'[j] \in New => doc'[i] - i = doc'[j] - j
    <2> TAKE i, j \in 1..Len(doc')
    <2> HAVE doc'[i] \in New /\ doc'[j] \in New
    <2>1. /\ (i \in 1..p /\ doc'[i] = doc[i]) \/ (i = p + 1 /\ doc'[i] = m)
          /\ (j \in 1..p /\ doc'[j] = doc[j]) \/ (j = p + 1 /\ doc'[j] = m)
      BY <1>19
    <2>2. \A x, y \in 1..p : doc[x] \in New /\ doc[y] \in New => doc[x] - x = doc[y] - y
      BY <1>3, <1>16 DEF Block
    <2>3. CASE i \in 1..p /\ doc'[i] = doc[i] /\ j \in 1..p /\ doc'[j] = doc[j]
      BY <2>2, <2>3
    <2>4. CASE i \in 1..p /\ doc'[i] = doc[i] /\ j = p + 1 /\ doc'[j] = m
      BY <1>20, <2>4
    <2>5. CASE i = p + 1 /\ doc'[i] = m /\ j \in 1..p /\ doc'[j] = doc[j]
      BY <1>20, <2>5
    <2>6. QED  BY <2>1, <2>3, <2>4, <2>5
  <1>22. \A i \in 1..Len(doc') : doc'[i] \in New =>
           i > 1 /\ IF doc'[i] = 1 THEN doc'[i - 1] \in Anchors ELSE doc'[i - 1] = doc'[i] - 1
    <2> TAKE i \in 1..Len(doc')
    <2> HAVE doc'[i] \in New
    <2>1. CASE i \in 1..p /\ doc'[i] = doc[i]
      <3>1. i > 1 /\ IF doc[i] = 1 THEN doc[i - 1] \in Anchors ELSE doc[i - 1] = doc[i] - 1
        BY <1>3, <1>16, <2>1 DEF Block
      <3>2. doc'[i - 1] = doc[i - 1]
        BY <1>6, <1>16, <2>1, <3>1
      <3>3. QED  BY <2>1, <3>1, <3>2
    <2>2. CASE i = p + 1 /\ doc'[i] = m
      <3>1. i > 1 /\ i - 1 = p /\ p \in 1..p
        BY <1>16, <2>2
      <3>2. doc'[i - 1] = cursor
        BY <1>6, <3>1
      <3>3. IF m = 1 THEN cursor \in Anchors ELSE cursor = m - 1
        BY <1>2, <1>4 DEF New
      <3>4. QED  BY <2>2, <3>1, <3>2, <3>3
    <2>3. QED  BY <1>19, <2>1, <2>2
  <1>23. Block'
    BY <1>8, <1>21, <1>22 DEF Block
  <1>24. QED  BY <1>9, <1>10, <1>11, <1>12, <1>13, <1>14, <1>15, <1>23 DEF IInv

\* Once it is stored the cursor moves to it, and the buffer lets it go.
LEMMA AnnounceInv == ASSUME IInv, Announce PROVE IInv'
  <1> DEFINE m == Head(finalizing)
  <1>1. /\ Busy /\ persisted /\ persisted' = FALSE /\ cursor' = m
        /\ live' = [k \in DOMAIN live \ {m} |-> live[k]]
        /\ liveCursor' = IF m \in bornIds THEN liveCursor ELSE m
        /\ finalizing' = Tail(finalizing)
        /\ phase' = IF Len(finalizing) = 1 THEN then ELSE phase
        /\ UNCHANGED <<doc, hop, created, role, text, flushed, bornIds, then, reasoning, assistant,
                       calls, tool, displays, aborted, cancelled>>
    BY DEF Announce, textVars, streamVars, toolVars
  <1>2. m = Announced + 1 /\ m \in New /\ m <= created /\ Begun /\ ~Streaming /\ ~Calling
        /\ phase # "crashed"
    BY <1>1, NextToFinalize
  <1>3. Types /\ Opening /\ Stages /\ Numbered /\ InHand /\ Catching /\ Texts /\ Block
    BY DEF IInv
  <1>4. /\ Announced \in Nat /\ Stored = Announced + 1 /\ Len(finalizing) \in Nat
        /\ Len(finalizing) > 0 /\ Claimed = Announced + Len(finalizing) /\ m \in Nat
    BY <1>1, <1>2, <1>3, Counts
  <1>5. m \in ToSet(doc)
    BY <1>2, <1>3, <1>4 DEF Numbered
  <1> HIDE DEF m
  <1>6. /\ finalizing' \in Seq(Nat) /\ Len(finalizing') = Len(finalizing) - 1
        /\ \A i \in 1..(Len(finalizing) - 1) : finalizing'[i] = finalizing[i + 1]
    BY <1>1, <1>3, <1>4 DEF Types
  <1>7. Announced' = Announced + 1
    BY <1>1, <1>2 DEF Announced
  <1>8. /\ Stored' = Stored /\ Claimed' = Claimed /\ (Busy' <=> Len(finalizing) > 1)
        /\ Anchors' = Anchors /\ ToSet(doc)' = ToSet(doc) /\ Block'
    <2>1. Busy' <=> Len(finalizing') > 0
      BY <1>6, EmptySeq DEF Busy
    <2>2. Stored' = Announced' + 0 /\ Claimed' = Announced' + Len(finalizing')
      BY <1>1 DEF Stored, Claimed
    <2>3. Stored' = Stored /\ Claimed' = Claimed
      BY <1>4, <1>6, <1>7, <2>2
    <2>4. Busy' <=> Len(finalizing) > 1
      BY <1>4, <1>6, <2>1
    <2>5. QED  BY <1>1, <1>3, <2>3, <2>4, KeepDoc
  <1>9. /\ phase' = "append" => then = "append" /\ ~Busy'
        /\ Busy' => phase' = phase
        /\ ~Busy' => phase' = then
    <2> DEFINE n == Len(finalizing)
    <2>1. n \in Nat /\ n > 0
      BY <1>4
    <2>2. (Busy' => n > 1) /\ (n > 1 => Busy')
      BY <1>8, Zenon
    <2> HIDE DEF n
    <2>3. n = 1 <=> ~(n > 1)
      BY <2>1
    <2>4. ~Busy' => n = 1
      BY <2>2, <2>3
    <2>5. Busy' => n # 1
      BY <2>2, <2>3
    <2>6. phase # "append"
      BY <1>1, <1>3 DEF Stages
    <2>7. phase' = IF n = 1 THEN then ELSE phase
      BY <1>1 DEF n
    <2>8. QED  BY <2>4, <2>5, <2>6, <2>7
  <1>10. Types'
    BY <1>1, <1>3, <1>6, <1>9 DEF Types, Stages, Phases
  <1>11. Begun'
    BY <1>1, <1>2, <1>3, <1>9 DEF Begun, Stages
  <1>12. Opening'
    <2>1. liveCursor' \in ToSet(doc) \cup DOMAIN live'
      BY <1>1, <1>2, <1>3, <1>5 DEF Opening
    <2>2. QED  BY <1>1, <1>2, <1>5, <1>8, <1>11, <2>1 DEF Opening, Begun
  <1>13. ~Streaming' /\ ~Calling' /\ Appending' = Appending /\ phase' # "crashed"
    BY <1>1, <1>2, <1>3, <1>9 DEF Stages, Streaming, Calling, Appending
  <1>14. Stages'
    BY <1>1, <1>3, <1>9, <1>13 DEF Stages
  <1>15. Numbered'
    <2>1. ASSUME NEW i \in 1..Len(finalizing') PROVE finalizing'[i] = Announced' + i
      <3>1. i \in 1..(Len(finalizing) - 1) /\ i + 1 \in 1..Len(finalizing)
        BY <1>4, <1>6, <2>1
      <3>2. finalizing'[i] = finalizing[i + 1] /\ finalizing[i + 1] = Announced + (i + 1)
        BY <1>3, <1>6, <3>1 DEF Numbered
      <3>3. QED  BY <1>4, <1>7, <3>2
    <2>2. QED  BY <1>1, <1>3, <1>8, <2>1 DEF Numbered
  <1>16. InHand'
    BY <1>1, <1>2, <1>3, <1>8, <1>13 DEF InHand
  <1>17. Catching'
    <2>1. DOMAIN live' = {k \in bornIds : k > Announced + 1}
      <3>1. \A k \in bornIds : k \in Nat
        BY <1>3 DEF Types
      <3>2. QED  BY <1>1, <1>2, <1>3, <1>4, <3>1 DEF Catching
    <2>2. ASSUME NEW x \in DOMAIN live'
          PROVE  live'[x] \in ToSet(doc) \cup {k \in DOMAIN live' : k < x}
      BY <1>1, <1>3, <1>5 DEF Catching
    <2>3. QED  BY <1>1, <1>7, <1>8, <2>1, <2>2 DEF Catching
  <1>18. Texts'
    BY <1>1, <1>2, <1>3 DEF Texts
  <1>19. QED  BY <1>8, <1>10, <1>12, <1>14, <1>15, <1>16, <1>17, <1>18 DEF IInv

\* Handed-over messages are the next ones; the turn waits for them, or goes on.
LEMMA HandOverInv ==
  ASSUME IInv, ~Busy, NEW p \in {"filters", "leaving", "tools"},
         \/ phase = "filters" /\ p = "filters"
         \/ phase = "streaming" /\ p # "filters"
         \/ phase = "running" /\ p = "tools",
         calls' \in 0..2, created' \in created..MaxMessages, role' \in [New -> Roles],
         assistant' \in 0..created', flushed' = text,
         finalizing' \in Seq(Nat), Announced + Len(finalizing') = created',
         \A i \in 1..Len(finalizing') : finalizing'[i] = Announced + i,
         phase' = IF finalizing' = <<>> THEN p ELSE phase, then' = p,
         UNCHANGED <<doc, hop, text, writerVars, toolVars, persisted, reasoning, aborted, cancelled>>
  PROVE  IInv'
  <1>1. UNCHANGED <<cursor, liveCursor, bornIds, live, tool, displays>>
    BY DEF writerVars, toolVars
  <1>2. Types /\ Opening /\ Stages /\ Numbered /\ InHand /\ Catching /\ Texts /\ Block
    BY DEF IInv
  <1>3. created \in Nat /\ created' \in Nat /\ created <= created' /\ created' <= MaxMessages
    BY <1>2, Counts, TurnAssumption
  <1>4. /\ Announced' = Announced /\ Stored' = Stored /\ Claimed' = created'
        /\ Anchors' = Anchors /\ ToSet(doc)' = ToSet(doc) /\ Block'
    BY <1>1, <1>2, KeepDoc DEF Announced, Stored, Claimed
  <1>5. ~persisted
    BY <1>2 DEF Stages
  <1>6. /\ Busy' => phase' = phase
        /\ ~Busy' => phase' = p
    BY DEF Busy
  <1>7. Begun /\ Begun'
    BY <1>6 DEF Begun
  <1>8. ~Streaming' /\ ~Appending' /\ ~Calling'
    BY <1>6 DEF Streaming, Appending, Calling
  <1>9. Types'
    <2>1. phase' \in Phases /\ created' \in 0..MaxMessages /\ flushed' \in [New -> 0..MaxText]
      BY <1>2, <1>3, <1>6 DEF Types, Phases
    <2>2. bornIds' \subseteq 1..created' /\ cancelled' \subseteq 1..created'
      BY <1>1, <1>2, <1>3 DEF Types
    <2>3. {reasoning', assistant', tool'} \subseteq 0..created'
      BY <1>1, <1>2, <1>3 DEF Types
    <2>4. QED  BY <1>1, <1>2, <2>1, <2>2, <2>3 DEF Types
  <1>10. Opening'
    BY <1>1, <1>2, <1>4, <1>7 DEF Opening, Begun
  <1>11. Stages'
    BY <1>2, <1>5, <1>6, <1>8 DEF Stages
  <1>12. Numbered'
    BY <1>2, <1>3, <1>4 DEF Numbered
  <1>13. InHand'
    BY <1>4, <1>8 DEF InHand
  <1>14. Catching'
    BY <1>1, <1>2, <1>4, KeepCatching
  <1>15. Texts'
    <2>1. \A m \in New : m \in Nat /\ text[m] \in Nat
      <3>1. \A m \in New : m \in Nat
        BY TurnAssumption DEF New
      <3>2. \A n \in 0..MaxText : n \in Nat
        BY TurnAssumption
      <3>3. \A m \in New : text[m] \in 0..MaxText
        BY <1>2 DEF Types
      <3>4. QED  BY <3>1, <3>2, <3>3
    <2>2. ASSUME NEW m \in New, m > created' PROVE text[m] = 0
      <3>1. m > created
        BY <1>3, <2>1, <2>2
      <3>2. QED  BY <1>2, <3>1 DEF Texts
    <2>3. \A m \in New : flushed'[m] = text'[m] /\ flushed'[m] <= text'[m]
      BY <2>1
    <2>4. QED  BY <2>2, <2>3 DEF Texts
  <1>16. QED  BY <1>2, <1>4, <1>9, <1>10, <1>11, <1>12, <1>13, <1>14, <1>15 DEF IInv

\* Creating a message takes the next number.
LEMMA Created ==
  ASSUME IInv, NEW r \in Roles, Create(r)
  PROVE  /\ created' = created + 1 /\ created' \in created..MaxMessages /\ created' \in New
         /\ role' \in [New -> Roles]
  <1>1. created' = created + 1 /\ created + 1 <= MaxMessages /\ created \in Nat /\ MaxMessages \in Nat
    BY Counts, TurnAssumption DEF Create, Room, IInv
  <1>2. role' \in [New -> Roles]
    BY DEF Create, IInv, Types
  <1>3. QED  BY <1>1, <1>2 DEF New

\* Elsewhere than in the stream everything is flushed, ...
LEMMA AllFlushed ==
  ASSUME Types, Texts, ~Streaming
  PROVE  flushed = text
  <1>1. \A m \in New : flushed[m] = text[m]
    BY DEF Texts
  <1>2. QED  BY <1>1 DEF Types

\* ... and a flush leaves nothing behind.
LEMMA FlushedIsText ==
  ASSUME Types, Texts
  PROVE  Flushed = text
  <1>1. ASSUME NEW m \in New PROVE Flushed[m] = text[m]
    <2>1. CASE flushed[m] = text[m]
      BY <2>1 DEF Flushed
    <2>2. CASE flushed[m] # text[m]
      <3>1. m \in {reasoning, assistant} /\ flushed[m] <= text[m] /\ m # 0
        BY <2>2 DEF Texts, New
      <3>2. flushed[m] \in Nat /\ text[m] \in Nat
        BY TurnAssumption DEF Types
      <3>3. m \in Pending
        BY <2>2, <3>1, <3>2 DEF Pending
      <3>4. QED  BY <3>3 DEF Flushed
    <2>3. QED  BY <2>1, <2>2
  <1>2. Flushed = [m \in New |-> Flushed[m]] /\ text = [m \in New |-> text[m]]
    BY DEF Flushed, Types
  <1>3. QED  BY <1>1, <1>2

LEMMA FilterInv == ASSUME IInv, Filter PROVE IInv'
  <1>1. Types /\ Texts /\ InHand /\ Numbered
    BY DEF IInv
  <1>2. ~Streaming /\ ~Appending /\ ~Calling /\ phase # "crashed" /\ ~Busy
    BY DEF Filter, Streaming, Appending, Calling
  <1>3. created = Announced /\ Announced \in Nat
    BY <1>1, <1>2, Counts DEF InHand
  <1>4. /\ created' = created + 1 /\ created' \in created..MaxMessages /\ created' \in New
        /\ role' \in [New -> Roles]
    <2>1. \E r \in Roles : Create(r)
      BY DEF Filter, Roles
    <2>2. QED  BY <2>1, Created
  <1>5. /\ finalizing' = <<created'>> /\ then' = "filters" /\ phase = "filters"
        /\ phase' = IF finalizing' = <<>> THEN "filters" ELSE phase
    BY DEF Filter, Finalize
  <1>6. created' \in Nat
    BY <1>3, <1>4
  <1>7. finalizing' \in Seq(Nat) /\ Len(finalizing') = 1 /\ finalizing'[1] = created'
    BY <1>5, <1>6
  <1>8. Announced + Len(finalizing') = created'
        /\ \A i \in 1..Len(finalizing') : finalizing'[i] = Announced + i
    BY <1>3, <1>4, <1>7
  <1>9. calls' \in 0..2 /\ assistant' \in 0..created' /\ flushed' = text
    BY <1>1, <1>2, <1>3, <1>4, AllFlushed DEF Filter, streamVars, textVars, Types
  <1>10. QED
    BY <1>2, <1>4, <1>5, <1>7, <1>8, <1>9, HandOverInv DEF Filter, Finalize, textVars,
       streamVars

LEMMA EndCallInv == ASSUME IInv, EndCall PROVE IInv'
  <1>1. Types /\ Texts /\ InHand /\ Numbered /\ Stages
    BY DEF IInv
  <1>2. ~Streaming /\ Calling /\ ~Busy
    BY DEF EndCall, Streaming, Calling
  <1>3. /\ tool = Announced + 1 /\ created = Announced + 1 + Len(displays) /\ Announced \in Nat
        /\ \A i \in 1..Len(displays) : displays[i] = tool + i
        /\ Len(displays) \in Nat /\ calls > 0
    BY <1>1, <1>2, Counts DEF InHand, Stages
  <1> DEFINE u == <<tool>>
  <1>4. finalizing' = u \o displays /\ displays \in Seq(Nat)
    BY <1>1 DEF EndCall, Finalize, Types
  <1>5. u \in Seq(Nat) /\ Len(u) = 1 /\ u[1] = tool
    BY <1>3
  <1> HIDE DEF u
  <1>6. /\ finalizing' \in Seq(Nat) /\ Len(finalizing') = Len(u) + Len(displays)
        /\ \A i \in 1..(Len(u) + Len(displays)) :
              finalizing'[i] = IF i <= Len(u) THEN u[i] ELSE displays[i - Len(u)]
    BY <1>4, <1>5, ConcatProperties, Zenon
  <1>7. ASSUME NEW i \in 1..Len(finalizing') PROVE finalizing'[i] = Announced + i
    <2>1. CASE i = 1
      BY <1>3, <1>5, <1>6, <2>1
    <2>2. CASE i # 1
      <3>1. i - 1 \in 1..Len(displays) /\ finalizing'[i] = displays[i - 1]
        BY <1>3, <1>5, <1>6, <2>2
      <3>2. displays[i - 1] = tool + (i - 1)
        BY <1>3, <3>1
      <3>3. QED  BY <1>3, <3>1, <3>2
    <2>3. QED  BY <2>1, <2>2
  <1>8. /\ created' = created /\ created' \in created..MaxMessages /\ role' \in [New -> Roles]
        /\ Announced + Len(finalizing') = created'
    BY <1>1, <1>3, <1>5, <1>6, TurnAssumption DEF EndCall, Types
  <1>9. calls' \in 0..2 /\ assistant' \in 0..created' /\ flushed' = text
    BY <1>1, <1>2, <1>3, <1>8, AllFlushed, SMTT(30) DEF EndCall, textVars, Types
  <1>10. /\ then' = "tools" /\ phase = "running"
         /\ phase' = IF finalizing' = <<>> THEN "tools" ELSE phase
    BY DEF EndCall, Finalize
  <1>11. QED
    BY <1>2, <1>6, <1>7, <1>8, <1>9, <1>10, HandOverInv DEF EndCall, Finalize, textVars

-----------------------------------------------------------------------------
(* Messages that appear while they grow                                    *)

\* A birth is buffered behind the message born or stored before it.
LEMMA BornKeeps ==
  ASSUME IInv, Begun, created' = created + 1, created' \in New, Born(created'),
         UNCHANGED <<doc, finalizing, persisted>>
  PROVE  /\ Announced' = Announced /\ Stored' = Stored /\ Claimed' = Claimed /\ Busy' = Busy
         /\ Anchors' = Anchors /\ ToSet(doc)' = ToSet(doc) /\ Block'
         /\ bornIds' \subseteq 1..created' /\ cursor' = cursor
         /\ liveCursor' \in ToSet(doc) \cup DOMAIN live'
         /\ Catching' /\ Numbered'
  <1>1. Types /\ Opening /\ Stages /\ Numbered /\ Catching /\ Block
    BY DEF IInv
  <1>2. /\ live' = [k \in DOMAIN live \cup {created'} |-> IF k = created' THEN liveCursor ELSE live[k]]
        /\ bornIds' = bornIds \cup {created'} /\ liveCursor' = created' /\ cursor' = cursor
    BY DEF Born
  <1>3. /\ Announced' = Announced /\ Stored' = Stored /\ Claimed' = Claimed /\ Busy' = Busy
        /\ Anchors' = Anchors /\ ToSet(doc)' = ToSet(doc) /\ Block'
    BY <1>1, <1>2, KeepNumbers, KeepDoc
  <1>4. created \in Nat /\ Announced \in Nat /\ Claimed <= created /\ Announced <= created
        /\ Claimed \in Nat
    BY <1>1, Counts DEF Numbered
  <1>5. bornIds' \subseteq 1..created'
    BY <1>1, <1>2, <1>4 DEF Types
  <1>6. \A k \in DOMAIN live : k \in bornIds /\ k \in 1..created /\ k < created'
    <2>1. \A k \in DOMAIN live : k \in bornIds
      BY <1>1 DEF Catching
    <2>2. bornIds \subseteq 1..created
      BY <1>1 DEF Types
    <2>3. \A k \in 1..created : k < created'
      BY <1>4
    <2>4. QED  BY <2>1, <2>2, <2>3
  <1>7. DOMAIN live' = {m \in bornIds' : m > Announced}
    <2>1. created' > Announced
      BY <1>4
    <2>2. QED  BY <1>1, <1>2, <2>1 DEF Catching
  <1>8. ASSUME NEW m \in DOMAIN live'
        PROVE  live'[m] \in ToSet(doc) \cup {k \in DOMAIN live' : k < m}
    <2>1. CASE m = created'
      <3>1. live'[m] = liveCursor /\ liveCursor \in ToSet(doc) \cup DOMAIN live
        BY <1>1, <1>2, <2>1 DEF Opening
      <3>2. QED  BY <1>2, <1>6, <2>1, <3>1
    <2>2. CASE m # created'
      <3>1. m \in DOMAIN live /\ live'[m] = live[m]
        BY <1>2, <1>8, <2>2
      <3>2. QED  BY <1>1, <1>2, <3>1 DEF Catching
    <2>3. QED  BY <2>1, <2>2
  <1>9. Catching'
    BY <1>3, <1>7, <1>8 DEF Catching
  <1>10. Numbered'
    <2>1. Claimed <= created + 1
      BY <1>4
    <2>2. QED  BY <1>1, <1>3, <2>1 DEF Numbered
  <1>11. liveCursor' \in ToSet(doc) \cup DOMAIN live'
    BY <1>2
  <1>12. QED  BY <1>2, <1>3, <1>5, <1>9, <1>10, <1>11

LEMMA BeginCallInv == ASSUME IInv, BeginCall PROVE IInv'
  <1>1. Types /\ Opening /\ Stages /\ Numbered /\ InHand /\ Texts
    BY DEF IInv
  <1>2. /\ phase = "tools" /\ ~Busy /\ calls > 0 /\ Create("tool") /\ Born(created')
        /\ tool' = created' /\ displays' = <<>> /\ phase' = "running"
        /\ UNCHANGED <<doc, hop, text, flushed, finalizing, persisted, then, reasoning, assistant,
                       calls, aborted>>
        /\ cancelled' = (IF aborted THEN cancelled \cup {tool'} ELSE cancelled)
    BY DEF BeginCall, textVars, streamVars
  <1>3. ~Streaming /\ ~Appending /\ ~Calling /\ Begun /\ phase # "crashed"
    BY <1>2 DEF Streaming, Appending, Calling, Begun
  <1>4. /\ created' = created + 1 /\ created' \in created..MaxMessages /\ created' \in New
        /\ role' \in [New -> Roles]
    BY <1>2, Created DEF Roles
  <1>5. created = Claimed /\ created \in Nat /\ Claimed \in Nat
    BY <1>1, <1>2, <1>3, Counts DEF InHand
  <1>6. /\ Announced' = Announced /\ Stored' = Stored /\ Claimed' = Claimed /\ Busy' = Busy
        /\ Anchors' = Anchors /\ ToSet(doc)' = ToSet(doc) /\ Block'
        /\ bornIds' \subseteq 1..created' /\ cursor' = cursor
        /\ liveCursor' \in ToSet(doc) \cup DOMAIN live'
        /\ Catching' /\ Numbered'
    BY <1>2, <1>3, <1>4, BornKeeps
  <1>7. Len(displays') = 0 /\ displays' \in Seq(Nat)
    BY <1>2
  <1>8. Types'
    <2>1. {reasoning', assistant', tool'} \subseteq 0..created' /\ cancelled' \subseteq 1..created'
          /\ created' \in 0..MaxMessages
      BY <1>1, <1>2, <1>4, <1>5 DEF Types
    <2>2. QED  BY <1>1, <1>2, <1>4, <1>6, <1>7, <2>1 DEF Types, Phases
  <1>9. Opening'
    BY <1>1, <1>2, <1>3, <1>6 DEF Opening, Begun
  <1>10. Stages'
    BY <1>1, <1>2, <1>6 DEF Stages, Calling
  <1>11. InHand'
    BY <1>2, <1>4, <1>5, <1>6, <1>7 DEF InHand, Streaming, Appending, Calling
  <1>12. Texts'
    <2>1. \A m \in New : m > created' => m > created
      BY <1>4, <1>5 DEF New
    <2>2. QED  BY <1>1, <1>2, <1>3, <2>1 DEF Texts
  <1>13. QED  BY <1>6, <1>8, <1>9, <1>10, <1>11, <1>12 DEF IInv

LEMMA DisplayInv == ASSUME IInv, Display PROVE IInv'
  <1>1. Types /\ Opening /\ Stages /\ Numbered /\ InHand /\ Texts
    BY DEF IInv
  <1>2. /\ phase = "running" /\ ~Busy /\ Create("display") /\ Born(created')
        /\ displays' = Append(displays, created')
        /\ UNCHANGED <<doc, phase, hop, text, flushed, finalizing, persisted, then, reasoning,
                       assistant, calls, tool, aborted, cancelled>>
    BY DEF Display, textVars, streamVars
  <1>3. ~Streaming /\ Calling /\ Begun
    BY <1>2 DEF Streaming, Calling, Begun
  <1>4. /\ created' = created + 1 /\ created' \in created..MaxMessages /\ created' \in New
        /\ role' \in [New -> Roles]
    BY <1>2, Created DEF Roles
  <1>5. /\ tool = Claimed + 1 /\ created = Claimed + 1 + Len(displays) /\ created \in Nat
        /\ \A i \in 1..Len(displays) : displays[i] = tool + i
        /\ Claimed \in Nat /\ Len(displays) \in Nat
    BY <1>1, <1>3, Counts DEF InHand
  <1>6. /\ Announced' = Announced /\ Stored' = Stored /\ Claimed' = Claimed /\ Busy' = Busy
        /\ Anchors' = Anchors /\ ToSet(doc)' = ToSet(doc) /\ Block'
        /\ bornIds' \subseteq 1..created' /\ cursor' = cursor
        /\ liveCursor' \in ToSet(doc) \cup DOMAIN live'
        /\ Catching' /\ Numbered'
    BY <1>2, <1>3, <1>4, BornKeeps
  <1>7. /\ displays' \in Seq(Nat) /\ Len(displays') = Len(displays) + 1
        /\ \A i \in 1..Len(displays') : displays'[i] = tool + i
    <2>1. created' \in Nat /\ displays \in Seq(Nat) /\ created' = tool + (Len(displays) + 1)
      BY <1>1, <1>4, <1>5 DEF Types
    <2>2. /\ displays' \in Seq(Nat) /\ Len(displays') = Len(displays) + 1
          /\ displays'[Len(displays) + 1] = created'
          /\ \A i \in 1..Len(displays) : displays'[i] = displays[i]
      BY <1>2, <2>1
    <2>3. ASSUME NEW i \in 1..Len(displays') PROVE displays'[i] = tool + i
      <3>1. i \in 1..Len(displays) \/ i = Len(displays) + 1
        BY <1>5, <2>2
      <3>2. CASE i \in 1..Len(displays)
        BY <1>5, <2>2, <3>2
      <3>3. CASE i = Len(displays) + 1
        BY <2>1, <2>2, <3>3
      <3>4. QED  BY <3>1, <3>2, <3>3
    <2>4. QED  BY <2>2, <2>3
  <1>8. Types'
    <2>1. {reasoning', assistant', tool'} \subseteq 0..created' /\ cancelled' \subseteq 1..created'
          /\ created' \in 0..MaxMessages
      BY <1>1, <1>2, <1>4, <1>5 DEF Types
    <2>2. QED  BY <1>1, <1>2, <1>4, <1>6, <1>7, <2>1 DEF Types
  <1>9. Opening'
    BY <1>1, <1>2, <1>3, <1>6 DEF Opening, Begun
  <1>10. Stages'
    BY <1>1, <1>2, <1>6 DEF Stages, Calling
  <1>11. InHand'
    BY <1>2, <1>4, <1>5, <1>6, <1>7 DEF InHand, Streaming, Appending, Calling
  <1>12. Texts'
    <2>1. \A m \in New : m > created' => m > created
      BY <1>4, <1>5 DEF New
    <2>2. QED  BY <1>1, <1>2, <1>3, <2>1 DEF Texts
  <1>13. QED  BY <1>6, <1>8, <1>9, <1>10, <1>11, <1>12 DEF IInv

-----------------------------------------------------------------------------
(* The provider's stream                                                   *)

\* While a hop streams, this is what is in hand.
LEMMA InStream ==
  ASSUME IInv, Streaming
  PROVE  /\ \/ reasoning = 0 /\ assistant = 0 /\ created = Announced
            \/ reasoning = created /\ assistant = 0 /\ created = Announced + 1
            \/ assistant = created /\ created = Announced + 1 /\ reasoning <= Announced
         /\ Claimed = Announced /\ Announced \in Nat /\ created \in Nat /\ reasoning \in Nat
         /\ Begun /\ hop < MaxHops /\ ~persisted /\ ~Busy
  <1>1. Types /\ Stages /\ InHand
    BY DEF IInv
  <1>2. /\ Announced \in Nat /\ created \in Nat /\ Len(finalizing) \in Nat
        /\ (Busy <=> Len(finalizing) > 0) /\ Claimed = Announced + Len(finalizing)
    BY <1>1, Counts
  <1>3. ~Busy /\ phase = "streaming"
    BY DEF Streaming
  <1>4. Claimed = Announced
    BY <1>2, <1>3
  <1>5. reasoning \in Nat
    BY <1>1, <1>2 DEF Types
  <1>6. QED  BY <1>1, <1>2, <1>3, <1>4, <1>5 DEF Stages, Begun, InHand

\* Only the message numbered last has text that grows.
LEMMA GrowText ==
  ASSUME IInv, NEW m \in New, m <= created', created \in Nat, created' \in Nat, created <= created',
         text[m] < MaxText \/ text[m] = 0,
         text' = [text EXCEPT ![m] = @ + 1], flushed' = flushed,
         \A k \in New : k # m => flushed[k] = text[k],
         Streaming', m = created', m \in {reasoning', assistant'}
  PROVE  Texts' /\ text' \in [New -> 0..MaxText]
  <1>1. Types /\ Texts
    BY DEF IInv
  <1>2. text \in [New -> 0..MaxText] /\ MaxText \in Nat /\ MaxText > 0
        /\ flushed \in [New -> 0..MaxText] /\ \A k \in New : k \in Nat
    <2>1. \A k \in New : k \in Nat
      BY TurnAssumption DEF New
    <2>2. text \in [New -> 0..MaxText] /\ flushed \in [New -> 0..MaxText]
      BY <1>1 DEF Types
    <2>3. MaxText \in Nat /\ MaxText > 0
      BY TurnAssumption
    <2>4. QED  BY <2>1, <2>2, <2>3
  <1>3. \A k \in 0..MaxText : k \in Nat
    BY <1>2
  <1>4. text[m] + 1 \in 0..MaxText
    BY <1>2
  <1>5. text' \in [New -> 0..MaxText]
    BY <1>2, <1>4
  <1>6. ASSUME NEW k \in New
        PROVE  /\ flushed'[k] <= text'[k]
               /\ k > created' => text'[k] = 0
               /\ flushed'[k] # text'[k] => Streaming' /\ k = created' /\ k \in {reasoning', assistant'}
    <2>1. text[k] \in Nat /\ flushed[k] \in Nat /\ k \in Nat
      BY <1>2, <1>3
    <2>2. CASE k = m
      <3>1. text'[k] = text[k] + 1 /\ flushed[k] <= text[k]
        BY <1>1, <1>2, <2>2 DEF Texts
      <3>2. QED  BY <2>1, <2>2, <3>1
    <2>3. CASE k # m
      <3>1. text'[k] = text[k]
        BY <1>2, <2>3
      <3>2. k > created' => text[k] = 0
        BY <1>1, <2>1 DEF Texts
      <3>3. flushed[k] = text[k]
        BY <2>3
      <3>4. QED  BY <2>1, <3>1, <3>2, <3>3
    <2>4. QED  BY <2>2, <2>3
  <1>7. QED  BY <1>5, <1>6 DEF Texts

\* The hop's bubbles appear one at a time and grow one at a time.
LEMMA ReasoningDeltaInv == ASSUME IInv, ReasoningDelta PROVE IInv'
  <1>1. Types /\ Opening /\ Stages /\ Numbered /\ InHand /\ Texts
    BY DEF IInv
  <1>2. /\ phase = "streaming" /\ ~Busy /\ assistant = 0 /\ Streaming
        /\ text' = [text EXCEPT ![reasoning'] = @ + 1]
        /\ UNCHANGED <<doc, phase, hop, flushed, finalizing, persisted, then, assistant, calls,
                       tool, displays, aborted, cancelled>>
    BY DEF ReasoningDelta, toolVars, Streaming
  <1>3. /\ \/ reasoning = 0 /\ assistant = 0 /\ created = Announced
           \/ reasoning = created /\ assistant = 0 /\ created = Announced + 1
           \/ assistant = created /\ created = Announced + 1 /\ reasoning <= Announced
        /\ Claimed = Announced /\ Announced \in Nat /\ created \in Nat /\ reasoning \in Nat
        /\ Begun /\ hop < MaxHops /\ ~persisted
    BY <1>2, InStream
  <1>4. \A k \in New : k # 0
    BY DEF New
  <1>5. CASE reasoning = 0
    <2>1. Create("reasoning") /\ Born(created') /\ reasoning' = created'
      BY <1>5 DEF ReasoningDelta
    <2>2. /\ created' = created + 1 /\ created' \in created..MaxMessages /\ created' \in New
          /\ role' \in [New -> Roles]
      BY <2>1, Created DEF Roles
    <2>3. /\ Announced' = Announced /\ Stored' = Stored /\ Claimed' = Claimed /\ Busy' = Busy
          /\ Anchors' = Anchors /\ ToSet(doc)' = ToSet(doc) /\ Block'
          /\ bornIds' \subseteq 1..created' /\ cursor' = cursor
          /\ liveCursor' \in ToSet(doc) \cup DOMAIN live'
          /\ Catching' /\ Numbered'
      BY <1>2, <1>3, <2>1, <2>2, BornKeeps
    <2>4. Streaming'
      BY <1>2, <2>3 DEF Streaming
    <2>5. text[created'] = 0
      <3>1. created' > created
        BY <1>3, <2>2
      <3>2. QED  BY <1>1, <2>2, <3>1 DEF Texts
    <2>6. \A k \in New : k # created' => flushed[k] = text[k]
      BY <1>1, <1>2, <1>4, <1>5 DEF Texts
    <2>7. Texts' /\ text' \in [New -> 0..MaxText]
      <3>1. created' <= created' /\ created <= created' /\ created' \in Nat
            /\ text' = [text EXCEPT ![created'] = @ + 1] /\ created' \in {reasoning', assistant'}
        BY <1>2, <1>3, <2>1, <2>2
      <3> DEFINE m == created'
      <3>2. /\ m \in New /\ m <= created' /\ created \in Nat /\ created' \in Nat
            /\ created <= created' /\ text[m] = 0 /\ text' = [text EXCEPT ![m] = @ + 1]
            /\ flushed' = flushed /\ (\A k \in New : k # m => flushed[k] = text[k])
            /\ Streaming' /\ m = created' /\ m \in {reasoning', assistant'}
        BY <1>2, <1>3, <2>2, <2>4, <2>5, <2>6, <3>1
      <3> HIDE DEF m
      <3>3. QED  BY <3>2, GrowText
    <2>8. Types'
      <3>1. {reasoning', assistant', tool'} \subseteq 0..created' /\ cancelled' \subseteq 1..created'
            /\ created' \in 0..MaxMessages
        BY <1>1, <1>2, <1>3, <2>1, <2>2 DEF Types
      <3>2. QED  BY <1>1, <1>2, <2>2, <2>3, <2>7, <3>1 DEF Types
    <2>9. Opening'
      BY <1>1, <1>2, <1>3, <2>3 DEF Opening, Begun
    <2>10. Stages'
      BY <1>1, <1>2, <2>3 DEF Stages, Calling
    <2>11. InHand'
      <3>1. ~Appending' /\ ~Calling'
        BY <1>2, <2>3 DEF Appending, Calling
      <3>2. QED  BY <1>2, <1>3, <1>5, <2>1, <2>2, <2>3, <2>4, <3>1 DEF InHand
    <2>12. QED  BY <2>3, <2>7, <2>8, <2>9, <2>10, <2>11 DEF IInv
  <1>6. CASE reasoning # 0
    <2>1. /\ text[reasoning] < MaxText
          /\ UNCHANGED <<created, role, cursor, liveCursor, bornIds, live, reasoning>>
      BY <1>6 DEF ReasoningDelta, writerVars
    <2>2. reasoning = created /\ created \in New
      <3>1. reasoning = created /\ created > 0
        BY <1>2, <1>3, <1>6
      <3>2. created \in 0..MaxMessages /\ MaxMessages \in Nat
        BY <1>1, TurnAssumption DEF Types
      <3>3. QED  BY <3>1, <3>2 DEF New
    <2>3. /\ Announced' = Announced /\ Stored' = Stored /\ Claimed' = Claimed /\ Busy' = Busy
          /\ Anchors' = Anchors /\ ToSet(doc)' = ToSet(doc) /\ Block'
      BY <1>2, <2>1, KeepNumbers, KeepDoc DEF IInv
    <2>4. Streaming'
      BY <1>2, <2>3 DEF Streaming
    <2>5. \A k \in New : k # reasoning => flushed[k] = text[k]
      BY <2>2, <1>1 DEF Texts
    <2>6. Texts' /\ text' \in [New -> 0..MaxText]
      <3> DEFINE m == reasoning
      <3>1. /\ m \in New /\ m <= created' /\ created \in Nat /\ created' \in Nat
            /\ created <= created' /\ text[m] < MaxText /\ text' = [text EXCEPT ![m] = @ + 1]
            /\ flushed' = flushed /\ (\A k \in New : k # m => flushed[k] = text[k])
            /\ Streaming' /\ m = created' /\ m \in {reasoning', assistant'}
        BY <1>2, <1>3, <2>1, <2>2, <2>4, <2>5
      <3> HIDE DEF m
      <3>2. QED  BY <3>1, GrowText
    <2>7. Types'
      BY <1>1, <1>2, <2>1, <2>6 DEF Types
    <2>8. Opening'
      BY <1>1, <1>2, <1>3, <2>1, <2>3 DEF Opening, Begun
    <2>9. Stages' /\ Numbered'
      BY <1>1, <1>2, <2>1, <2>3 DEF Stages, Calling, Numbered
    <2>10. InHand'
      <3>1. ~Appending' /\ ~Calling'
        BY <1>2, <2>3 DEF Appending, Calling
      <3>2. QED  BY <1>1, <1>2, <2>1, <2>3, <2>4, <3>1 DEF InHand
    <2>11. Catching'
      BY <1>2, <2>1, <2>3, KeepCatching DEF IInv
    <2>12. QED  BY <2>3, <2>6, <2>7, <2>8, <2>9, <2>10, <2>11 DEF IInv
  <1>7. QED  BY <1>5, <1>6

LEMMA FirstContentInv == ASSUME IInv, FirstContent PROVE IInv'
  <1>1. Types /\ Opening /\ Stages /\ Numbered /\ InHand /\ Texts
    BY DEF IInv
  <1>2. /\ phase = "streaming" /\ ~Busy /\ assistant = 0 /\ Streaming
        /\ Create("assistant") /\ Born(created') /\ assistant' = created' /\ flushed' = Flushed
        /\ finalizing' = (IF reasoning = 0 THEN <<>> ELSE <<reasoning>>) /\ then' = "append"
        /\ phase' = IF finalizing' = <<>> THEN "append" ELSE phase
        /\ UNCHANGED <<doc, hop, text, reasoning, calls, persisted, tool, displays, aborted,
                       cancelled>>
    BY DEF FirstContent, Finalize, toolVars, Streaming
  <1>3. /\ \/ reasoning = 0 /\ created = Announced
           \/ reasoning = created /\ reasoning # 0 /\ created = Announced + 1
        /\ Claimed = Announced /\ Announced \in Nat /\ created \in Nat /\ reasoning \in Nat
        /\ Begun /\ hop < MaxHops /\ ~persisted
    <2>1. /\ \/ reasoning = 0 /\ created = Announced
             \/ reasoning = created /\ created = Announced + 1
             \/ assistant = created /\ created = Announced + 1
          /\ Claimed = Announced /\ Announced \in Nat /\ created \in Nat /\ reasoning \in Nat
          /\ Begun /\ hop < MaxHops /\ ~persisted
      BY <1>2, InStream
    <2>2. QED  BY <1>2, <2>1
  <1>4. /\ created' = created + 1 /\ created' \in created..MaxMessages /\ created' \in New
        /\ role' \in [New -> Roles]
    BY <1>2, Created DEF Roles
  \* The birth, as if nothing were handed over.
  <1>5. /\ bornIds' = bornIds \cup {created'} /\ liveCursor' = created' /\ cursor' = cursor
        /\ live' = [k \in DOMAIN live \cup {created'} |-> IF k = created' THEN liveCursor ELSE live[k]]
    BY <1>2 DEF Born
  <1>6. flushed' = text
    BY <1>1, <1>2, FlushedIsText
  <1>7. /\ finalizing' \in Seq(Nat) /\ Announced + Len(finalizing') + 1 = created'
        /\ \A i \in 1..Len(finalizing') : finalizing'[i] = Announced + i
        /\ reasoning <= Announced + Len(finalizing')
    <2>1. CASE reasoning = 0
      <3>1. finalizing' \in Seq(Nat) /\ Len(finalizing') = 0
        BY <1>2, <2>1
      <3>2. QED  BY <1>3, <1>4, <2>1, <3>1
    <2>2. CASE reasoning # 0
      <3>1. finalizing' \in Seq(Nat) /\ Len(finalizing') = 1 /\ finalizing'[1] = reasoning
        BY <1>2, <1>3, <2>2
      <3>2. QED  BY <1>3, <1>4, <2>2, <3>1
    <2>3. QED  BY <2>1, <2>2
  <1>8. /\ Announced' = Announced /\ Stored' = Stored /\ Claimed' = Announced + Len(finalizing')
        /\ Anchors' = Anchors /\ ToSet(doc)' = ToSet(doc) /\ Block'
    BY <1>2, <1>5, KeepDoc DEF IInv, Announced, Stored, Claimed
  <1>9. Appending' /\ ~Streaming' /\ ~Calling' /\ Begun'
        /\ (Busy' => phase' = "streaming") /\ phase' \in {"append", "streaming"}
    BY <1>2 DEF Busy, Appending, Streaming, Calling, Begun
  <1>10. Types'
    <2>1. {reasoning', assistant', tool'} \subseteq 0..created' /\ cancelled' \subseteq 1..created'
          /\ created' \in 0..MaxMessages /\ bornIds' \subseteq 1..created'
      BY <1>1, <1>2, <1>3, <1>4, <1>5 DEF Types
    <2>2. QED  BY <1>1, <1>2, <1>4, <1>6, <1>7, <1>9, <2>1 DEF Types, Phases
  <1>11. Opening'
    <2>1. liveCursor' \in DOMAIN live'
      BY <1>5
    <2>2. QED  BY <1>1, <1>2, <1>3, <1>5, <1>8, <1>9, <2>1 DEF Opening, Begun
  <1>12. Stages'
    BY <1>1, <1>2, <1>3, <1>9 DEF Stages
  <1>13. Numbered'
    <2>1. Claimed' <= created'
      BY <1>3, <1>4, <1>7, <1>8
    <2>2. QED  BY <1>1, <1>2, <1>7, <1>8, <2>1 DEF Numbered
  <1>14. InHand'
    <2>1. text[created'] = 0
      <3>1. created' > created
        BY <1>3, <1>4
      <3>2. QED  BY <1>1, <1>4, <3>1 DEF Texts
    <2>2. created' = Claimed' + 1 /\ reasoning' <= Claimed' /\ text'[assistant'] = 0
      BY <1>2, <1>3, <1>7, <1>8, <2>1
    <2>3. QED  BY <1>2, <1>9, <2>2 DEF InHand
  <1>15. Catching'
    <2>1. Catching /\ liveCursor \in ToSet(doc) \cup DOMAIN live
      BY <1>1, <1>3 DEF IInv, Opening
    <2>2. \A k \in DOMAIN live : k < created'
      <3>1. \A k \in DOMAIN live : k \in 1..created
        BY <1>1, <2>1 DEF Catching, Types
      <3>2. QED  BY <1>3, <1>4, <3>1
    <2>3. created' > Announced
      BY <1>3, <1>4
    <2>4. DOMAIN live' = {m \in bornIds' : m > Announced}
      BY <1>5, <2>1, <2>3 DEF Catching
    <2>5. ASSUME NEW m \in DOMAIN live'
          PROVE  live'[m] \in ToSet(doc) \cup {k \in DOMAIN live' : k < m}
      <3>1. CASE m = created'
        BY <1>5, <2>1, <2>2, <3>1
      <3>2. CASE m # created'
        <4>1. m \in DOMAIN live /\ live'[m] = live[m]
          BY <1>5, <2>5, <3>2
        <4>2. QED  BY <1>5, <2>1, <4>1 DEF Catching
      <3>3. QED  BY <3>1, <3>2
    <2>6. QED  BY <1>8, <2>4, <2>5 DEF Catching
  <1>16. Texts'
    <2>1. \A m \in New : m \in Nat /\ text[m] \in Nat
      <3>1. \A m \in New : m \in Nat
        BY TurnAssumption DEF New
      <3>2. \A n \in 0..MaxText : n \in Nat
        BY TurnAssumption
      <3>3. \A m \in New : text[m] \in 0..MaxText
        BY <1>1 DEF Types
      <3>4. QED  BY <3>1, <3>2, <3>3
    <2>2. ASSUME NEW m \in New, m > created' PROVE text[m] = 0
      <3>1. m > created
        BY <1>3, <1>4, <2>1, <2>2
      <3>2. QED  BY <1>1, <3>1 DEF Texts
    <2>3. \A m \in New : flushed'[m] = text'[m] /\ flushed'[m] <= text'[m]
      BY <1>2, <1>6, <2>1
    <2>4. QED  BY <1>2, <2>2, <2>3 DEF Texts
  <1>17. QED  BY <1>8, <1>10, <1>11, <1>12, <1>13, <1>14, <1>15, <1>16 DEF IInv

LEMMA ContentDeltaInv == ASSUME IInv, ContentDelta PROVE IInv'
  <1>1. Types /\ Opening /\ Stages /\ Numbered /\ InHand /\ Texts
    BY DEF IInv
  <1>2. /\ ~Busy /\ phase' = "streaming" /\ text' = [text EXCEPT ![assistant] = @ + 1]
        /\ \/ phase = "append"
           \/ phase = "streaming" /\ assistant # 0 /\ text[assistant] < MaxText
        /\ UNCHANGED <<doc, hop, created, role, flushed, cursor, liveCursor, bornIds, live,
                       finalizing, persisted, then, reasoning, assistant, calls, tool, displays,
                       aborted, cancelled>>
    BY DEF ContentDelta, writerVars, streamVars, toolVars
  <1>3. /\ Announced' = Announced /\ Stored' = Stored /\ Claimed' = Claimed /\ Busy' = Busy
        /\ Anchors' = Anchors /\ ToSet(doc)' = ToSet(doc) /\ Block'
    BY <1>2, KeepNumbers, KeepDoc DEF IInv
  <1>4. created \in Nat /\ Claimed \in Nat /\ reasoning \in Nat
    BY <1>1, Counts DEF Types
  <1>5. /\ assistant = created /\ created = Claimed + 1 /\ reasoning <= Claimed
        /\ text[assistant] < MaxText \/ text[assistant] = 0
        /\ \A k \in New : k # assistant => flushed[k] = text[k]
    <2>1. CASE phase = "append"
      <3>1. Appending /\ ~Streaming
        BY <2>1 DEF Appending, Streaming
      <3>2. QED  BY <1>1, <3>1 DEF InHand, Texts
    <2>2. CASE phase = "streaming"
      <3>1. Streaming
        BY <1>2, <2>2 DEF Streaming
      <3>2. assistant # 0 /\ text[assistant] < MaxText
        BY <1>2, <2>2
      <3>3. assistant = created /\ created = Claimed + 1 /\ reasoning <= Claimed
        BY <1>1, <3>1, <3>2 DEF InHand
      <3>4. QED  BY <1>1, <3>2, <3>3 DEF Texts
    <2>3. QED  BY <1>2, <2>1, <2>2
  <1>6. assistant \in New
    <2>1. created \in 0..MaxMessages /\ MaxMessages \in Nat
      BY <1>1, TurnAssumption DEF Types
    <2>2. QED  BY <1>4, <1>5, <2>1 DEF New
  <1>7. Streaming' /\ Begun /\ Begun' /\ hop < MaxHops
    BY <1>1, <1>2, <1>3 DEF Streaming, Begun, Stages
  <1>8. Texts' /\ text' \in [New -> 0..MaxText]
    <2>1. assistant <= created' /\ created <= created' /\ assistant = created' /\ created' \in Nat
          /\ assistant \in {reasoning', assistant'}
      BY <1>2, <1>4, <1>5
    <2>2. QED  BY <1>2, <1>4, <1>5, <1>6, <1>7, <2>1, GrowText
  <1>9. Types'
    BY <1>1, <1>2, <1>8 DEF Types, Phases
  <1>10. Opening'
    BY <1>1, <1>2, <1>3, <1>7 DEF Opening, Begun
  <1>11. Stages' /\ Numbered'
    BY <1>1, <1>2, <1>3, <1>7 DEF Stages, Calling, Numbered
  <1>12. InHand'
    <2>1. ~Appending' /\ ~Calling'
      BY <1>2, <1>3 DEF Appending, Calling
    <2>2. QED  BY <1>2, <1>3, <1>5, <1>7, <2>1 DEF InHand
  <1>13. Catching'
    BY <1>2, <1>3, KeepCatching DEF IInv
  <1>14. QED  BY <1>3, <1>8, <1>9, <1>10, <1>11, <1>12, <1>13 DEF IInv

LEMMA FlushInv == ASSUME IInv, Flush PROVE IInv'
  <1>1. Types /\ Opening /\ Stages /\ Numbered /\ InHand /\ Texts
    BY DEF IInv
  <1>2. /\ phase = "streaming" /\ ~Busy /\ flushed' = Flushed
        /\ UNCHANGED <<doc, phase, hop, created, role, text, cursor, liveCursor, bornIds, live,
                       finalizing, persisted, then, reasoning, assistant, calls, tool, displays,
                       aborted, cancelled>>
    BY DEF Flush, writerVars, streamVars, toolVars
  <1>3. /\ Announced' = Announced /\ Stored' = Stored /\ Claimed' = Claimed /\ Busy' = Busy
        /\ Anchors' = Anchors /\ ToSet(doc)' = ToSet(doc) /\ Block'
    BY <1>2, KeepNumbers, KeepDoc DEF IInv
  <1>4. flushed' = text
    BY <1>1, <1>2, FlushedIsText
  <1>5. Types'
    BY <1>1, <1>2, <1>4 DEF Types
  <1>6. Opening' /\ Stages' /\ Numbered' /\ InHand'
    BY <1>1, <1>2, <1>3 DEF Opening, Begun, Stages, Calling, Numbered, InHand, Streaming,
       Appending
  <1>7. Texts'
    <2>1. \A m \in New : text[m] \in Nat
      <3>1. \A n \in 0..MaxText : n \in Nat
        BY TurnAssumption
      <3>2. QED  BY <1>1, <3>1 DEF Types
    <2>2. QED  BY <1>1, <1>2, <1>4, <2>1 DEF Texts
  <1>8. Catching'
    BY <1>2, <1>3, KeepCatching DEF IInv
  <1>9. QED  BY <1>3, <1>5, <1>6, <1>7, <1>8 DEF IInv

\* The stream is over: what it left unhanded is handed over.
LEMMA SettleInv ==
  ASSUME IInv, Streaming, NEW p \in {"leaving", "tools"}, NEW n \in 0..2, Settle(p, n)
  PROVE  IInv'
  <1> DEFINE pending == IF reasoning # 0 /\ assistant = 0 THEN <<reasoning>> ELSE <<>>
  <1>1. Types /\ Texts
    BY DEF IInv
  <1>2. /\ \/ reasoning = 0 /\ assistant = 0 /\ created = Announced
           \/ reasoning = created /\ assistant = 0 /\ created = Announced + 1
           \/ assistant = created /\ created = Announced + 1 /\ reasoning <= Announced
        /\ Claimed = Announced /\ Announced \in Nat /\ created \in Nat /\ reasoning \in Nat
        /\ Begun /\ hop < MaxHops /\ ~persisted /\ ~Busy
    BY InStream
  <1>3. /\ phase = "streaming" /\ calls' = n /\ flushed' = text
        /\ UNCHANGED <<doc, hop, text, reasoning, writerVars, toolVars, aborted, cancelled>>
    BY <1>1, FlushedIsText DEF Settle, Streaming
  <1> HIDE DEF pending
  <1>4. /\ \/ /\ assistant # 0 /\ Finalize(<<assistant>>, p)
              /\ UNCHANGED <<created, role, assistant>>
           \/ /\ assistant = 0 /\ Finalize(pending, p)
              /\ UNCHANGED <<created, role, assistant>>
           \/ /\ assistant = 0 /\ Create("assistant") /\ assistant' = created'
              /\ Finalize(Append(pending, created'), p)
    BY Zenon DEF Settle, pending
  <1>5. then' = p /\ UNCHANGED persisted /\ phase' = IF finalizing' = <<>> THEN p ELSE phase
    BY <1>4 DEF Finalize
  <1>6. created \in 0..MaxMessages /\ role \in [New -> Roles] /\ assistant \in 0..created
        /\ MaxMessages \in Nat
    BY <1>1, TurnAssumption DEF Types
  <1>7. ASSUME assistant = 0
        PROVE  /\ pending \in Seq(Nat) /\ Announced + Len(pending) = created
               /\ \A i \in 1..Len(pending) : pending[i] = Announced + i
    <2>1. CASE reasoning = 0
      <3>1. pending \in Seq(Nat) /\ Len(pending) = 0
        BY <2>1 DEF pending
      <3>2. created = Announced
        BY <1>2, <1>7, <2>1
      <3>3. QED  BY <1>2, <3>1, <3>2
    <2>2. CASE reasoning # 0
      <3>1. pending \in Seq(Nat) /\ Len(pending) = 1 /\ pending[1] = reasoning
        BY <1>2, <1>7, <2>2 DEF pending
      <3>2. reasoning = created /\ created = Announced + 1
        BY <1>2, <1>7, <2>2
      <3>3. QED  BY <1>2, <3>1, <3>2
    <2>3. QED  BY <2>1, <2>2
  <1>8. /\ created' \in created..MaxMessages /\ role' \in [New -> Roles] /\ assistant' \in 0..created'
        /\ finalizing' \in Seq(Nat) /\ Announced + Len(finalizing') = created'
        /\ \A i \in 1..Len(finalizing') : finalizing'[i] = Announced + i
    <2>1. CASE assistant # 0 /\ Finalize(<<assistant>>, p) /\ UNCHANGED <<created, role, assistant>>
      <3>1. finalizing' = <<assistant>> /\ assistant \in Nat
        BY <1>6, <2>1 DEF Finalize
      <3>2. finalizing' \in Seq(Nat) /\ Len(finalizing') = 1 /\ finalizing'[1] = assistant
        BY <3>1
      <3>3. assistant = created /\ created = Announced + 1
        BY <1>2, <2>1
      <3>4. QED  BY <1>2, <1>6, <2>1, <3>2, <3>3
    <2>2. CASE assistant = 0 /\ Finalize(pending, p) /\ UNCHANGED <<created, role, assistant>>
      <3>1. finalizing' = pending
        BY <2>2 DEF Finalize
      <3>2. QED  BY <1>6, <1>7, <2>2, <3>1
    <2>3. CASE /\ assistant = 0 /\ Create("assistant") /\ assistant' = created'
               /\ Finalize(Append(pending, created'), p)
      <3>1. /\ created' = created + 1 /\ created' \in created..MaxMessages /\ created' \in New
            /\ role' \in [New -> Roles]
        BY <2>3, Created DEF Roles
      <3>2. created' \in Nat /\ finalizing' = Append(pending, created')
        BY <1>2, <2>3, <3>1 DEF Finalize
      <3>3. /\ pending \in Seq(Nat) /\ Announced + Len(pending) = created /\ Len(pending) \in Nat
            /\ \A i \in 1..Len(pending) : pending[i] = Announced + i
        BY <1>7, <2>3
      <3>4. /\ finalizing' \in Seq(Nat) /\ Len(finalizing') = Len(pending) + 1
            /\ finalizing'[Len(pending) + 1] = created'
            /\ \A i \in 1..Len(pending) : finalizing'[i] = pending[i]
        BY <3>2, <3>3
      <3>5. ASSUME NEW i \in 1..Len(finalizing') PROVE finalizing'[i] = Announced + i
        <4>1. CASE i \in 1..Len(pending)
          BY <3>3, <3>4, <4>1
        <4>2. CASE i = Len(pending) + 1
          <5>1. Announced + (Len(pending) + 1) = created'
            BY <1>2, <3>1, <3>3
          <5>2. QED  BY <3>4, <4>2, <5>1
        <4>3. QED  BY <3>3, <3>4, <4>1, <4>2
      <3>6. Announced + Len(finalizing') = created' /\ assistant' \in 0..created'
        BY <1>2, <2>3, <3>1, <3>2, <3>3, <3>4
      <3>7. QED  BY <3>1, <3>4, <3>5, <3>6
    <2>4. QED  BY <1>4, <2>1, <2>2, <2>3
  <1>9. QED  BY <1>2, <1>3, <1>5, <1>8, HandOverInv

LEMMA StreamEndInv == ASSUME IInv, StreamStops \/ StreamAsksForTools PROVE IInv'
  <1>1. CASE StreamStops
    <2>1. Streaming /\ Settle("leaving", 0)
      BY <1>1 DEF StreamStops, Streaming
    <2>2. QED  BY <2>1, SettleInv
  <1>2. CASE StreamAsksForTools
    <2>1. PICK n \in 1..2 : Settle("tools", n)
      BY <1>2 DEF StreamAsksForTools
    <2>2. Streaming /\ n \in 0..2
      BY <1>2 DEF StreamAsksForTools, Streaming
    <2>3. QED  BY <2>1, <2>2, SettleInv
  <1>3. QED  BY <1>1, <1>2

-----------------------------------------------------------------------------
(* The turn                                                                *)

LEMMA TurnInv == ASSUME IInv, [Next]_coreVars PROVE IInv'
  <1>1. CASE Start \/ DeleteTurn \/ BeginTurn
    BY <1>1, StartInv, DeleteTurnInv, BeginTurnInv
  <1>2. CASE Filter \/ EnterLoop \/ Hop \/ LeaveLoop \/ NextHop
    BY <1>2, FilterInv, BetweenSteps
  <1>3. CASE Persist \/ Announce \/ PersistFails \/ MemoryFilterRetries
    BY <1>3, PersistInv, AnnounceInv, PersistFailsInv, MemoryFilterRetriesInv
  <1>4. CASE ReasoningDelta \/ FirstContent \/ ContentDelta \/ Flush
    BY <1>4, ReasoningDeltaInv, FirstContentInv, ContentDeltaInv, FlushInv
  <1>5. CASE StreamStops \/ StreamAsksForTools
    BY <1>5, StreamEndInv
  <1>6. CASE BeginCall \/ Display \/ EndCall
    BY <1>6, BeginCallInv, DisplayInv, EndCallInv
  <1>7. CASE Handlers
    BY <1>7, InterruptInv, CancelInv, ResubscribeInv, PostUserInv DEF Handlers
  <1>8. CASE UNCHANGED coreVars
    <2>1. aborted' \in BOOLEAN /\ cancelled' \subseteq 1..created /\ role' \in [New -> Roles]
      BY <1>8 DEF coreVars, IInv, Types
    <2>2. QED
      BY <1>8, <2>1, HandlerInv DEF coreVars, textVars, writerVars, streamVars, toolVars
  <1>9. QED
    BY <1>1, <1>2, <1>3, <1>4, <1>5, <1>6, <1>7, <1>8 DEF Next, TurnStep

\* What the invariant says of a state.
LEMMA InvImplies ==
  ASSUME IInv
  PROVE  DurableOrder /\ CatchUpComplete /\ ReplayPlaceable /\ NothingLost
  <1>1. Types /\ Opening /\ Stages /\ Numbered /\ InHand /\ Catching /\ Texts /\ Block
    BY DEF IInv
  <1>2. /\ Announced \in Nat /\ Stored \in Nat /\ Claimed \in Nat /\ created \in Nat
        /\ Len(finalizing) \in Nat /\ Announced <= Stored /\ (Busy <=> Len(finalizing) > 0)
        /\ Claimed = Announced + Len(finalizing)
        /\ Stored = Announced + (IF persisted THEN 1 ELSE 0)
    BY <1>1, Counts
  <1>3. \A m \in bornIds : m \in 1..created /\ m \in New /\ m \in Nat
    <2>1. created \in 0..MaxMessages /\ MaxMessages \in Nat /\ bornIds \subseteq 1..created
      BY <1>1, TurnAssumption DEF Types
    <2>2. QED  BY <2>1 DEF New
  <1>4. TypeOK
    <2>1. ToSet(doc) \subseteq Msgs
      BY <1>1 DEF Types, ToSet
    <2>2. ToSet(finalizing) \subseteq 1..created
      <3>1. \A i \in 1..Len(finalizing) : finalizing[i] \in 1..created
        BY <1>1, <1>2 DEF Numbered
      <3>2. DOMAIN finalizing = 1..Len(finalizing)
        BY <1>1 DEF Types
      <3>3. QED  BY <3>1, <3>2 DEF ToSet
    <2>3. QED  BY <1>1, <2>1, <2>2 DEF Types, TypeOK, Msgs, Phases, Roles
  <1>5. CatchUpComplete
    BY <1>1, <1>2, <1>3 DEF CatchUpComplete, Catching, Numbered
  <1>6. ReplayPlaceable
    BY <1>1 DEF ReplayPlaceable, Catching
  <1>7. NothingLost
    <2>1. ASSUME NEW m \in New, m \in ToSet(doc) PROVE flushed[m] = text[m]
      <3>1. m \in Nat /\ m <= Stored
        BY <1>1, <2>1 DEF Numbered, New
      <3>2. SUFFICES ASSUME flushed[m] # text[m] PROVE FALSE
        OBVIOUS
      <3>3. Streaming /\ m = created /\ m \in {reasoning, assistant}
        BY <1>1, <3>2 DEF Texts
      <3>4. ~persisted /\ Stored = Announced
        BY <1>1, <1>2, <3>3 DEF Stages, Streaming
      <3>5. m # 0 /\ ((reasoning = 0 /\ assistant = 0) \/ created = Announced + 1)
        BY <2>1, <3>3, InStream DEF New
      <3>6. QED  BY <1>2, <3>1, <3>3, <3>4, <3>5
    <2>2. ASSUME phase = "ended"
          PROVE  DOMAIN live = {} /\ \A m \in 1..created : m \in ToSet(doc)
      <3>1. ~Busy /\ ~persisted /\ created = Claimed
        BY <1>1, <2>2 DEF Stages, InHand, Streaming, Appending, Calling
      <3>2. created = Announced /\ Stored = Announced
        BY <1>2, <3>1
      <3>3. DOMAIN live = {}
        BY <1>1, <1>2, <1>3, <3>2 DEF Catching
      <3>4. \A m \in 1..created : m \in New /\ m <= Stored
        BY <1>1, <1>2, <3>2, TurnAssumption DEF Types, New
      <3>5. QED  BY <1>1, <3>3, <3>4 DEF Numbered
    <2>3. QED  BY <2>1, <2>2 DEF NothingLost
  <1>8. DurableOrder
    <2>1. Len(doc) \in Nat
      BY <1>1 DEF Types
    <2>2. ASSUME NEW i \in 1..Len(doc), doc[i] \in New
          PROVE  /\ i > 1
                 /\ \/ doc[i - 1] \in New /\ doc[i - 1] < doc[i]
                    \/ /\ doc[i - 1] \in Anchors
                       /\ \A j \in 1..Len(doc) : doc[j] \in New => j >= i
      <3>1. i > 1 /\ IF doc[i] = 1 THEN doc[i - 1] \in Anchors ELSE doc[i - 1] = doc[i] - 1
        BY <1>1, <2>2 DEF Block
      <3>2. CASE doc[i] = 1
        <4>1. ASSUME NEW j \in 1..Len(doc), doc[j] \in New PROVE j >= i
          <5>1. doc[i] - i = doc[j] - j /\ doc[j] \in Nat /\ doc[j] >= 1
            BY <1>1, <2>2, <4>1 DEF Block, New
          <5>2. QED  BY <2>1, <3>2, <5>1
        <4>2. QED  BY <3>1, <3>2, <4>1
      <3>3. CASE doc[i] # 1
        <4>1. doc[i] - 1 \in New /\ doc[i] - 1 < doc[i]
          BY <2>2, <3>3, TurnAssumption DEF New
        <4>2. QED  BY <3>1, <3>3, <4>1
      <3>4. QED  BY <3>2, <3>3
    <2>3. QED  BY <1>4, <2>2 DEF DurableOrder, Anchors
  <1>9. QED  BY <1>5, <1>6, <1>7, <1>8

LEMMA Invariance == Spec => []IInv
  <1>1. ASSUME IInv, [Next]_vars PROVE IInv'
    <2>1. CASE Next
      BY <1>1, <2>1, TurnInv
    <2>2. CASE UNCHANGED vars
      BY <1>1, <2>2, TurnInv DEF vars
    <2>3. QED  BY <1>1, <2>1, <2>2
  <1>2. QED  BY InitInv, <1>1, PTL DEF Spec

\* A turn's messages are stored in one block behind the user message they answer, in
\* the order they appeared, for any number of messages and hops, whatever is posted
\* or interrupted meanwhile (finalize() of TurnWriter, insertMessageAfter()).
THEOREM StoredInOrder == Spec => []DurableOrder
  BY Invariance, InvImplies, PTL

\* Whoever subscribes, at whatever await of the turn, is told of every message that
\* was announced to the others: it is stored, or in the catch-up buffer (resubscribe()).
THEOREM CatchUpIsComplete == Spec => []CatchUpComplete
  BY Invariance, InvImplies, PTL

\* And can place it: what it goes behind is stored or replayed before it (born()).
THEOREM ReplayIsPlaceable == Spec => []ReplayPlaceable
  BY Invariance, InvImplies, PTL

\* No delta of the provider is lost, however the turn ends: what is stored is whole, and
\* a turn that ended stored all that it created (appendContent(), run()'s hop loop).
THEOREM NothingEverLost == Spec => []NothingLost
  BY Invariance, InvImplies, PTL

-----------------------------------------------------------------------------
(* The turn with its client: ChatResume                                    *)

\* The socket and the client only ever make the turn do what it does alone: a cancel
\* frame for whatever bubble is the cancel of some message.
LEMMA ClientStep == ASSUME IInv, [ClientNext]_allVars PROVE [Next]_vars
  <1>1. 1 \in New
    BY TurnAssumption DEF New
  <1>2. CASE CoreRuns
    BY <1>2 DEF CoreRuns, Next
  <1>3. CASE CoreReceives
    <2>1. PICK f : Start \/ Interrupt \/ Cancel(f) \/ Resubscribe
      BY <1>3 DEF CoreReceives
    <2>2. CASE Cancel(f)
      <3>1. Calling => tool \in New
        <4>1. Types /\ InHand
          BY DEF IInv
        <4>2. Calling => tool \in 1..created
          BY <4>1, Counts DEF InHand
        <4>3. created \in 0..MaxMessages /\ MaxMessages \in Nat
          BY <4>1, TurnAssumption DEF Types
        <4>4. QED  BY <4>2, <4>3 DEF New
      <3>2. Cancel(1) \/ (f \in New /\ Cancel(f))
        BY <2>2, <3>1 DEF Cancel, Calling
      <3>3. QED  BY <1>1, <3>2 DEF Next, Handlers
    <2>3. QED  BY <2>1, <2>2 DEF Next, TurnStep, Handlers
  <1>4. CASE StorePost
    BY <1>4 DEF StorePost, Next, Handlers
  <1>5. CASE UNCHANGED vars
    BY <1>5
  <1>6. CASE OnFrame \/ UserStops \/ UserPosts \/ Disconnect \/ Reconnect
             \/ \E i \in Loads : ServeGet(i) \/ Hydrate(i)
    BY <1>5, <1>6 DEF OnFrame, UserStops, UserPosts, Disconnect, Reconnect, ServeGet,
       Hydrate
  <1>7. CASE UNCHANGED allVars
    BY <1>5, <1>7 DEF allVars
  <1>8. QED  BY <1>2, <1>3, <1>4, <1>6, <1>7 DEF ClientNext

LEMMA ClientInvariance == ClientSpec => []IInv
  <1>1. ClientInit => IInv
    BY InitInv DEF ClientInit
  <1>2. ASSUME IInv, [ClientNext]_allVars PROVE IInv'
    <2>1. [Next]_vars
      BY <1>2, ClientStep
    <2>2. [Next]_coreVars
      BY <2>1 DEF vars
    <2>3. QED  BY <1>2, <2>2, TurnInv
  <1>3. QED  BY <1>1, <1>2, PTL DEF ClientSpec

\* The turn watched by its client, with dropped sockets, reloads, stops and further
\* messages, is still the turn: ChatResume implements ChatTurn.
THEOREM TurnImplemented == ClientSpec => Spec
  <1>1. ClientInit => Init
    BY DEF ClientInit
  <1>2. IInv /\ [ClientNext]_allVars => [Next]_vars
    BY ClientStep
  <1>3. QED  BY <1>1, <1>2, ClientInvariance, PTL DEF ClientSpec, Spec

\* So what was proved of the turn alone holds of it there.
THEOREM TurnKeepsItsPromises ==
  ClientSpec => [](DurableOrder /\ CatchUpComplete /\ ReplayPlaceable /\ NothingLost)
  BY ClientInvariance, InvImplies, PTL

-----------------------------------------------------------------------------
(* What the client is told                                                 *)

\* What is on its way to the client, and what the client asks for.
Frames ==
    [kind : {"message"}, id : New, after : Msgs \cup {None}, final : BOOLEAN, text : 0..MaxText]
        \cup [kind : {"delta"}, id : New, n : 0..MaxText]
        \cup [kind : {"deleted"}, id : {OldReply}] \cup [kind : {"end"}]
Requests == [kind : {"start", "interrupt", "subscribe"}] \cup [kind : {"cancel"}, id : New]

Carries(f, m) == f.kind = "message" /\ f.id = m
Adds(f, m) == f.kind = "delta" /\ f.id = m

\* Text of m: lev[i] is what was flushed of it when the i-th frame of q was sent.
Levels(q, m, lev) ==
    /\ lev \in [0..Len(q) -> 0..MaxText]
    /\ \A i \in 1..Len(q) :
         lev[i] = lev[i - 1] + (IF Adds(q[i], m) THEN q[i].n ELSE 0)
           /\ (Carries(q[i], m) => q[i].text = lev[i])

\* Where the level is not yet what it will be, the whole message is still to come.
Settles(q, m, lev) ==
    \A i \in 0..Len(q) : lev[i] = lev[Len(q)] \/ \E j \in (i + 1)..Len(q) : Carries(q[j], m)

\* The messages known to who heard everything: the first Known. They are those that
\* were announced, in some state of completion.
Known == IF liveCursor \in New THEN liveCursor ELSE 0
Growing == Streaming \/ Calling \/ Appending
Told ==
    /\ Known \in Announced..created
    /\ \A m \in New : m <= Known <=> m <= Announced \/ m \in bornIds
    /\ Growing => Known = created

\* Where the turn hangs: behind the anchor, or behind a message posted before it began.
Base(p) == IF p = 1 THEN Anchor ELSE LateUser

\* The messages that are not the turn's, and 1 to k spliced in behind the p-th.
Others == IF Regenerate THEN <<Anchor, NewerUser>> ELSE <<Anchor>>
StoredOthers == IF LateUser \in ToSet(doc) THEN Append(Others, LateUser) ELSE Others
Spliced(us, p, k) ==
    [i \in 1..(Len(us) + k) |-> IF i <= p THEN us[i] ELSE IF i <= p + k THEN i - p ELSE us[i - k]]

\* Where the writer is: nowhere, or at the end of the messages it has stored.
Unseated == phase = "deleted" => doc = StoredOthers
Seated(p) ==
    /\ p = 2 => ~Regenerate /\ LateUser \in ToSet(doc)
    /\ doc = Spliced(StoredOthers, p, Stored)
    /\ cursor = IF Announced = 0 THEN Base(p) ELSE Announced
    /\ liveCursor = IF Known = 0 THEN Base(p) ELSE Known

\* The turn's messages arrive in their order, each to go behind the one before:
\* seen[i] of them are on screen once the i-th frame of q has come.
Arriving(q, p, seen) ==
    /\ seen \in [0..Len(q) -> 0..MaxMessages]
    /\ \A i \in 1..Len(q) :
         \/ /\ q[i].kind = "message" /\ seen[i] = seen[i - 1] + 1 /\ q[i].id = seen[i]
            /\ q[i].after = IF seen[i] = 1 THEN Base(p) ELSE seen[i - 1]
         \/ /\ seen[i] = seen[i - 1]
            /\ q[i].kind \in {"message", "delta"} => q[i].id <= seen[i]

\* q brings what is on screen from the first k to the first l.
Arrives(q, p, k, l) ==
    \E seen \in [0..Len(q) -> 0..MaxMessages] :
        Arriving(q, p, seen) /\ seen[0] = k /\ seen[Len(q)] = l

-----------------------------------------------------------------------------
(* Queues of frames                                                        *)

\* Frames put behind others.
LEMMA PutBehind ==
  ASSUME NEW S, NEW q \in Seq(S), NEW t \in Seq(S)
  PROVE  /\ q \o t \in Seq(S) /\ Len(q \o t) = Len(q) + Len(t)
         /\ Len(q) \in Nat /\ Len(t) \in Nat
         /\ \A i \in 1..Len(q) : (q \o t)[i] = q[i]
         /\ \A i \in 1..Len(t) : (q \o t)[Len(q) + i] = t[i]
         /\ \A i \in 1..(Len(q) + Len(t)) : IF i <= Len(q) THEN i \in 1..Len(q)
                                            ELSE i - Len(q) \in 1..Len(t)
         /\ \A i \in 1..(Len(q) + Len(t)) :
              (q \o t)[i] = IF i <= Len(q) THEN q[i] ELSE t[i - Len(q)]
  <1>1. Len(q) \in Nat /\ Len(t) \in Nat
    OBVIOUS
  <1>2. /\ q \o t \in Seq(S) /\ Len(q \o t) = Len(q) + Len(t)
        /\ \A i \in 1..(Len(q) + Len(t)) :
              (q \o t)[i] = IF i <= Len(q) THEN q[i] ELSE t[i - Len(q)]
    BY ConcatProperties, Zenon
  <1>3. \A i \in 1..Len(q) : (q \o t)[i] = q[i]
    BY <1>1, <1>2
  <1>4. \A i \in 1..Len(t) : (q \o t)[Len(q) + i] = t[i]
    <2> TAKE i \in 1..Len(t)
    <2>1. /\ Len(q) + i \in 1..(Len(q) + Len(t)) /\ ~(Len(q) + i <= Len(q))
          /\ (Len(q) + i) - Len(q) = i
      BY <1>1
    <2>2. QED  BY <1>2, <2>1
  <1>5. \A i \in 1..(Len(q) + Len(t)) : IF i <= Len(q) THEN i \in 1..Len(q)
                                        ELSE i - Len(q) \in 1..Len(t)
    BY <1>1
  <1>6. QED  BY <1>1, <1>2, <1>3, <1>4, <1>5

\* The first frame taken off.
LEMMA TakenOff ==
  ASSUME NEW S, NEW q \in Seq(S), q # <<>>
  PROVE  /\ Head(q) = q[1] /\ Head(q) \in S /\ Len(q) \in Nat \ {0} /\ 1 \in 1..Len(q)
         /\ Tail(q) \in Seq(S) /\ Len(Tail(q)) = Len(q) - 1
         /\ \A i \in 1..Len(Tail(q)) : Tail(q)[i] = q[i + 1] /\ i + 1 \in 1..Len(q)
         /\ \A i \in 1..Len(q) : i > 1 => i - 1 \in 1..Len(Tail(q)) /\ Tail(q)[i - 1] = q[i]
  <1> DEFINE t == Tail(q)
             n == Len(t)
  <1>1. /\ Head(q) = q[1] /\ Head(q) \in S /\ Len(q) \in Nat \ {0}
        /\ t \in Seq(S) /\ n = Len(q) - 1
    <2>1. Len(q) \in Nat \ {0}
      BY EmptySeq
    <2>2. Head(q) = q[1]
      OBVIOUS
    <2>3. QED  BY <2>1, <2>2, HeadTailProperties
  <1>2. \A i \in 1..n : t[i] = q[i + 1]
    BY HeadTailProperties
  <1> HIDE DEF t, n
  <1>3. \A i \in 1..n : i + 1 \in 1..Len(q)
    BY <1>1
  <1>4. \A i \in 1..Len(q) : i > 1 => i - 1 \in 1..n /\ t[i - 1] = q[i]
    <2> SUFFICES ASSUME NEW i \in 1..Len(q), i > 1 PROVE i - 1 \in 1..n /\ t[i - 1] = q[i]
      OBVIOUS
    <2>1. i - 1 \in 1..n /\ (i - 1) + 1 = i
      BY <1>1
    <2>2. QED  BY <1>2, <2>1
  <1>5. 1 \in 1..Len(q)
    BY <1>1
  <1>6. QED  BY <1>1, <1>2, <1>3, <1>4, <1>5 DEF t, n

\* Levels that go on where others end.
Joined(q, t, a, b) ==
    [i \in 0..(Len(q) + Len(t)) |-> IF i <= Len(q) THEN a[i] ELSE b[i - Len(q)]]

\* It has the values of both.
LEMMA JoinedLevels ==
  ASSUME NEW S, NEW l \in Nat, NEW k \in Nat, NEW a \in [0..l -> S], NEW b \in [0..k -> S],
         NEW q, NEW t, Len(q) = l, Len(t) = k, a[l] = b[0]
  PROVE  /\ Joined(q, t, a, b) \in [0..(l + k) -> S]
         /\ \A i \in 0..l : Joined(q, t, a, b)[i] = a[i]
         /\ \A j \in 0..k : Joined(q, t, a, b)[l + j] = b[j]
  <1> DEFINE x == Joined(q, t, a, b)
  <1>1. x = [i \in 0..(l + k) |-> IF i <= l THEN a[i] ELSE b[i - l]]
    BY DEF Joined
  <1> HIDE DEF x
  <1>2. \A i \in 0..(l + k) : IF i <= l THEN i \in 0..l ELSE i - l \in 0..k
    OBVIOUS
  <1>3. x \in [0..(l + k) -> S]
    BY <1>1, <1>2
  <1>4. \A i \in 0..l : x[i] = a[i]
    BY <1>1
  <1>5. ASSUME NEW j \in 0..k PROVE x[l + j] = b[j]
    <2>1. CASE j = 0
      <3>1. l + j = l /\ l \in 0..l
        BY <2>1
      <3>2. QED  BY <1>4, <2>1, <3>1
    <2>2. CASE j # 0
      <3>1. l + j \in 0..(l + k) /\ ~(l + j <= l) /\ (l + j) - l = j
        BY <2>2
      <3>2. QED  BY <1>1, <3>1
    <2>3. QED  BY <2>1, <2>2
  <1>6. QED  BY <1>3, <1>4, <1>5 DEF x

\* Levels along t go on from those along q.
LEMMA LevelsBehind ==
  ASSUME NEW q \in Seq(Frames), NEW t \in Seq(Frames), NEW m, NEW a, NEW b,
         Levels(q, m, a), Levels(t, m, b), a[Len(q)] = b[0]
  PROVE  \E lev \in [0..Len(q \o t) -> 0..MaxText] :
            /\ Levels(q \o t, m, lev) /\ lev[0] = a[0] /\ lev[Len(q \o t)] = b[Len(t)]
            /\ Settles(t, m, b) /\ (Settles(q, m, a) \/ \E j \in 1..Len(t) : Carries(t[j], m))
                 => Settles(q \o t, m, lev)
  <1> DEFINE x == q \o t
             l == Len(q)
             k == Len(t)
             lev == Joined(q, t, a, b)
  <1>1. /\ Len(x) = l + k /\ l \in Nat /\ k \in Nat
        /\ \A i \in 1..l : x[i] = q[i]
        /\ \A i \in 1..k : x[l + i] = t[i]
    BY PutBehind
  <1>2. /\ a \in [0..l -> 0..MaxText] /\ b \in [0..k -> 0..MaxText]
        /\ \A i \in 1..l : /\ a[i] = a[i - 1] + (IF Adds(q[i], m) THEN q[i].n ELSE 0)
                           /\ Carries(q[i], m) => q[i].text = a[i]
        /\ \A i \in 1..k : /\ b[i] = b[i - 1] + (IF Adds(t[i], m) THEN t[i].n ELSE 0)
                           /\ Carries(t[i], m) => t[i].text = b[i]
    BY DEF Levels
  <1>3. /\ lev \in [0..(l + k) -> 0..MaxText]
        /\ \A i \in 0..l : lev[i] = a[i]
        /\ \A j \in 0..k : lev[l + j] = b[j]
    <2> DEFINE S == 0..MaxText
    <2>1. /\ a[l] = b[0] /\ Len(q) = l /\ Len(t) = k /\ l \in Nat /\ k \in Nat
          /\ a \in [0..l -> S] /\ b \in [0..k -> S]
      BY <1>1, <1>2
    <2> HIDE DEF l, k, S
    <2>2. /\ lev \in [0..(l + k) -> S]
          /\ \A i \in 0..l : lev[i] = a[i]
          /\ \A j \in 0..k : lev[l + j] = b[j]
      BY <2>1, JoinedLevels, SMTT(30)
    <2>3. QED  BY <2>2 DEF S
  <1> HIDE DEF x, lev, l, k
  <1>4. lev[0] = a[0] /\ lev[Len(x)] = b[k]
    <2>1. 0 \in 0..l /\ k \in 0..k
      BY <1>1
    <2>2. QED  BY <1>1, <1>3, <2>1
  <1>5. ASSUME NEW i \in 1..Len(x)
        PROVE  /\ lev[i] = lev[i - 1] + (IF Adds(x[i], m) THEN x[i].n ELSE 0)
               /\ Carries(x[i], m) => x[i].text = lev[i]
    <2>1. CASE i <= l
      <3>1. i \in 1..l /\ i \in 0..l /\ i - 1 \in 0..l
        BY <1>1, <2>1
      <3>2. lev[i] = a[i] /\ lev[i - 1] = a[i - 1] /\ x[i] = q[i]
        BY <1>1, <1>3, <3>1
      <3>3. QED  BY <1>2, <3>1, <3>2
    <2>2. CASE ~(i <= l)
      <3>1. PICK j \in 1..k : i = l + j
        <4>1. i - l \in 1..k /\ l + (i - l) = i
          BY <1>1, <2>2
        <4>2. QED  BY <4>1
      <3>2. j \in 0..k /\ j - 1 \in 0..k /\ i - 1 = l + (j - 1)
        BY <1>1, <3>1
      <3>3. lev[i] = b[j] /\ lev[i - 1] = b[j - 1] /\ x[i] = t[j]
        BY <1>1, <1>3, <3>1, <3>2
      <3>4. QED  BY <1>2, <3>1, <3>3
    <2>3. QED  BY <2>1, <2>2
  <1>6. Levels(x, m, lev)
    BY <1>1, <1>3, <1>5 DEF Levels
  <1>7. ASSUME Settles(t, m, b), Settles(q, m, a) \/ \E j \in 1..k : Carries(t[j], m),
               NEW i \in 0..Len(x)
        PROVE  lev[i] = lev[Len(x)] \/ \E j \in (i + 1)..Len(x) : Carries(x[j], m)
    <2>1. ASSUME NEW h \in 0..k, NEW j \in (h + 1)..k, Carries(t[j], m), i <= l + h
          PROVE  \E g \in (i + 1)..Len(x) : Carries(x[g], m)
      <3>1. l + j \in (i + 1)..Len(x) /\ j \in 1..k
        BY <1>1, <1>7, <2>1
      <3>2. QED  BY <1>1, <2>1, <3>1
    <2>2. \A h \in 0..k : b[h] = b[k] \/ \E j \in (h + 1)..k : Carries(t[j], m)
      BY <1>7 DEF Settles, k
    <2>3. 0 \in 0..k /\ k \in 0..k /\ 0 + 1 = 1 /\ l + 0 = l /\ l \in 0..l
      BY <1>1
    <2>4. CASE i <= l
      <3>1. i \in 0..l
        BY <1>1, <2>4
      <3>2. CASE \E j \in 1..k : Carries(t[j], m)
        BY <2>1, <2>3, <2>4, <3>2
      <3>3. CASE Settles(q, m, a)
        <4>1. a[i] = a[l] \/ \E j \in (i + 1)..l : Carries(q[j], m)
          BY <3>1, <3>3 DEF Settles, l
        <4>2. CASE \E j \in (i + 1)..l : Carries(q[j], m)
          <5>1. PICK j \in (i + 1)..l : Carries(q[j], m)
            BY <4>2
          <5>2. j \in 1..l /\ j \in (i + 1)..Len(x)
            BY <1>1, <3>1
          <5>3. QED  BY <1>1, <5>1, <5>2
        <4>3. CASE a[i] = a[l]
          <5>1. lev[i] = b[0]
            BY <1>3, <3>1, <4>3 DEF l
          <5>2. CASE b[0] = b[k]
            BY <1>4, <5>1, <5>2
          <5>3. CASE \E j \in 1..k : Carries(t[j], m)
            BY <2>1, <2>3, <2>4, <5>3
          <5>4. QED  BY <2>2, <2>3, <5>2, <5>3
        <4>4. QED  BY <4>1, <4>2, <4>3
      <3>4. QED  BY <1>7, <3>2, <3>3
    <2>5. CASE ~(i <= l)
      <3>1. PICK h \in 0..k : i = l + h
        <4>1. i - l \in 0..k /\ l + (i - l) = i
          BY <1>1, <2>5
        <4>2. QED  BY <4>1
      <3>2. lev[i] = b[h]
        BY <1>3, <3>1
      <3>3. CASE b[h] = b[k]
        BY <1>4, <3>2, <3>3
      <3>4. CASE \E j \in (h + 1)..k : Carries(t[j], m)
        <4>1. i <= l + h
          BY <1>1, <3>1
        <4>2. QED  BY <2>1, <3>4, <4>1
      <3>5. QED  BY <2>2, <3>3, <3>4
    <2>6. QED  BY <2>4, <2>5
  <1>8. Settles(t, m, b) /\ (Settles(q, m, a) \/ \E j \in 1..k : Carries(t[j], m))
          => Settles(x, m, lev)
    BY <1>7 DEF Settles
  <1>9. lev \in [0..Len(x) -> 0..MaxText]
    BY <1>1, <1>3
  <1>10. QED  BY <1>4, <1>6, <1>8, <1>9 DEF x, k

-----------------------------------------------------------------------------
(* The steps of a turn by what they tell                                   *)

\* Nothing about a message, though perhaps that the turn is over.
Quiet ==
    /\ UNCHANGED <<doc, cursor, liveCursor, bornIds, live, flushed, persisted>>
    /\ created <= created'
    /\ Growing' => (Growing /\ created' = created) \/ created' = Announced
    /\ sent' = <<>> \/ (sent' = <<[kind |-> "end"]>> /\ Over')

\* The deltas that were pending.
Flushes ==
    /\ Streaming /\ sent' = FlushFrames /\ flushed' = Flushed
    /\ UNCHANGED <<doc, cursor, liveCursor, bornIds, live, persisted>>
    /\ created <= created'
    /\ Growing' => created' = created

\* A new message, and then perhaps the deltas that were pending.
Appears ==
    /\ Begun /\ created' = created + 1 /\ created' \in New /\ Born(created')
    /\ Growing \/ created = Announced
    /\ UNCHANGED <<doc, cursor, persisted>>
    /\ LET s == Snapshot(created', liveCursor, FALSE)
       IN  \/ sent' = <<s>> /\ flushed' = flushed
           \/ Streaming /\ sent' = <<s>> \o FlushFrames /\ flushed' = Flushed

\* Before a turn begins nothing is told of it.
LEMMA NotBegun ==
  ASSUME IInv, ~Begun
  PROVE  /\ DOMAIN live = {} /\ bornIds = {} /\ created = 0 /\ Announced = 0 /\ Stored = 0
         /\ ~Busy /\ ~persisted /\ ~Streaming /\ ~Calling /\ ~Appending /\ ~Over
  <1>1. created = 0 /\ finalizing = <<>> /\ cursor = None /\ None \notin New /\ ~Busy
    BY MessageAssumption DEF IInv, Opening, Busy
  <1>2. persisted = FALSE /\ bornIds = {}
    BY <1>1 DEF IInv, Stages, Types
  <1>3. Announced = 0 /\ Stored = 0
    BY <1>1, <1>2 DEF Announced, Stored
  <1>4. DOMAIN live = {}
    BY <1>2 DEF IInv, Catching
  <1>5. ~Streaming /\ ~Calling /\ ~Appending /\ ~Over
    BY <1>1 DEF Streaming, Calling, Appending, Begun, Over
  <1>6. QED  BY <1>1, <1>2, <1>3, <1>4, <1>5

\* Before the turn begins nothing is sent.
LEMMA BeforeTurn ==
  ASSUME IInv, ~Begun, Next
  PROVE  (~Begun' /\ sent' = <<>>) \/ BeginTurn
  <1>1. ~Busy /\ phase \in {"idle", "setup", "deleted"}
    BY NotBegun DEF Begun
  <1>2. Start \/ DeleteTurn \/ BeginTurn \/ Handlers
    BY <1>1 DEF Next, TurnStep, Filter, EnterLoop, Persist, Announce, PersistFails,
       MemoryFilterRetries, Hop, ReasoningDelta, FirstContent, ContentDelta, Flush, StreamStops, StreamAsksForTools,
       BeginCall, Display, EndCall, NextHop, LeaveLoop
  <1>3. CASE Start \/ DeleteTurn
    BY <1>3 DEF Start, DeleteTurn, Begun
  <1>4. CASE Resubscribe
    <2>1. sent' = <<>>
      <3>1. CASE ~Active
        BY <1>4, <3>1 DEF Resubscribe
      <3>2. CASE Active
        <4> DEFINE ms == Ordered(DOMAIN live)
                   C(s) == /\ s \in [1..0 -> {}]
                           /\ \A i, j \in DOMAIN s : i < j => s[i] < s[j]
        <4>1. DOMAIN live = {} /\ Cardinality({}) = 0
          BY NotBegun, FS_EmptySet
        <4>2. ms = CHOOSE s \in [1..0 -> {}] : \A i, j \in DOMAIN s : i < j => s[i] < s[j]
          BY <4>1 DEF Ordered
        <4>3. <<>> \in [1..0 -> {}] /\ \A i, j \in DOMAIN <<>> : i < j => <<>>[i] < <<>>[j]
          OBVIOUS
        <4> HIDE DEF ms
        <4>4. ms \in [1..0 -> {}]
          BY <4>2, <4>3
        <4>5. DOMAIN ms = {}
          BY <4>4
        <4>6. sent' = [i \in DOMAIN ms |-> Snapshot(ms[i], live[ms[i]], FALSE)]
          BY <1>4, <3>2 DEF Resubscribe, ms
        <4>7. QED  BY <4>5, <4>6
      <3>3. QED  BY <3>1, <3>2
    <2>2. QED  BY <1>4, <2>1 DEF Resubscribe, coreVars, Begun
  <1>5. CASE Interrupt \/ (\E m \in New : Cancel(m)) \/ PostUser
    BY <1>5 DEF Interrupt, Cancel, PostUser, Begun
  <1>6. QED  BY <1>2, <1>3, <1>4, <1>5 DEF Handlers

\* When it is over nothing more is.
LEMMA OverStays ==
  ASSUME IInv, Over, Next
  PROVE  phase' = phase /\ Over' /\ sent' = <<>>
  <1>1. ~Busy /\ phase \in {"ended", "crashed"}
    BY DEF IInv, Stages, Over
  <1>2. Handlers
    BY <1>1 DEF Next, TurnStep, Start, DeleteTurn, BeginTurn, Filter, EnterLoop, Persist,
       Announce,
       PersistFails, MemoryFilterRetries, Hop, ReasoningDelta, FirstContent, ContentDelta, Flush,
       StreamStops, StreamAsksForTools, BeginCall, Display, EndCall, NextHop, LeaveLoop
  <1>3. CASE Resubscribe
    BY <1>1, <1>3 DEF Resubscribe, Active, coreVars, Over
  <1>4. CASE Interrupt \/ (\E m \in New : Cancel(m)) \/ PostUser
    BY <1>1, <1>4 DEF Interrupt, Cancel, PostUser, Over
  <1>5. QED  BY <1>2, <1>3, <1>4 DEF Handlers

\* A step that says nothing of a message.
LEMMA QuietSteps ==
  ASSUME IInv,
         \/ Start \/ EnterLoop \/ Hop \/ NextHop \/ Filter \/ EndCall \/ ContentDelta
         \/ LeaveLoop \/ PersistFails \/ MemoryFilterRetries \/ Interrupt \/ (\E m \in New : Cancel(m))
         \/ ReasoningDelta /\ reasoning # 0
  PROVE  Quiet
  <1>1. Types /\ InHand /\ Stages
    BY DEF IInv
  <1>2. created \in Nat /\ created <= created /\ created <= created + 1
    BY <1>1, Counts
  <1>3. CASE Start \/ EnterLoop \/ NextHop
    BY <1>2, <1>3 DEF Start, EnterLoop, NextHop, Quiet, textVars, writerVars, Growing,
       Streaming,
       Calling, Appending, Busy
  <1>4. CASE Hop
    <2>1. ~Busy /\ phase = "hop"
      BY <1>1, <1>4 DEF Hop, Stages
    <2>2. created = Announced
      BY <1>1, <2>1, Counts DEF InHand, Streaming, Calling, Appending
    <2>3. QED  BY <1>2, <1>4, <2>2 DEF Hop, Quiet, textVars, writerVars
  <1>5. CASE Filter
    <2>1. /\ finalizing' = <<created'>> /\ then' = "filters" /\ phase = "filters"
          /\ created' = created + 1 /\ phase' = "filters" /\ sent' = <<>>
          /\ UNCHANGED <<doc, cursor, liveCursor, bornIds, live, flushed, persisted>>
      BY <1>5 DEF Filter, Finalize, Create, textVars, writerVars
    <2>2. ~Growing'
      BY <2>1 DEF Growing, Streaming, Calling, Appending
    <2>3. QED  BY <1>2, <2>1, <2>2 DEF Quiet
  <1>6. CASE EndCall
    <2>1. /\ finalizing' = <<tool>> \o displays /\ then' = "tools" /\ phase = "running"
          /\ phase' = (IF finalizing' = <<>> THEN "tools" ELSE phase) /\ sent' = <<>>
          /\ UNCHANGED <<doc, cursor, liveCursor, bornIds, live, flushed, persisted, created>>
      BY <1>6 DEF EndCall, Finalize, textVars, writerVars
    <2>2. ~Growing'
      BY <2>1 DEF Growing, Streaming, Calling, Appending, Busy
    <2>3. QED  BY <1>2, <2>1, <2>2 DEF Quiet
  <1>7. CASE ContentDelta
    <2>1. ~Busy /\ phase \in {"append", "streaming"} /\ created' = created /\ sent' = <<>>
          /\ UNCHANGED <<doc, cursor, liveCursor, bornIds, live, flushed, persisted>>
      BY <1>7 DEF ContentDelta, writerVars
    <2>2. Growing
      BY <2>1 DEF Growing, Streaming, Appending
    <2>3. QED  BY <1>2, <2>1, <2>2 DEF Quiet
  <1>8. CASE LeaveLoop
    BY <1>2, <1>8 DEF LeaveLoop, EndTurn, Quiet, Over, textVars, writerVars, Growing,
       Streaming,
       Calling, Appending, Busy, IInv, Stages
  <1>9. CASE PersistFails
    BY <1>2, <1>9 DEF PersistFails, Quiet, Over, textVars, writerVars, Growing, Streaming,
       Calling, Appending, Busy
  <1>10. CASE Interrupt \/ (\E m \in New : Cancel(m)) \/ MemoryFilterRetries
    BY <1>2, <1>10 DEF Interrupt, Cancel, MemoryFilterRetries, Quiet, textVars, writerVars,
       Growing, Streaming, Calling, Appending, Busy
  <1>11. CASE ReasoningDelta /\ reasoning # 0
    BY <1>2, <1>11 DEF ReasoningDelta, Quiet, writerVars, Growing, Streaming, Calling,
       Appending,
       Busy
  <1>12. QED  BY <1>3, <1>4, <1>5, <1>6, <1>7, <1>8, <1>9, <1>10, <1>11

\* The steps that flush the deltas that were pending, ...
LEMMA FlushSteps ==
  ASSUME IInv, Flush \/ StreamStops \/ StreamAsksForTools
  PROVE  Flushes
  <1>1. created \in Nat /\ created <= created /\ created <= created + 1
    BY Counts DEF IInv
  <1>2. CASE Flush
    BY <1>1, <1>2 DEF Flush, Flushes, Streaming, writerVars
  <1>3. ASSUME Streaming, NEW p \in {"leaving", "tools"}, NEW n, Settle(p, n) PROVE Flushes
    <2>1. /\ sent' = FlushFrames /\ flushed' = Flushed
          /\ UNCHANGED <<doc, cursor, liveCursor, bornIds, live>>
      BY <1>3 DEF Settle, writerVars
    <2>2. PICK ms : Finalize(ms, p) /\ (created' = created \/ created' = created + 1)
      <3> DEFINE pending == IF reasoning # 0 /\ assistant = 0 THEN <<reasoning>> ELSE <<>>
      <3>1. \/ Finalize(<<assistant>>, p) /\ created' = created
            \/ Finalize(pending, p) /\ created' = created
            \/ Finalize(Append(pending, created'), p) /\ Create("assistant")
        BY <1>3, Zenon DEF Settle
      <3> HIDE DEF pending
      <3>2. QED  BY <3>1 DEF Create
    <2>3. ~Growing' /\ persisted' = persisted
      BY <1>3, <2>2 DEF Finalize, Growing, Streaming, Calling, Appending, Busy
    <2>4. QED  BY <1>1, <1>3, <2>1, <2>2, <2>3 DEF Flushes
  <1>4. CASE StreamStops
    BY <1>3, <1>4 DEF StreamStops, Streaming
  <1>5. CASE StreamAsksForTools
    BY <1>3, <1>5 DEF StreamAsksForTools, Streaming
  <1>6. QED  BY <1>2, <1>4, <1>5

\* ... the steps in which a message appears, ...
LEMMA BirthSteps ==
  ASSUME IInv, \/ ReasoningDelta /\ reasoning = 0
               \/ FirstContent \/ BeginCall \/ Display
  PROVE  Appears
  <1>1. CASE ReasoningDelta /\ reasoning = 0
    <2>1. Streaming /\ Begun /\ Create("reasoning")
      BY <1>1 DEF ReasoningDelta, Streaming, Begun
    <2>2. created' = created + 1 /\ created' \in New
      BY <2>1, Created DEF Roles
    <2>3. QED  BY <1>1, <2>1, <2>2 DEF ReasoningDelta, Appears, Born, Growing
  <1>2. CASE FirstContent
    <2>1. Streaming /\ Begun /\ Create("assistant")
      BY <1>2 DEF FirstContent, Streaming, Begun
    <2>2. created' = created + 1 /\ created' \in New
      BY <2>1, Created DEF Roles
    <2>3. QED  BY <1>2, <2>1, <2>2 DEF FirstContent, Finalize, Appears, Born, Growing
  <1>3. CASE BeginCall
    <2>1. Begun /\ ~Streaming /\ ~Calling /\ ~Appending /\ ~Busy /\ phase = "tools" /\ Create("tool")
      BY <1>3 DEF BeginCall, Begun, Streaming, Calling, Appending
    <2>2. created = Announced
      <3>1. Types /\ InHand
        BY DEF IInv
      <3>2. QED  BY <2>1, <3>1, Counts DEF InHand
    <2>3. created' = created + 1 /\ created' \in New
      BY <2>1, Created DEF Roles
    <2>4. QED  BY <1>3, <2>1, <2>2, <2>3 DEF BeginCall, Appears, Born, textVars
  <1>4. CASE Display
    <2>1. Begun /\ Calling /\ Create("display")
      BY <1>4 DEF Display, Begun, Calling
    <2>2. created' = created + 1 /\ created' \in New
      BY <2>1, Created DEF Roles
    <2>3. QED  BY <1>4, <2>1, <2>2 DEF Display, Appears, Born, textVars, Growing
  <1>5. QED  BY <1>1, <1>2, <1>3, <1>4

\* ... and the others.
LEMMA StepKinds ==
  ASSUME IInv, Next
  PROVE  \/ Quiet \/ Flushes \/ Appears
         \/ DeleteTurn \/ BeginTurn \/ Persist \/ Announce \/ Resubscribe \/ PostUser
  BY QuietSteps, FlushSteps, BirthSteps DEF Next, TurnStep, Handlers

\* The turn's messages are told of in their order.
LEMMA ToldInit == ASSUME Init PROVE Told
  <1>1. liveCursor \notin New /\ cursor \notin New /\ created = 0 /\ bornIds = {} /\ phase = "idle"
        /\ finalizing = <<>>
    BY MessageAssumption DEF Init
  <1>2. Known = 0 /\ Announced = 0 /\ ~Growing
    BY <1>1 DEF Known, Announced, Growing, Streaming, Calling, Appending, Busy
  <1>3. \A m \in New : ~(m <= 0)
    BY TurnAssumption DEF New
  <1>4. QED  BY <1>1, <1>2, <1>3 DEF Told

\* So those in the catch-up buffer are a segment.
LEMMA LiveSegment ==
  ASSUME IInv, Told
  PROVE  /\ DOMAIN live = (Announced + 1)..Known /\ Known \in Nat /\ Announced \in Nat
         /\ Announced <= Known /\ Known <= created /\ Known <= MaxMessages
         /\ DOMAIN live \subseteq New
  <1>1. Announced \in Nat /\ created \in Nat /\ created <= MaxMessages /\ MaxMessages \in Nat
    BY Counts, TurnAssumption DEF IInv, Types
  <1>2. Known \in Nat /\ Announced <= Known /\ Known <= created
    BY <1>1 DEF Told
  <1>3. bornIds \subseteq New /\ \A m \in New : m \in Nat /\ m > 0
    BY <1>1 DEF IInv, Types, New
  <1>4. ASSUME NEW m PROVE m \in DOMAIN live <=> m \in (Announced + 1)..Known
    <2>1. m \in DOMAIN live <=> m \in bornIds /\ m > Announced
      BY DEF IInv, Catching
    <2>2. m \in (Announced + 1)..Known => m \in New
      BY <1>1, <1>2 DEF New
    <2>3. m \in New => (m <= Known <=> m <= Announced \/ m \in bornIds)
      BY DEF Told
    <2>4. ASSUME m \in DOMAIN live PROVE m \in (Announced + 1)..Known
      <3>1. m \in New /\ m \in bornIds /\ m > Announced /\ m \in Nat
        BY <1>3, <2>1, <2>4
      <3>2. m <= Known
        BY <2>3, <3>1
      <3>3. QED  BY <1>1, <1>2, <3>1, <3>2
    <2>5. ASSUME m \in (Announced + 1)..Known PROVE m \in DOMAIN live
      <3>1. m \in New /\ m <= Known /\ m > Announced /\ m \in Nat
        BY <1>1, <1>2, <2>2, <2>5
      <3>2. m \in bornIds
        BY <1>1, <2>3, <3>1
      <3>3. QED  BY <2>1, <3>1, <3>2
    <2>6. QED  BY <2>4, <2>5
  <1>5. DOMAIN live \subseteq New
    BY <1>3 DEF IInv, Catching
  <1>6. DOMAIN live = (Announced + 1)..Known
    <2> DEFINE S == DOMAIN live
               T == (Announced + 1)..Known
    <2>1. \A m : m \in S <=> m \in T
      BY <1>4
    <2> HIDE DEF S, T
    <2>2. S = T
      BY <2>1
    <2>3. QED  BY <2>2 DEF S, T
  <1>7. Known <= MaxMessages
    BY <1>1, <1>2
  <1>8. QED  BY <1>1, <1>2, <1>5, <1>6, <1>7

\* The numbers after a step.
LEMMA CountsNext ==
  IInv' => /\ Announced' \in Nat /\ Stored' \in Nat /\ created' \in Nat
           /\ Announced' <= created'
  <1>1. IInv => Announced \in Nat /\ Stored \in Nat /\ created \in Nat /\ Announced <= created
    <2>1. SUFFICES ASSUME IInv PROVE /\ Announced \in Nat /\ Stored \in Nat /\ created \in Nat
                                     /\ Announced <= created
      OBVIOUS
    <2>2. /\ Announced \in Nat /\ Stored \in Nat /\ created \in Nat /\ Len(finalizing) \in Nat
          /\ Claimed = Announced + Len(finalizing)
      BY <2>1, Counts DEF IInv
    <2>3. Claimed <= created
      BY <2>1 DEF IInv, Numbered
    <2>4. QED  BY <2>2, <2>3
  <1>2. (IInv => Announced \in Nat /\ Stored \in Nat /\ created \in Nat /\ Announced <= created)'
    BY <1>1, PTL
  <1>3. QED  BY <1>2

\* Every step tells of a message as it appears.
LEMMA ToldKept == ASSUME IInv, Told, Next PROVE Told'
  <1>1. /\ Announced \in Nat /\ created \in Nat /\ created <= MaxMessages /\ MaxMessages \in Nat
        /\ \A m \in New : m \in Nat /\ m > 0
    BY Counts, TurnAssumption DEF IInv, Types, New
  <1>2. Known \in Nat /\ Announced <= Known /\ Known <= created
    BY <1>1 DEF Told
  <1>3. IInv'
    BY TurnInv
  <1>4. created' \in Nat /\ Announced' \in Nat
    BY <1>3, CountsNext
  <1>5. ASSUME UNCHANGED <<cursor, liveCursor, bornIds>>, created <= created',
               Growing' => (Growing /\ created' = created) \/ created' = Announced
        PROVE  Told'
    <2>1. Announced' = Announced /\ Known' = Known
      BY <1>5 DEF Announced, Known
    <2>2. Known \in Announced..created'
      BY <1>1, <1>2, <1>4, <1>5
    <2>3. Growing' => Known = created'
      BY <1>1, <1>2, <1>4, <1>5 DEF Told
    <2>4. QED  BY <1>5, <2>1, <2>2, <2>3 DEF Told
  <1>6. CASE Quiet
    BY <1>5, <1>6 DEF Quiet
  <1>7. CASE Flushes
    BY <1>5, <1>7 DEF Flushes, Growing
  <1>8. CASE Appears
    <2>1. /\ liveCursor' = created' /\ bornIds' = bornIds \cup {created'} /\ cursor' = cursor
          /\ created' = created + 1 /\ created' \in New
      BY <1>8 DEF Appears, Born
    <2>2. Announced' = Announced /\ Known' = created'
      BY <2>1 DEF Announced, Known
    <2>3. Known = created
      BY <1>1, <1>2, <1>8 DEF Appears, Told
    <2>4. \A m \in New : m <= created' <=> m <= Announced \/ m \in bornIds'
      <3> TAKE m \in New
      <3>1. m <= created <=> m <= Announced \/ m \in bornIds
        BY <2>3 DEF Told
      <3>2. m <= created' <=> m <= created \/ m = created'
        BY <1>1, <2>1
      <3>3. QED  BY <2>1, <3>1, <3>2
    <2>5. created' \in Announced..created'
      BY <1>1, <1>2, <1>4, <2>1
    <2>6. QED  BY <2>2, <2>4, <2>5 DEF Told
  <1>9. CASE DeleteTurn \/ PostUser \/ Persist \/ Resubscribe
    <2>1. UNCHANGED <<cursor, liveCursor, bornIds, created, finalizing, then>>
      BY <1>9 DEF DeleteTurn, PostUser, Persist, Resubscribe, writerVars, coreVars
    <2>2. phase' = phase \/ (phase = "setup" /\ phase' = "deleted")
      BY <1>9 DEF DeleteTurn, PostUser, Persist, Resubscribe, coreVars
    <2>3. Growing' = Growing
      BY <2>1, <2>2 DEF Growing, Streaming, Calling, Appending, Busy
    <2>4. QED  BY <1>1, <1>5, <2>1, <2>3
  <1>10. CASE BeginTurn
    <2>1. UNCHANGED <<bornIds, created, finalizing>> /\ liveCursor' = cursor' /\ ~Begun /\ phase' = "filters"
      BY <1>10 DEF BeginTurn, Begun
    <2>2. created = 0 /\ bornIds = {} /\ ~Busy
      BY <2>1, NotBegun
    <2>3. created' = 0 /\ ~Growing'
      BY <2>1, <2>2 DEF Growing, Streaming, Calling, Appending, Busy
    <2>4. cursor' \notin New
      <3>1. Announced' <= created'
        BY <1>3, CountsNext
      <3>2. cursor' \in New => Announced' > 0
        BY <1>1 DEF Announced
      <3>3. QED  BY <1>4, <2>3, <3>1, <3>2
    <2>5. Announced' = 0 /\ Known' = 0
      BY <2>1, <2>4 DEF Announced, Known
    <2>6. \A m \in New : ~(m <= 0)
      BY <1>1
    <2>7. QED  BY <2>1, <2>2, <2>3, <2>5, <2>6 DEF Told
  <1>11. CASE Announce
    <2> DEFINE m == Head(finalizing)
    <2>1. /\ Busy /\ cursor' = m /\ liveCursor' = (IF m \in bornIds THEN liveCursor ELSE m)
          /\ UNCHANGED <<created, bornIds>>
      BY <1>11 DEF Announce
    <2>2. m = Announced + 1 /\ m \in New /\ m <= created
      BY <2>1, NextToFinalize
    <2> HIDE DEF m
    <2>3. Announced' = Announced + 1
      BY <2>1, <2>2 DEF Announced
    <2>4. m <= Known <=> m \in bornIds
      <3>1. m <= Known <=> m <= Announced \/ m \in bornIds
        BY <2>2 DEF Told
      <3>2. QED  BY <1>1, <2>2, <3>1
    <2>5. Known' = IF m \in bornIds THEN Known ELSE m
      BY <2>1, <2>2 DEF Known
    <2>6. Known' \in Announced'..created'
      BY <1>1, <1>2, <2>1, <2>2, <2>3, <2>4, <2>5
    <2>7. \A x \in New : x <= Known' <=> x <= Announced' \/ x \in bornIds'
      <3> TAKE x \in New
      <3>1. x <= Known <=> x <= Announced \/ x \in bornIds
        BY DEF Told
      <3>2. x <= Announced + 1 <=> x <= Announced \/ x = m
        BY <1>1, <2>2
      <3>3. CASE m \in bornIds
        BY <2>1, <2>3, <2>5, <3>1, <3>2, <3>3
      <3>4. CASE m \notin bornIds
        <4>1. Known = Announced
          BY <1>1, <1>2, <2>2, <2>4, <3>4
        <4>2. QED  BY <2>1, <2>2, <2>3, <2>5, <3>1, <3>2, <3>4, <4>1
      <3>5. QED  BY <3>3, <3>4
    <2>8. Growing' => Known' = created'
      <3>1. SUFFICES ASSUME Growing' PROVE Known' = created'
        OBVIOUS
      <3>2. Growing
        <4>1. then' = then /\ phase' \in {phase, then} /\ ~Streaming /\ ~Calling
              /\ phase' = (IF Len(finalizing) = 1 THEN then ELSE phase)
              /\ finalizing' = Tail(finalizing) /\ persisted' = FALSE
          BY <1>11, <2>1, NextToFinalize DEF Announce
        <4>2. Stages
          BY DEF IInv
        <4>3. Busy' <=> Len(finalizing) > 1
          <5>1. finalizing \in Seq(Nat) /\ Len(finalizing) > 0
            BY <2>1, Counts DEF IInv, Types
          <5>2. Len(Tail(finalizing)) = Len(finalizing) - 1 /\ Tail(finalizing) \in Seq(Nat)
            BY <5>1
          <5>3. Tail(finalizing) = <<>> <=> Len(Tail(finalizing)) = 0
            BY <5>2, EmptySeq
          <5>4. Len(finalizing) \in Nat
            BY <5>1
          <5>5. QED  BY <4>1, <5>1, <5>2, <5>3, <5>4 DEF Busy
        <4>4. CASE Busy'
          BY <2>1, <3>1, <4>1, <4>2, <4>4 DEF Growing, Streaming, Calling, Appending, Stages
        <4>5. CASE ~Busy'
          <5>1. Len(finalizing) = 1
            <6>1. Len(finalizing) \in Nat /\ Len(finalizing) > 0
              BY <2>1, Counts DEF IInv
            <6>2. ~(Len(finalizing) > 1)
              BY <4>3, <4>5, Zenon
            <6>3. QED  BY <6>1, <6>2
          <5>2. QED
            BY <2>1, <3>1, <4>1, <4>2, <4>5, <5>1 DEF Growing, Streaming, Calling,
               Appending, Stages
        <4>6. QED  BY <4>4, <4>5
      <3>3. Known = created
        BY <3>2 DEF Told
      <3>4. QED  BY <1>1, <2>1, <2>2, <2>4, <2>5, <3>3
    <2>9. QED  BY <2>6, <2>7, <2>8 DEF Told
  <1>12. QED  BY <1>6, <1>7, <1>8, <1>9, <1>10, <1>11, StepKinds

-----------------------------------------------------------------------------
(* What a step tells                                                       *)

\* What is known of a frame by its kind.
LEMMA FrameKinds ==
  ASSUME NEW f \in Frames
  PROVE  /\ f.kind \in {"message", "delta", "deleted", "end"}
         /\ f.kind = "message" => f.id \in New /\ f.text \in 0..MaxText
         /\ f.kind = "delta" => f.id \in New /\ f.n \in 0..MaxText
         /\ f.kind = "deleted" => f.id = OldReply
  BY DEF Frames

\* What the frames hold.
LEMMA SnapshotFrame ==
  ASSUME Types, NEW m \in New, NEW a \in Msgs \cup {None}, NEW final \in BOOLEAN
  PROVE  LET s == Snapshot(m, a, final)
         IN  s \in Frames /\ s.kind = "message" /\ s.id = m /\ s.after = a /\ s.text = flushed[m]
  <1>1. flushed[m] \in 0..MaxText
    BY DEF Types
  <1>2. QED  BY <1>1 DEF Snapshot, Frames

\* The others that are sent.
LEMMA OtherFrames ==
  /\ [kind |-> "end"] \in Frames /\ [kind |-> "deleted", id |-> OldReply] \in Frames
  /\ [kind |-> "end"].kind = "end" /\ [kind |-> "deleted", id |-> OldReply].kind = "deleted"
  BY DEF Frames

\* A step that sends one frame.
LEMMA OneFrame ==
  ASSUME NEW S, NEW f \in S, NEW t, t = <<f>>
  PROVE  t \in Seq(S) /\ Len(t) = 1 /\ t[1] = f /\ \A i \in 1..Len(t) : i = 1 /\ t[i] = f
  OBVIOUS

\* Frames that add nothing to a message leave its level.
LEMMA FlatLevels ==
  ASSUME NEW t \in Seq(Frames), NEW m, NEW v \in 0..MaxText,
         \A i \in 1..Len(t) : ~Adds(t[i], m) /\ (Carries(t[i], m) => t[i].text = v)
  PROVE  \E lev \in [0..Len(t) -> 0..MaxText] :
            Levels(t, m, lev) /\ lev[0] = v /\ lev[Len(t)] = v /\ Settles(t, m, lev)
  <1> DEFINE lev == [i \in 0..Len(t) |-> v]
             k == Len(t)
  <1>1. k \in Nat
    OBVIOUS
  <1> HIDE DEF k
  <1>2. lev \in [0..Len(t) -> 0..MaxText] /\ \A i \in 0..k : lev[i] = v
    BY DEF k
  <1>3. 0 \in 0..k /\ k \in 0..k /\ \A i \in 1..k : i \in 0..k /\ i - 1 \in 0..k
    BY <1>1
  <1>4. v = v + 0
    BY TurnAssumption
  <1>5. \A i \in 1..Len(t) : lev[i] = lev[i - 1] + (IF Adds(t[i], m) THEN t[i].n ELSE 0)
                               /\ (Carries(t[i], m) => t[i].text = lev[i])
    BY <1>2, <1>3, <1>4 DEF k
  <1>6. Levels(t, m, lev)
    BY <1>2, <1>5 DEF Levels
  <1>7. Settles(t, m, lev)
    BY <1>2, <1>3 DEF Settles, k
  <1>8. lev[0] = v /\ lev[Len(t)] = v
    BY <1>2, <1>3 DEF k
  <1>9. QED  BY <1>2, <1>6, <1>7, <1>8

\* A delta alone raises it.
Raises(t, m, v, w) ==
    \E lev \in [0..Len(t) -> 0..MaxText] : Levels(t, m, lev) /\ lev[0] = v /\ lev[Len(t)] = w

\* A delta adds to what was flushed.
LEMMA DeltaLevels ==
  ASSUME NEW t \in Seq(Frames), NEW m, Len(t) = 1, Adds(t[1], m),
         NEW v \in 0..MaxText, NEW w \in 0..MaxText, w = v + t[1].n
  PROVE  Raises(t, m, v, w)
  <1> DEFINE lev == [i \in 0..Len(t) |-> IF i = 0 THEN v ELSE w]
  <1>1. lev \in [0..Len(t) -> 0..MaxText] /\ lev[0] = v /\ lev[1] = w
    OBVIOUS
  <1>2. ~Carries(t[1], m)
    BY DEF Adds, Carries
  <1> HIDE DEF lev
  <1>3. \A i \in 1..Len(t) : i = 1 /\ i - 1 = 0
    OBVIOUS
  <1>4. \A i \in 1..Len(t) : lev[i] = lev[i - 1] + (IF Adds(t[i], m) THEN t[i].n ELSE 0)
                               /\ (Carries(t[i], m) => t[i].text = lev[i])
    BY <1>1, <1>2, <1>3
  <1>5. QED  BY <1>1, <1>4 DEF Levels, Raises

\* The catch-up buffer is replayed whole.
LEMMA Replay ==
  ASSUME IInv, Told, Resubscribe
  PROVE  /\ sent' \in Seq(Frames)
         /\ \A i \in 1..Len(sent') : /\ sent'[i].kind = "message" /\ sent'[i].id \in DOMAIN live
                                     /\ sent'[i].text = flushed[sent'[i].id]
         /\ Active => \A m \in DOMAIN live : \E i \in 1..Len(sent') : Carries(sent'[i], m)
  <1>1. CASE ~Active
    <2>1. sent' = <<>>
      BY <1>1 DEF Resubscribe
    <2>2. QED  BY <1>1, <2>1
  <1>2. CASE Active
    <2> DEFINE S == DOMAIN live
               a == Announced
               n == Known - Announced
               ms == Ordered(S)
    <2>1. S = (a + 1)..Known /\ a \in Nat /\ n \in Nat /\ Known = a + n /\ S \subseteq New
      BY LiveSegment
    <2>2. IsFiniteSet(S) /\ Cardinality(S) = n
      BY <2>1, FS_Interval
    <2>3. sent' = [i \in DOMAIN ms |-> Snapshot(ms[i], live[ms[i]], FALSE)]
      BY <1>2 DEF Resubscribe
    <2>4. ms = CHOOSE s \in [1..n -> S] : \A i, j \in DOMAIN s : i < j => s[i] < s[j]
      BY <2>2 DEF Ordered
    <2>5. \A m \in S : m \in New /\ live[m] \in Msgs
      <3>1. \A m \in S : live[m] \in ToSet(doc) \cup S
        BY DEF IInv, Catching
      <3>2. ToSet(doc) \subseteq Msgs
        BY DEF IInv, Types, ToSet
      <3>3. QED  BY <2>1, <3>1, <3>2 DEF Msgs
    <2> HIDE DEF S, a, n, ms
    <2>6. ms \in [1..n -> S] /\ \A i, j \in DOMAIN ms : i < j => ms[i] < ms[j]
      <3> DEFINE s == [i \in 1..n |-> a + i]
      <3>1. s \in [1..n -> S] /\ \A i, j \in DOMAIN s : i < j => s[i] < s[j]
        BY <2>1
      <3> HIDE DEF s
      <3>2. QED  BY <2>4, <3>1
    <2>7. \A i, j \in 1..n : i # j => ms[i] # ms[j]
      <3> TAKE i, j \in 1..n
      <3> HAVE i # j
      <3>1. ms[i] \in Nat /\ ms[j] \in Nat
        BY <2>1, <2>6
      <3>2. i < j \/ j < i
        BY <2>1
      <3>3. QED  BY <2>6, <3>1, <3>2
    <2>8. \A m \in S : \E i \in 1..n : ms[i] = m
      <3>1. ms \in Injection(1..n, S)
        BY <2>6, <2>7 DEF Injection, IsInjective
      <3>2. IsFiniteSet(1..n) /\ Cardinality(1..n) = n
        BY <2>1, FS_Interval
      <3>3. ms \in Surjection(1..n, S)
        BY <2>2, <3>1, <3>2, FS_Injection
      <3>4. QED  BY <3>3 DEF Surjection
    <2>9. \A i \in 1..n : /\ ms[i] \in S /\ sent'[i] \in Frames /\ sent'[i].kind = "message"
                          /\ sent'[i].id = ms[i] /\ sent'[i].text = flushed[ms[i]]
      <3> TAKE i \in 1..n
      <3>1. ms[i] \in S /\ sent'[i] = Snapshot(ms[i], live[ms[i]], FALSE)
        BY <2>3, <2>6
      <3>2. Types
        BY DEF IInv
      <3> DEFINE x == ms[i]
                 f == live[x]
      <3>3. x \in New /\ f \in Msgs \cup {None} /\ FALSE \in BOOLEAN
        BY <2>5, <3>1
      <3> HIDE DEF x, f
      <3>4. LET s == Snapshot(x, f, FALSE)
            IN  s \in Frames /\ s.kind = "message" /\ s.id = x /\ s.text = flushed[x]
        BY <3>2, <3>3, SnapshotFrame
      <3>5. QED  BY <3>1, <3>4 DEF x, f
    <2>10. sent' \in Seq(Frames) /\ Len(sent') = n
      <3>1. sent' = [i \in 1..n |-> Snapshot(ms[i], live[ms[i]], FALSE)]
        BY <2>3, <2>6
      <3>2. sent' \in [1..n -> Frames]
        BY <2>9, <3>1
      <3>3. ASSUME NEW t \in [1..n -> Frames] PROVE t \in Seq(Frames) /\ Len(t) = n
        BY <2>1
      <3>4. QED  BY <3>2, <3>3
    <2>11. \A i \in 1..Len(sent') : /\ sent'[i].kind = "message" /\ sent'[i].id \in S
                                    /\ sent'[i].text = flushed[sent'[i].id]
      BY <2>9, <2>10
    <2>12. ASSUME NEW m \in S PROVE \E i \in 1..Len(sent') : Carries(sent'[i], m)
      <3>1. PICK i \in 1..n : ms[i] = m
        BY <2>8
      <3>2. i \in 1..Len(sent') /\ Carries(sent'[i], m)
        BY <2>9, <2>10, <3>1 DEF Carries
      <3>3. QED  BY <3>2
    <2>13. QED  BY <2>10, <2>11, <2>12 DEF S
  <1>3. QED  BY <1>1, <1>2

\* A flush has one delta at most, of the message that grows.
LEMMA FlushOne ==
  ASSUME IInv, Told, Streaming
  PROVE  LET d == [kind |-> "delta", id |-> created, n |-> text[created] - flushed[created]]
         IN  \/ FlushFrames = <<>> /\ Flushed = flushed
             \/ /\ FlushFrames = <<d>> /\ d \in Frames /\ d.kind = "delta" /\ d.id = created
                /\ created \in DOMAIN live /\ created \in New
                /\ flushed[created] + d.n = Flushed[created]
                /\ \A m \in New : m # created => Flushed[m] = flushed[m]
  <1> DEFINE d == [kind |-> "delta", id |-> created, n |-> text[created] - flushed[created]]
             D(m) == IF m \in Pending
                     THEN <<[kind |-> "delta", id |-> m, n |-> text[m] - flushed[m]]>>
                     ELSE <<>>
  <1>1. FlushFrames = D(reasoning) \o D(assistant)
    BY DEF FlushFrames
  <1>2. Types /\ Texts
    BY DEF IInv
  <1>3. /\ text \in [New -> 0..MaxText] /\ flushed \in [New -> 0..MaxText]
        /\ {reasoning, assistant} \subseteq 0..created /\ created \in 0..MaxMessages
        /\ MaxMessages \in Nat /\ MaxText \in Nat
    BY <1>2, TurnAssumption DEF Types
  <1>4. Flushed = text
    BY <1>2, FlushedIsText
  <1>5. \A m \in Pending : m \in New /\ m \in {reasoning, assistant} /\ m = created
    <2> TAKE m \in Pending
    <2>1. m \in {reasoning, assistant} /\ m # 0 /\ text[m] > flushed[m]
      BY DEF Pending
    <2>2. m \in New
      BY <1>3, <2>1 DEF New
    <2>3. flushed[m] # text[m]
      BY <1>3, <2>1, <2>2
    <2>4. QED  BY <1>2, <2>1, <2>2, <2>3 DEF Texts
  <1>6. CASE created \notin Pending
    <2>1. Pending = {}
      BY <1>5, <1>6
    <2>2. Flushed = flushed
      BY <1>3, <2>1 DEF Flushed
    <2>3. D(reasoning) = <<>> /\ D(assistant) = <<>>
      BY <2>1
    <2>4. FlushFrames = <<>>
      <3>1. <<>> \o <<>> = <<>>
        OBVIOUS
      <3>2. QED  BY <1>1, <2>3, <3>1
    <2>5. QED  BY <2>2, <2>4
  <1>7. CASE created \in Pending
    <2>1. created \in New /\ created \in {reasoning, assistant} /\ text[created] > flushed[created]
      BY <1>5, <1>7 DEF Pending
    <2>2. /\ \/ reasoning = created /\ assistant # created
             \/ assistant = created /\ reasoning # created
          /\ created = Announced + 1
      <3>1. created \in Nat /\ created > 0 /\ Announced \in Nat
        BY <2>1, TurnAssumption, InStream DEF New
      <3>2. QED  BY <2>1, <3>1, InStream
    <2>3. created \in DOMAIN live
      <3>1. Known = created /\ Announced \in Nat /\ DOMAIN live = (Announced + 1)..Known
        BY LiveSegment DEF Told, Growing
      <3>2. QED  BY <2>2, <3>1
    <2>4. \A m \in New : m # created => Flushed[m] = flushed[m]
      BY <1>5 DEF Flushed
    <2>5. text[created] \in 0..MaxText /\ flushed[created] \in 0..MaxText
      BY <1>3, <2>1
    <2>6. d.n \in 0..MaxText /\ flushed[created] + d.n = text[created]
      BY <1>3, <2>1, <2>5
    <2>7. d \in Frames /\ d.kind = "delta" /\ d.id = created
      BY <2>1, <2>6 DEF Frames
    <2>8. FlushFrames = <<d>>
      <3>1. \A m \in {reasoning, assistant} : m # created => D(m) = <<>>
        BY <1>5
      <3>2. D(created) = <<d>>
        BY <1>7
      <3> HIDE DEF d, D
      <3>3. <<d>> \o <<>> = <<d>> /\ <<>> \o <<d>> = <<d>>
        BY <2>7, ConcatEmptySeq
      <3>4. QED  BY <1>1, <2>2, <3>1, <3>2, <3>3
    <2> HIDE DEF D
    <2>9. QED  BY <1>4, <2>1, <2>3, <2>4, <2>6, <2>7, <2>8
  <1>8. QED  BY <1>6, <1>7

\* What a step says of message m: it raises the level to where it now is, and says when
\* m becomes live or is no longer.
Tells(m) ==
    /\ \E lev \in [0..Len(sent') -> 0..MaxText] :
         /\ Levels(sent', m, lev) /\ lev[0] = flushed[m] /\ lev[Len(sent')] = flushed'[m]
         /\ m \in DOMAIN live' \/ Settles(sent', m, lev)
    /\ (m \in DOMAIN live) # (m \in DOMAIN live') => \E i \in 1..Len(sent') : Carries(sent'[i], m)

\* The end comes last.
Proper ==
    /\ sent' \in Seq(Frames)
    /\ \A i \in 1..Len(sent') : sent'[i].kind = "end" => i = Len(sent') /\ Over'

\* A step that flushes nothing of a message sends of it what was flushed before.
LEMMA FlatTells ==
  ASSUME Types, sent' \in Seq(Frames), NEW m \in New, flushed'[m] = flushed[m],
         \A i \in 1..Len(sent') : /\ ~Adds(sent'[i], m)
                                  /\ Carries(sent'[i], m) => sent'[i].text = flushed[m],
         \/ m \in DOMAIN live <=> m \in DOMAIN live'
         \/ \E i \in 1..Len(sent') : Carries(sent'[i], m)
  PROVE  Tells(m)
  <1>1. flushed[m] \in 0..MaxText
    BY DEF Types
  <1>2. \E lev \in [0..Len(sent') -> 0..MaxText] :
          /\ Levels(sent', m, lev) /\ lev[0] = flushed[m] /\ lev[Len(sent')] = flushed[m]
          /\ Settles(sent', m, lev)
    <2> DEFINE t == sent'
               v == flushed[m]
    <2>1. /\ t \in Seq(Frames) /\ v \in 0..MaxText
          /\ \A i \in 1..Len(t) : ~Adds(t[i], m) /\ (Carries(t[i], m) => t[i].text = v)
      BY <1>1
    <2> HIDE DEF t, v
    <2>2. \E lev \in [0..Len(t) -> 0..MaxText] :
            Levels(t, m, lev) /\ lev[0] = v /\ lev[Len(t)] = v /\ Settles(t, m, lev)
      BY <2>1, FlatLevels
    <2>3. QED  BY <2>2 DEF t, v
  <1>3. QED  BY <1>2 DEF Tells

\* Each kind of step tells of the messages what it does to them: one that sends none, ...
LEMMA QuietTells ==
  ASSUME IInv, Quiet \/ DeleteTurn \/ BeginTurn \/ Persist \/ PostUser, NEW m \in New
  PROVE  Tells(m) /\ Proper
  <1>1. live' = live /\ flushed' = flushed
    BY DEF Quiet, DeleteTurn, BeginTurn, Persist, PostUser, textVars, writerVars
  <1>2. Types
    BY DEF IInv
  <1>3. CASE sent' = <<>>
    <2>1. sent' \in Seq(Frames) /\ Len(sent') = 0
      BY <1>3
    <2>2. QED  BY <1>1, <1>2, <2>1, FlatTells DEF Proper
  <1>4. ASSUME NEW f \in Frames, sent' = <<f>>, f.kind \in {"deleted", "end"},
               f.kind = "end" => Over'
        PROVE  Tells(m) /\ Proper
    <2>1. sent' \in Seq(Frames) /\ Len(sent') = 1 /\ \A i \in 1..Len(sent') : i = 1 /\ sent'[i] = f
      BY <1>4, OneFrame
    <2>2. ~Adds(f, m) /\ ~Carries(f, m)
      BY <1>4 DEF Adds, Carries
    <2>3. Tells(m)
      BY <1>1, <1>2, <2>1, <2>2, FlatTells
    <2>4. QED  BY <1>4, <2>1, <2>3 DEF Proper
  <1>5. \/ sent' = <<>> \/ sent' = <<[kind |-> "deleted", id |-> OldReply]>>
        \/ sent' = <<[kind |-> "end"]>> /\ Over'
    BY DEF Quiet, DeleteTurn, BeginTurn, Persist, PostUser
  <1>6. CASE sent' = <<[kind |-> "deleted", id |-> OldReply]>>
    <2> DEFINE f == [kind |-> "deleted", id |-> OldReply]
    <2>1. f \in Frames /\ f.kind = "deleted" /\ sent' = <<f>>
      BY <1>6, OtherFrames
    <2> HIDE DEF f
    <2>2. QED  BY <1>4, <2>1
  <1>7. CASE sent' = <<[kind |-> "end"]>> /\ Over'
    <2> DEFINE f == [kind |-> "end"]
    <2>1. f \in Frames /\ f.kind = "end" /\ sent' = <<f>>
      BY <1>7, OtherFrames
    <2> HIDE DEF f
    <2>2. QED  BY <1>4, <1>7, <2>1
  <1>8. QED  BY <1>3, <1>5, <1>6, <1>7

\* ... the answer to chat.subscribe, ...
LEMMA ReplayTells ==
  ASSUME IInv, Told, Resubscribe, NEW m \in New
  PROVE  Tells(m) /\ Proper
  <1>1. Types /\ live' = live /\ flushed' = flushed
    BY DEF IInv, Resubscribe, coreVars
  <1>2. /\ sent' \in Seq(Frames)
        /\ \A i \in 1..Len(sent') :
             sent'[i].kind = "message" /\ sent'[i].text = flushed[sent'[i].id]
    BY Replay
  <1>3. \A i \in 1..Len(sent') : /\ ~Adds(sent'[i], m)
                                 /\ Carries(sent'[i], m) => sent'[i].text = flushed[m]
    BY <1>2 DEF Adds, Carries
  <1>4. Tells(m)
    BY <1>1, <1>2, <1>3, FlatTells
  <1>5. Proper
    BY <1>2 DEF Proper
  <1>6. QED  BY <1>4, <1>5

\* ... the announcement of a stored message, ...
LEMMA AnnounceTells ==
  ASSUME IInv, Announce, NEW m \in New
  PROVE  Tells(m) /\ Proper
  <1> DEFINE h == Head(finalizing)
             f == sent'[1]
  <1>1. /\ Types /\ Busy /\ live' = [k \in DOMAIN live \ {h} |-> live[k]] /\ flushed' = flushed
        /\ sent' = <<Snapshot(h, IF h \in bornIds THEN None ELSE liveCursor, TRUE)>>
    BY DEF IInv, Announce, textVars
  <1>2. h \in New /\ Begun
    BY <1>1, NextToFinalize
  <1>3. liveCursor \in Msgs
    <2>1. liveCursor \in ToSet(doc) \cup DOMAIN live
      BY <1>2 DEF IInv, Opening
    <2>2. ToSet(doc) \subseteq Msgs /\ DOMAIN live \subseteq New
      <3>1. ToSet(doc) \subseteq Msgs
        BY DEF IInv, Types, ToSet
      <3>2. bornIds \subseteq New
        BY TurnAssumption DEF IInv, Types, New
      <3>3. QED  BY <3>1, <3>2 DEF IInv, Catching
    <2>3. QED  BY <2>1, <2>2 DEF Msgs
  <1> HIDE DEF h
  <1>4. /\ sent' = <<f>> /\ f \in Frames /\ f.kind = "message" /\ f.id = h /\ f.text = flushed[h]
        /\ f.after = IF h \in bornIds THEN None ELSE liveCursor
    <2> DEFINE a == IF h \in bornIds THEN None ELSE liveCursor
               s == Snapshot(h, a, TRUE)
    <2>1. a \in Msgs \cup {None}
      BY <1>3
    <2>2. sent' = <<s>> /\ f = s
      BY <1>1
    <2> HIDE DEF a
    <2>3. s \in Frames /\ s.kind = "message" /\ s.id = h /\ s.after = a /\ s.text = flushed[h]
      BY <1>1, <1>2, <2>1, SnapshotFrame
    <2>4. QED  BY <2>2, <2>3 DEF a
  <1> HIDE DEF f
  <1>5. sent' \in Seq(Frames) /\ Len(sent') = 1 /\ \A i \in 1..Len(sent') : i = 1 /\ sent'[i] = f
    BY <1>4, OneFrame
  <1>6. ~Adds(f, m) /\ (Carries(f, m) <=> m = h)
    BY <1>4 DEF Adds, Carries
  <1>7. Tells(m)
    <2>1. m # h => (m \in DOMAIN live <=> m \in DOMAIN live')
      BY <1>1
    <2>2. m = h => 1 \in 1..Len(sent') /\ Carries(sent'[1], m)
      BY <1>5, <1>6
    <2>3. \A i \in 1..Len(sent') : /\ ~Adds(sent'[i], m)
                                   /\ Carries(sent'[i], m) => sent'[i].text = flushed[m]
      BY <1>4, <1>5, <1>6
    <2>4. \/ m \in DOMAIN live <=> m \in DOMAIN live'
          \/ \E i \in 1..Len(sent') : Carries(sent'[i], m)
      BY <2>1, <2>2
    <2>5. QED  BY <1>1, <1>5, <2>3, <2>4, FlatTells
  <1>8. Proper
    BY <1>4, <1>5 DEF Proper
  <1>9. QED  BY <1>7, <1>8

\* ... what flushDeltas() sends, ...
LEMMA FlushLevels ==
  ASSUME IInv, Told, Streaming, NEW m \in New
  PROVE  /\ FlushFrames \in Seq(Frames)
         /\ \A i \in 1..Len(FlushFrames) : FlushFrames[i].kind = "delta" /\ FlushFrames[i].id = created
         /\ \E lev \in [0..Len(FlushFrames) -> 0..MaxText] :
              /\ Levels(FlushFrames, m, lev)
              /\ lev[0] = flushed[m] /\ lev[Len(FlushFrames)] = Flushed[m]
              /\ m \in DOMAIN live \/ Settles(FlushFrames, m, lev)
  <1> DEFINE d == [kind |-> "delta", id |-> created, n |-> text[created] - flushed[created]]
             t == FlushFrames
             v == flushed[m]
  <1>1. Types /\ Texts
    BY DEF IInv
  <1>2. v \in 0..MaxText /\ Flushed[m] \in 0..MaxText
    <2>1. Flushed = text
      BY <1>1, FlushedIsText
    <2>2. QED  BY <1>1, <2>1 DEF Types
  <1>3. \/ t = <<>> /\ Flushed = flushed
        \/ /\ t = <<d>> /\ d \in Frames /\ d.kind = "delta" /\ d.id = created
           /\ created \in DOMAIN live /\ created \in New
           /\ flushed[created] + d.n = Flushed[created]
           /\ \A k \in New : k # created => Flushed[k] = flushed[k]
    BY FlushOne
  <1> HIDE DEF d, t, v
  <1>4. CASE t = <<>> /\ Flushed = flushed
    <2>1. t \in Seq(Frames) /\ Len(t) = 0 /\ Flushed[m] = v
      BY <1>4 DEF v
    <2>2. \E lev \in [0..Len(t) -> 0..MaxText] :
            Levels(t, m, lev) /\ lev[0] = v /\ lev[Len(t)] = v /\ Settles(t, m, lev)
      <3>1. \A i \in 1..Len(t) : ~Adds(t[i], m) /\ (Carries(t[i], m) => t[i].text = v)
        BY <2>1
      <3>2. QED  BY <1>2, <2>1, <3>1, FlatLevels
    <2>3. QED  BY <2>1, <2>2 DEF t, v
  <1>5. CASE /\ t = <<d>> /\ d \in Frames /\ d.kind = "delta" /\ d.id = created
             /\ created \in DOMAIN live /\ created \in New
             /\ flushed[created] + d.n = Flushed[created]
             /\ \A k \in New : k # created => Flushed[k] = flushed[k]
    <2>1. t \in Seq(Frames) /\ Len(t) = 1 /\ \A i \in 1..Len(t) : i = 1 /\ t[i] = d
      BY <1>5, OneFrame
    <2>2. CASE m = created
      <3> DEFINE w == Flushed[m]
      <3>1. w \in 0..MaxText /\ w = v + t[1].n /\ Adds(t[1], m)
        BY <1>2, <1>5, <2>1, <2>2 DEF Adds, v
      <3> HIDE DEF w
      <3>2. Raises(t, m, v, w)
        BY <1>2, <2>1, <3>1, DeltaLevels
      <3>3. QED  BY <1>5, <2>1, <2>2, <3>2 DEF t, v, w, Raises
    <2>3. CASE m # created
      <3>1. ~Adds(d, m) /\ ~Carries(d, m) /\ Flushed[m] = v
        BY <1>5, <2>3 DEF Adds, Carries, v
      <3>2. \E lev \in [0..Len(t) -> 0..MaxText] :
              Levels(t, m, lev) /\ lev[0] = v /\ lev[Len(t)] = v /\ Settles(t, m, lev)
        BY <1>2, <2>1, <3>1, FlatLevels
      <3>3. QED  BY <1>5, <2>1, <3>1, <3>2 DEF t, v
    <2>4. QED  BY <2>2, <2>3
  <1>6. QED  BY <1>3, <1>4, <1>5

\* ... in a step of its own, ...
LEMMA FlushTells ==
  ASSUME IInv, Told, Flushes, NEW m \in New
  PROVE  Tells(m) /\ Proper
  <1>1. Streaming /\ sent' = FlushFrames /\ flushed' = Flushed /\ live' = live
    BY DEF Flushes
  <1>2. /\ sent' \in Seq(Frames)
        /\ \A i \in 1..Len(sent') : sent'[i].kind = "delta" /\ sent'[i].id = created
        /\ \E lev \in [0..Len(sent') -> 0..MaxText] :
             /\ Levels(sent', m, lev) /\ lev[0] = flushed[m] /\ lev[Len(sent')] = flushed'[m]
             /\ m \in DOMAIN live \/ Settles(sent', m, lev)
    BY <1>1, FlushLevels
  <1>3. QED  BY <1>1, <1>2 DEF Tells, Proper

\* The snapshot a message appears with.
LEMMA BirthFrame ==
  ASSUME IInv, Appears
  PROVE  LET s == Snapshot(created', liveCursor, FALSE)
         IN  /\ s \in Frames /\ s.kind = "message" /\ s.id = created'
             /\ s.after = liveCursor /\ s.text = flushed[created']
  <1>1. liveCursor \in Msgs /\ Types /\ created' \in New
    <2>1. liveCursor \in ToSet(doc) \cup DOMAIN live
      BY DEF IInv, Opening, Appears
    <2>2. ToSet(doc) \subseteq Msgs
      BY DEF IInv, Types, ToSet
    <2>3. bornIds \subseteq New
      BY TurnAssumption DEF IInv, Types, New
    <2>4. QED  BY <2>1, <2>2, <2>3 DEF IInv, Catching, Msgs, Appears
  <1> DEFINE k == created'
  <1>2. k \in New /\ liveCursor \in Msgs \cup {None} /\ FALSE \in BOOLEAN
    BY <1>1
  <1> HIDE DEF k
  <1>3. LET s == Snapshot(k, liveCursor, FALSE)
        IN  s \in Frames /\ s.kind = "message" /\ s.id = k
            /\ s.after = liveCursor /\ s.text = flushed[k]
    BY <1>1, <1>2, SnapshotFrame
  <1>4. QED  BY <1>3 DEF k

\* ... or before a message that appears.
LEMMA BirthTells ==
  ASSUME IInv, Told, Appears, NEW m \in New
  PROVE  Tells(m) /\ Proper
  <1> DEFINE s == Snapshot(created', liveCursor, FALSE)
             u == <<s>>
             v == flushed[m]
             t == FlushFrames
  <1>1. s \in Frames /\ s.kind = "message" /\ s.id = created' /\ s.text = flushed[created']
    BY BirthFrame
  <1>2. DOMAIN live' = DOMAIN live \cup {created'}
    BY DEF Appears, Born
  <1>3. \/ sent' = u /\ flushed' = flushed
        \/ Streaming /\ sent' = u \o t /\ flushed' = Flushed
    BY DEF Appears
  <1>4. Types /\ v \in 0..MaxText
    BY DEF IInv, Types
  <1> HIDE DEF s, v, t
  <1>5. u \in Seq(Frames) /\ Len(u) = 1 /\ \A i \in 1..Len(u) : i = 1 /\ u[i] = s
    BY <1>1, OneFrame
  <1> HIDE DEF u
  <1>6. /\ \A i \in 1..Len(u) : ~Adds(u[i], m) /\ (Carries(u[i], m) => u[i].text = v)
        /\ 1 \in 1..Len(u) /\ (m = created' => Carries(u[1], m))
        /\ u[1] = s
    BY <1>1, <1>5 DEF Adds, Carries, v
  <1>7. CASE sent' = u /\ flushed' = flushed
    <2>1. Tells(m)
      <3>1. /\ sent' \in Seq(Frames) /\ flushed'[m] = flushed[m]
            /\ \A i \in 1..Len(sent') : /\ ~Adds(sent'[i], m)
                                        /\ Carries(sent'[i], m) => sent'[i].text = flushed[m]
        BY <1>5, <1>6, <1>7 DEF v
      <3>2. \/ m \in DOMAIN live <=> m \in DOMAIN live'
            \/ \E i \in 1..Len(sent') : Carries(sent'[i], m)
        BY <1>2, <1>6, <1>7
      <3>3. QED  BY <1>4, <3>1, <3>2, FlatTells
    <2>2. Proper
      BY <1>1, <1>5, <1>7 DEF Proper
    <2>3. QED  BY <2>1, <2>2
  <1>8. CASE Streaming /\ sent' = u \o t /\ flushed' = Flushed
    <2>1. /\ t \in Seq(Frames)
          /\ \A i \in 1..Len(t) : t[i].kind = "delta"
          /\ \E b \in [0..Len(t) -> 0..MaxText] :
               /\ Levels(t, m, b) /\ b[0] = v /\ b[Len(t)] = flushed'[m]
               /\ m \in DOMAIN live \/ Settles(t, m, b)
      BY <1>8, FlushLevels DEF t, v
    <2>2. PICK b \in [0..Len(t) -> 0..MaxText] :
               /\ Levels(t, m, b) /\ b[0] = v /\ b[Len(t)] = flushed'[m]
               /\ m \in DOMAIN live \/ Settles(t, m, b)
      BY <2>1
    <2>3. PICK a \in [0..Len(u) -> 0..MaxText] :
            Levels(u, m, a) /\ a[0] = v /\ a[Len(u)] = v /\ Settles(u, m, a)
      BY <1>4, <1>5, <1>6, FlatLevels
    <2>4. a[Len(u)] = b[0]
      BY <2>2, <2>3
    <2>5. \E lev \in [0..Len(u \o t) -> 0..MaxText] :
            /\ Levels(u \o t, m, lev) /\ lev[0] = a[0] /\ lev[Len(u \o t)] = b[Len(t)]
            /\ Settles(t, m, b) /\ (Settles(u, m, a) \/ \E j \in 1..Len(t) : Carries(t[j], m))
                 => Settles(u \o t, m, lev)
      BY <1>5, <2>1, <2>2, <2>3, <2>4, LevelsBehind
    <2>6. \E lev \in [0..Len(sent') -> 0..MaxText] :
            /\ Levels(sent', m, lev) /\ lev[0] = flushed[m] /\ lev[Len(sent')] = flushed'[m]
            /\ m \in DOMAIN live' \/ Settles(sent', m, lev)
      BY <1>2, <1>8, <2>2, <2>3, <2>5 DEF v
    <2>7. /\ sent' \in Seq(Frames) /\ Len(sent') = Len(u) + Len(t) /\ Len(t) \in Nat
          /\ \A i \in 1..(Len(u) + Len(t)) : IF i <= Len(u) THEN i \in 1..Len(u)
                                             ELSE i - Len(u) \in 1..Len(t)
          /\ \A i \in 1..(Len(u) + Len(t)) :
               sent'[i] = IF i <= Len(u) THEN u[i] ELSE t[i - Len(u)]
      <3>1. u \in Seq(Frames) /\ t \in Seq(Frames) /\ sent' = u \o t
        BY <1>5, <1>8, <2>1
      <3>2. QED  BY <3>1, PutBehind
    <2>8. 1 \in 1..Len(sent') /\ sent'[1] = s
      BY <1>5, <1>6, <2>7
    <2>9. Tells(m)
      <3>1. (m \in DOMAIN live) # (m \in DOMAIN live') => m = created'
        BY <1>2
      <3>2. m = created' => Carries(sent'[1], m)
        BY <1>6, <2>8
      <3>3. QED  BY <2>6, <2>8, <3>1, <3>2 DEF Tells
    <2>10. Proper
      <3>1. ASSUME NEW i \in 1..Len(sent') PROVE sent'[i].kind # "end"
        <4>1. sent'[i] = s \/ \E j \in 1..Len(t) : sent'[i] = t[j]
          BY <1>5, <2>7
        <4>2. QED  BY <1>1, <2>1, <4>1
      <3>2. QED  BY <2>7, <3>1 DEF Proper
    <2>11. QED  BY <2>9, <2>10
  <1>9. QED  BY <1>3, <1>7, <1>8

\* So every step tells of every message what it does to it.
LEMMA StepTells ==
  ASSUME IInv, Told, Next, NEW m \in New
  PROVE  Tells(m) /\ Proper
  BY StepKinds, QuietTells, FlushTells, BirthTells, AnnounceTells, ReplayTells

-----------------------------------------------------------------------------
(* The turn's messages among the others                                    *)

\* Messages that are none of the turn's.
Ground(us) == us \in Seq(Msgs) /\ IsInjective(us) /\ \A i \in 1..Len(us) : us[i] \notin New

\* What it holds, place by place.
LEMMA SplicedElements ==
  ASSUME NEW us, Ground(us), NEW p \in 1..Len(us), NEW k \in 0..MaxMessages
  PROVE  LET s == Spliced(us, p, k)
         IN  /\ s \in Seq(Msgs) /\ Len(s) = Len(us) + k
             /\ \A i \in 1..p : s[i] = us[i] /\ i \in 1..Len(us)
             /\ \A i \in (p + 1)..(p + k) : s[i] = i - p /\ s[i] \in New
             /\ \A i \in (p + k + 1)..(Len(us) + k) : s[i] = us[i - k] /\ i - k \in 1..Len(us)
  <1> DEFINE s == Spliced(us, p, k)
             n == Len(us)
  <1>1. us \in Seq(Msgs) /\ n \in Nat /\ p \in 1..n /\ k \in 0..MaxMessages /\ MaxMessages \in Nat
    BY TurnAssumption DEF Ground
  <1>2. s = [i \in 1..(n + k) |-> IF i <= p THEN us[i] ELSE IF i <= p + k THEN i - p ELSE us[i - k]]
    BY DEF Spliced
  <1>3. \A i \in 1..n : us[i] \in Msgs
    BY <1>1
  <1> HIDE DEF s, n
  <1>4. \A i \in 1..p : s[i] = us[i] /\ i \in 1..n
    BY <1>1, <1>2
  <1>5. \A i \in (p + 1)..(p + k) : s[i] = i - p /\ s[i] \in New
    BY <1>1, <1>2 DEF New
  <1>6. \A i \in (p + k + 1)..(n + k) : s[i] = us[i - k] /\ i - k \in 1..n
    BY <1>1, <1>2
  <1>7. \A i \in 1..(n + k) : \/ i \in 1..p \/ i \in (p + 1)..(p + k) \/ i \in (p + k + 1)..(n + k)
    BY <1>1
  <1>8. \A i \in 1..(n + k) : s[i] \in Msgs
    BY <1>3, <1>4, <1>5, <1>6, <1>7 DEF Msgs
  <1>9. s \in Seq(Msgs) /\ Len(s) = n + k
    <2>1. n + k \in Nat
      BY <1>1
    <2>2. s \in [1..(n + k) -> Msgs]
      BY <1>2, <1>8
    <2>3. QED  BY <2>1, <2>2
  <1>10. QED  BY <1>4, <1>5, <1>6, <1>9 DEF s, n

\* Which of the turn's messages are there.
LEMMA SplicedSet ==
  ASSUME NEW us, Ground(us), NEW p \in 1..Len(us), NEW k \in 0..MaxMessages
  PROVE  /\ \A m \in New : m \in ToSet(Spliced(us, p, k)) <=> m <= k
         /\ \A u : u \notin New => (u \in ToSet(Spliced(us, p, k)) <=> u \in ToSet(us))
  <1> DEFINE s == Spliced(us, p, k)
             n == Len(us)
  <1>1. /\ n \in Nat /\ p \in 1..n /\ k \in Nat /\ k <= MaxMessages /\ MaxMessages \in Nat
        /\ us \in Seq(Msgs) /\ \A i \in 1..n : us[i] \notin New
    BY TurnAssumption DEF Ground
  <1>2. /\ s \in Seq(Msgs) /\ Len(s) = n + k
        /\ \A i \in 1..p : s[i] = us[i] /\ i \in 1..n
        /\ \A i \in (p + 1)..(p + k) : s[i] = i - p /\ s[i] \in New
        /\ \A i \in (p + k + 1)..(n + k) : s[i] = us[i - k] /\ i - k \in 1..n
    BY SplicedElements
  <1>3. DOMAIN s = 1..(n + k) /\ DOMAIN us = 1..n
    BY <1>1, <1>2
  <1> HIDE DEF s, n
  <1>4. \A i \in 1..(n + k) : \/ i \in 1..p \/ i \in (p + 1)..(p + k) \/ i \in (p + k + 1)..(n + k)
    BY <1>1
  <1>5. ASSUME NEW m \in New PROVE m \in ToSet(s) <=> m <= k
    <2>1. m \in Nat /\ m > 0
      BY DEF New
    <2>2. ASSUME m \in ToSet(s) PROVE m <= k
      <3>1. PICK i \in 1..(n + k) : s[i] = m
        BY <1>3, <2>2 DEF ToSet
      <3>2. i \in (p + 1)..(p + k) /\ m = i - p
        BY <1>1, <1>2, <1>4, <3>1
      <3>3. QED  BY <1>1, <3>2
    <2>3. ASSUME m <= k PROVE m \in ToSet(s)
      <3>1. p + m \in (p + 1)..(p + k) /\ p + m \in 1..(n + k) /\ (p + m) - p = m
        BY <1>1, <2>1, <2>3
      <3>2. s[p + m] = m
        BY <1>2, <3>1
      <3>3. QED  BY <1>3, <3>1, <3>2 DEF ToSet
    <2>4. QED  BY <2>2, <2>3
  <1>6. ASSUME NEW u, u \notin New PROVE u \in ToSet(s) <=> u \in ToSet(us)
    <2>1. ASSUME u \in ToSet(s) PROVE u \in ToSet(us)
      <3>1. PICK i \in 1..(n + k) : s[i] = u
        BY <1>3, <2>1 DEF ToSet
      <3>2. \E j \in 1..n : us[j] = u
        BY <1>2, <1>4, <1>6, <3>1
      <3>3. QED  BY <1>3, <3>2 DEF ToSet
    <2>2. ASSUME u \in ToSet(us) PROVE u \in ToSet(s)
      <3>1. PICK j \in 1..n : us[j] = u
        BY <1>3, <2>2 DEF ToSet
      <3>2. CASE j <= p
        <4>1. j \in 1..p /\ j \in 1..(n + k)
          BY <1>1, <3>1, <3>2
        <4>2. QED  BY <1>2, <1>3, <3>1, <4>1 DEF ToSet
      <3>3. CASE ~(j <= p)
        <4>1. j + k \in (p + k + 1)..(n + k) /\ j + k \in 1..(n + k) /\ (j + k) - k = j
          BY <1>1, <3>1, <3>3
        <4>2. s[j + k] = us[j]
          BY <1>2, <4>1
        <4>3. QED  BY <1>3, <3>1, <4>1, <4>2 DEF ToSet
      <3>4. QED  BY <3>2, <3>3
    <2>3. QED  BY <2>1, <2>2
  <1>7. QED  BY <1>5, <1>6 DEF s

\* The next one goes behind the last, or behind the p-th of the others.
LEMMA SpliceOne ==
  ASSUME NEW us, Ground(us), NEW p \in 1..Len(us), NEW k \in 0..MaxMessages, k + 1 \in New,
         NEW a, a = IF k = 0 THEN us[p] ELSE k
  PROVE  LET s == Spliced(us, p, k)
         IN  /\ a \in ToSet(s) /\ (CHOOSE i \in 1..Len(s) : s[i] = a) = p + k
             /\ InsertAt(s, 1 + (CHOOSE i \in 1..Len(s) : s[i] = a), k + 1) = Spliced(us, p, k + 1)
  <1> DEFINE s == Spliced(us, p, k)
             u == Spliced(us, p, k + 1)
             n == Len(us)
             At(i) == s[i] = a
             t == InsertAt(s, 1 + p + k, k + 1)
  <1>1. /\ n \in Nat /\ p \in 1..n /\ k \in Nat /\ k + 1 \in 0..MaxMessages
        /\ \A i \in 1..n : us[i] \notin New
        /\ \A i, j \in 1..n : us[i] = us[j] => i = j
    <2>1. us \in Seq(Msgs) /\ IsInjective(us) /\ \A i \in 1..n : us[i] \notin New
      BY DEF Ground
    <2>2. DOMAIN us = 1..n
      BY <2>1
    <2>3. \A i, j \in 1..n : us[i] = us[j] => i = j
      BY <2>1, <2>2 DEF IsInjective
    <2>4. QED  BY <2>1, <2>3, TurnAssumption DEF New
  <1>2. /\ s \in Seq(Msgs) /\ Len(s) = n + k
        /\ \A i \in 1..p : s[i] = us[i] /\ i \in 1..n
        /\ \A i \in (p + 1)..(p + k) : s[i] = i - p /\ s[i] \in New
        /\ \A i \in (p + k + 1)..(n + k) : s[i] = us[i - k] /\ i - k \in 1..n
    BY SplicedElements
  <1>3. /\ u \in Seq(Msgs) /\ Len(u) = n + (k + 1)
        /\ \A i \in 1..p : u[i] = us[i] /\ i \in 1..n
        /\ \A i \in (p + 1)..(p + (k + 1)) : u[i] = i - p /\ u[i] \in New
        /\ \A i \in (p + (k + 1) + 1)..(n + (k + 1)) : u[i] = us[i - (k + 1)] /\ i - (k + 1) \in 1..n
    BY <1>1, SplicedElements
  <1> HIDE DEF s, u, n, t
  <1>4. p + k \in 1..(n + k) /\ At(p + k)
    <2>1. CASE k = 0
      BY <1>1, <1>2, <2>1 DEF n
    <2>2. CASE k # 0
      BY <1>1, <1>2, <2>2
    <2>3. QED  BY <2>1, <2>2
  <1>5. ASSUME NEW i \in 1..(n + k), At(i) PROVE i = p + k
    <2>1. \/ i \in 1..p \/ i \in (p + 1)..(p + k) \/ i \in (p + k + 1)..(n + k)
      BY <1>1
    <2>2. CASE k = 0
      <3>1. a = us[p]
        BY <2>2
      <3>2. \/ i \in 1..p /\ us[i] = a
            \/ i - k \in 1..n /\ us[i - k] = a
        BY <1>1, <1>2, <1>5, <2>1, <2>2
      <3>3. QED  BY <1>1, <2>2, <3>1, <3>2
    <2>3. CASE k # 0
      <3>1. a = k /\ k \in New
        BY <1>1, <2>3 DEF New
      <3>2. i \in (p + 1)..(p + k) /\ i - p = k
        BY <1>1, <1>2, <1>5, <2>1, <3>1, SMTT(30)
      <3>3. QED  BY <1>1, <3>2
    <2>4. QED  BY <2>2, <2>3
  <1>6. (CHOOSE i \in 1..Len(s) : s[i] = a) = p + k
    <2>1. (CHOOSE i \in 1..Len(s) : s[i] = a) = CHOOSE i \in 1..(n + k) : At(i)
      BY <1>2
    <2> HIDE DEF At
    <2>2. QED  BY <1>4, <1>5, <2>1
  <1>7. a \in ToSet(s)
    <2>1. p + k \in DOMAIN s /\ s[p + k] = a
      BY <1>2, <1>4
    <2>2. QED  BY <2>1 DEF ToSet
  <1>8. /\ t \in Seq(Msgs) /\ Len(t) = n + k + 1 /\ t[1 + p + k] = k + 1
        /\ \A j \in 1..(p + k) : t[j] = s[j]
        /\ \A j \in (1 + p + k)..(n + k) : t[j + 1] = s[j]
    <2> DEFINE q == 1 + p + k
               e == k + 1
    <2>1. q \in 1..(Len(s) + 1) /\ e \in Msgs /\ s \in Seq(Msgs) /\ q - 1 = p + k
      BY <1>1, <1>2 DEF Msgs
    <2>2. t = InsertAt(s, q, e)
      BY DEF t
    <2> HIDE DEF q, e
    <2>3. /\ InsertAt(s, q, e) \in Seq(Msgs) /\ Len(InsertAt(s, q, e)) = Len(s) + 1
          /\ InsertAt(s, q, e)[q] = e
          /\ \A j \in 1..(q - 1) : InsertAt(s, q, e)[j] = s[j]
          /\ \A j \in q..Len(s) : InsertAt(s, q, e)[j + 1] = s[j]
      <3>1. q \in 1..(Len(s) + 1) /\ e \in Msgs /\ s \in Seq(Msgs)
        BY <2>1
      <3>2. QED  BY <3>1, InsertAtElements
    <2>4. QED  BY <1>2, <2>1, <2>2, <2>3 DEF q, e
  <1>9. t = u
    <2>1. Len(t) = Len(u) /\ Len(t) = n + k + 1
      BY <1>1, <1>3, <1>8
    <2>2. ASSUME NEW i \in 1..(n + k + 1) PROVE t[i] = u[i]
      <3>1. CASE i <= p
        <4>1. i \in 1..p /\ i \in 1..(p + k)
          BY <1>1, <3>1
        <4>2. QED  BY <1>2, <1>3, <1>8, <4>1
      <3>2. CASE i > p /\ i <= p + k
        <4>1. i \in (p + 1)..(p + k) /\ i \in 1..(p + k) /\ i \in (p + 1)..(p + (k + 1))
          BY <1>1, <3>2
        <4>2. QED  BY <1>2, <1>3, <1>8, <4>1
      <3>3. CASE i = 1 + p + k
        <4>1. i \in (p + 1)..(p + (k + 1)) /\ i - p = k + 1
          BY <1>1, <3>3
        <4>2. QED  BY <1>3, <1>8, <3>3, <4>1
      <3>4. CASE i > 1 + p + k
        <4>1. /\ i - 1 \in (1 + p + k)..(n + k) /\ (i - 1) + 1 = i
              /\ i \in (p + (k + 1) + 1)..(n + (k + 1))
              /\ i - 1 \in (p + k + 1)..(n + k)
              /\ (i - 1) - k = i - (k + 1)
          BY <1>1, <3>4
        <4>2. t[i] = s[i - 1] /\ s[i - 1] = us[(i - 1) - k] /\ u[i] = us[i - (k + 1)]
          BY <1>2, <1>3, <1>8, <4>1
        <4>3. QED  BY <4>1, <4>2
      <3>5. QED  BY <1>1, <3>1, <3>2, <3>3, <3>4
    <2>3. QED  BY <1>3, <1>8, <2>1, <2>2, SeqEqual
  <1>10. 1 + (p + k) = 1 + p + k
    BY <1>1
  <1>11. QED  BY <1>6, <1>7, <1>9, <1>10 DEF s, u, t

\* Another that is posted goes behind them all.
LEMMA SpliceBefore ==
  ASSUME NEW us, Ground(us), NEW p \in 1..Len(us), NEW k \in 0..MaxMessages, NEW x \in Msgs,
         Ground(Append(us, x))
  PROVE  Append(Spliced(us, p, k), x) = Spliced(Append(us, x), p, k)
  <1> DEFINE s == Spliced(us, p, k)
             vs == Append(us, x)
             u == Spliced(vs, p, k)
             t == Append(s, x)
             n == Len(us)
  <1>1. /\ us \in Seq(Msgs) /\ n \in Nat /\ p \in 1..n /\ k \in Nat
        /\ Len(vs) = n + 1 /\ vs[n + 1] = x /\ \A i \in 1..n : vs[i] = us[i]
    BY TurnAssumption DEF Ground
  <1>2. /\ s \in Seq(Msgs) /\ Len(s) = n + k
        /\ \A i \in 1..p : s[i] = us[i] /\ i \in 1..n
        /\ \A i \in (p + 1)..(p + k) : s[i] = i - p
        /\ \A i \in (p + k + 1)..(n + k) : s[i] = us[i - k] /\ i - k \in 1..n
    BY SplicedElements
  <1> HIDE DEF vs
  <1>3. /\ u \in Seq(Msgs) /\ Len(u) = Len(vs) + k
        /\ \A i \in 1..p : u[i] = vs[i]
        /\ \A i \in (p + 1)..(p + k) : u[i] = i - p
        /\ \A i \in (p + k + 1)..(Len(vs) + k) : u[i] = vs[i - k]
    <2>1. p \in 1..Len(vs) /\ Ground(vs)
      BY <1>1 DEF vs
    <2>2. QED  BY <2>1, SplicedElements
  <1> HIDE DEF s, u, n
  <1>4. /\ t \in Seq(Msgs) /\ Len(t) = n + k + 1 /\ t[n + k + 1] = x
        /\ \A i \in 1..(n + k) : t[i] = s[i]
    <2> DEFINE l == n + k
    <2>1. l \in Nat /\ s \in Seq(Msgs) /\ Len(s) = l /\ x \in Msgs
      BY <1>1, <1>2
    <2> HIDE DEF l
    <2>2. /\ t \in Seq(Msgs) /\ Len(t) = l + 1 /\ t[l + 1] = x
          /\ \A i \in 1..l : t[i] = s[i]
      BY <2>1
    <2>3. QED  BY <2>2 DEF l
  <1> HIDE DEF t
  <1>5. ASSUME NEW i \in 1..(n + k + 1) PROVE t[i] = u[i]
    <2>1. CASE i = n + k + 1
      <3>1. i \in (p + k + 1)..(Len(vs) + k) /\ i - k = n + 1
        BY <1>1, <2>1
      <3>2. QED  BY <1>1, <1>3, <1>4, <2>1, <3>1
    <2>2. CASE i \in 1..p
      <3>1. i \in 1..(n + k) /\ i \in 1..n
        BY <1>1, <2>2
      <3>2. QED  BY <1>1, <1>2, <1>3, <1>4, <2>2, <3>1
    <2>3. CASE i \in (p + 1)..(p + k)
      <3>1. i \in 1..(n + k)
        BY <1>1, <2>3
      <3>2. QED  BY <1>2, <1>3, <1>4, <2>3, <3>1
    <2>4. CASE i \in (p + k + 1)..(n + k)
      <3>1. i \in 1..(n + k) /\ i \in (p + k + 1)..(Len(vs) + k)
        BY <1>1, <2>4
      <3>2. QED  BY <1>1, <1>2, <1>3, <1>4, <2>4, <3>1
    <2>5. i = n + k + 1 \/ i \in 1..p \/ i \in (p + 1)..(p + k) \/ i \in (p + k + 1)..(n + k)
      <3>1. n \in Nat /\ p \in 1..n /\ k \in Nat
        BY <1>1
      <3>2. QED  BY <3>1
    <2>6. QED  BY <2>1, <2>2, <2>3, <2>4, <2>5
  <1>6. Len(t) = Len(u)
    BY <1>1, <1>3, <1>4
  <1>7. QED  BY <1>3, <1>4, <1>5, <1>6, SeqEqual DEF t, s, u, vs

-----------------------------------------------------------------------------
(* Frames that come                                                        *)

\* The levels once the first frame has come.
LEMMA LevelsTail ==
  ASSUME NEW q \in Seq(Frames), q # <<>>, NEW m, NEW a, Levels(q, m, a)
  PROVE  \E lev \in [0..Len(Tail(q)) -> 0..MaxText] :
            /\ Levels(Tail(q), m, lev) /\ lev[0] = a[1] /\ lev[Len(Tail(q))] = a[Len(q)]
            /\ Settles(q, m, a) => Settles(Tail(q), m, lev)
  <1> DEFINE t == Tail(q)
             n == Len(q)
             k == Len(t)
             lev == [i \in 0..k |-> a[i + 1]]
  <1>1. /\ n \in Nat \ {0} /\ k = n - 1
        /\ \A i \in 1..k : t[i] = q[i + 1] /\ i + 1 \in 1..n
        /\ \A i \in 1..n : i > 1 => i - 1 \in 1..k /\ t[i - 1] = q[i]
    BY TakenOff
  <1>2. /\ a \in [0..n -> 0..MaxText]
        /\ \A i \in 1..n : /\ a[i] = a[i - 1] + (IF Adds(q[i], m) THEN q[i].n ELSE 0)
                           /\ Carries(q[i], m) => q[i].text = a[i]
    BY DEF Levels
  <1>3. /\ lev \in [0..k -> 0..MaxText]
        /\ \A i \in 0..k : lev[i] = a[i + 1] /\ i + 1 \in 0..n
    BY <1>1, <1>2
  <1> HIDE DEF t, n, k, lev
  <1>4. ASSUME NEW i \in 1..k
        PROVE  /\ lev[i] = lev[i - 1] + (IF Adds(t[i], m) THEN t[i].n ELSE 0)
               /\ Carries(t[i], m) => t[i].text = lev[i]
    <2>1. i + 1 \in 1..n /\ t[i] = q[i + 1] /\ (i + 1) - 1 = i /\ (i - 1) + 1 = i
          /\ i \in 0..k /\ i - 1 \in 0..k
      BY <1>1
    <2>2. lev[i] = a[i + 1] /\ lev[i - 1] = a[i]
      <3>1. lev[i] = a[i + 1] /\ lev[i - 1] = a[(i - 1) + 1]
        BY <1>3, <2>1
      <3>2. QED  BY <2>1, <3>1
    <2>3. /\ a[i + 1] = a[(i + 1) - 1] + (IF Adds(q[i + 1], m) THEN q[i + 1].n ELSE 0)
          /\ Carries(q[i + 1], m) => q[i + 1].text = a[i + 1]
      BY <1>2, <2>1
    <2>4. QED  BY <2>1, <2>2, <2>3
  <1>5. Levels(t, m, lev)
    BY <1>3, <1>4 DEF Levels, k
  <1>6. lev[0] = a[1] /\ lev[k] = a[n]
    <2>1. 0 \in 0..k /\ k \in 0..k /\ 0 + 1 = 1 /\ k + 1 = n
      BY <1>1
    <2>2. QED  BY <1>3, <2>1
  <1>7. ASSUME Settles(q, m, a), NEW i \in 0..k
        PROVE  lev[i] = lev[k] \/ \E j \in (i + 1)..k : Carries(t[j], m)
    <2>1. i + 1 \in 0..n
      BY <1>3
    <2>2. a[i + 1] = a[n] \/ \E j \in ((i + 1) + 1)..n : Carries(q[j], m)
      BY <1>7, <2>1 DEF Settles, n
    <2>3. ASSUME NEW j \in ((i + 1) + 1)..n, Carries(q[j], m)
          PROVE  \E g \in (i + 1)..k : Carries(t[g], m)
      <3>1. j \in 1..n /\ j > 1 /\ j - 1 \in (i + 1)..k
        BY <1>1, <2>1
      <3>2. t[j - 1] = q[j]
        BY <1>1, <3>1
      <3>3. QED  BY <2>3, <3>1, <3>2
    <2>4. lev[i] = a[i + 1]
      BY <1>3
    <2>5. QED  BY <1>6, <2>2, <2>3, <2>4
  <1>8. Settles(q, m, a) => Settles(t, m, lev)
    BY <1>7 DEF Settles, k
  <1>9. QED  BY <1>3, <1>5, <1>6, <1>8 DEF t, n, k

\* What arrives along t comes behind what arrives along q.
LEMMA ArrivesBehind ==
  ASSUME NEW q \in Seq(Frames), NEW t \in Seq(Frames), NEW p, NEW j, NEW k, NEW l,
         Arrives(q, p, j, k), Arrives(t, p, k, l)
  PROVE  Arrives(q \o t, p, j, l)
  <1> DEFINE x == q \o t
             c == Len(q)
             d == Len(t)
             S == 0..MaxMessages
  <1>1. /\ Len(x) = c + d /\ c \in Nat /\ d \in Nat
        /\ \A i \in 1..c : x[i] = q[i]
        /\ \A i \in 1..d : x[c + i] = t[i]
    BY PutBehind
  <1>2. PICK a \in [0..c -> S] : Arriving(q, p, a) /\ a[0] = j /\ a[c] = k
    BY DEF Arrives
  <1>3. PICK b \in [0..d -> S] : Arriving(t, p, b) /\ b[0] = k /\ b[d] = l
    BY DEF Arrives
  <1> DEFINE seen == Joined(q, t, a, b)
             At(f, v, w) == \/ /\ f.kind = "message" /\ w = v + 1 /\ f.id = w
                               /\ f.after = IF w = 1 THEN Base(p) ELSE v
                            \/ /\ w = v
                               /\ f.kind \in {"message", "delta"} => f.id <= w
  <1>4. /\ seen \in [0..(c + d) -> S]
        /\ \A i \in 0..c : seen[i] = a[i]
        /\ \A i \in 0..d : seen[c + i] = b[i]
    <2>1. a[c] = b[0] /\ Len(q) = c /\ Len(t) = d /\ c \in Nat /\ d \in Nat
      BY <1>1, <1>2, <1>3
    <2> HIDE DEF c, d, S
    <2>2. QED  BY <2>1, JoinedLevels
  <1>5. /\ \A i \in 1..c : At(q[i], a[i - 1], a[i])
        /\ \A i \in 1..d : At(t[i], b[i - 1], b[i])
    BY <1>2, <1>3 DEF Arriving
  <1> HIDE DEF x, seen, c, d, At
  <1>6. ASSUME NEW i \in 1..Len(x) PROVE At(x[i], seen[i - 1], seen[i])
    <2>1. CASE i <= c
      <3>1. i \in 1..c /\ i \in 0..c /\ i - 1 \in 0..c
        BY <1>1, <2>1
      <3>2. QED  BY <1>1, <1>4, <1>5, <3>1
    <2>2. CASE ~(i <= c)
      <3>1. PICK h \in 1..d : i = c + h
        <4>1. i - c \in 1..d /\ c + (i - c) = i
          BY <1>1, <2>2
        <4>2. QED  BY <4>1
      <3>2. h \in 0..d /\ h - 1 \in 0..d /\ i - 1 = c + (h - 1)
        BY <1>1, <3>1
      <3>3. seen[i] = b[h] /\ seen[i - 1] = b[h - 1] /\ x[i] = t[h]
        BY <1>1, <1>4, <3>1, <3>2
      <3>4. QED  BY <1>5, <3>1, <3>3
    <2>3. QED  BY <2>1, <2>2
  <1>7. seen \in [0..Len(x) -> S] /\ seen[0] = j /\ seen[Len(x)] = l
    <2>1. 0 \in 0..c /\ d \in 0..d
      BY <1>1
    <2>2. QED  BY <1>1, <1>2, <1>3, <1>4, <2>1
  <1>8. Arriving(x, p, seen)
    BY <1>6, <1>7 DEF Arriving, At
  <1>9. QED  BY <1>7, <1>8 DEF Arrives, x

\* What the next frame does to what is on screen.
LEMMA ArrivesTail ==
  ASSUME NEW q \in Seq(Frames), q # <<>>, NEW p, NEW k, NEW l, Arrives(q, p, k, l)
  PROVE  LET f == Head(q)
         IN  /\ k \in 0..MaxMessages
             /\ \/ /\ f.kind = "message" /\ k + 1 \in 0..MaxMessages /\ f.id = k + 1
                   /\ f.after = IF k = 0 THEN Base(p) ELSE k
                   /\ Arrives(Tail(q), p, k + 1, l)
                \/ /\ f.kind \in {"message", "delta"} => f.id <= k
                   /\ Arrives(Tail(q), p, k, l)
  <1> DEFINE t == Tail(q)
             n == Len(q)
             d == Len(t)
             S == 0..MaxMessages
             At(f, v, w) == \/ /\ f.kind = "message" /\ w = v + 1 /\ f.id = w
                               /\ f.after = IF w = 1 THEN Base(p) ELSE v
                            \/ /\ w = v
                               /\ f.kind \in {"message", "delta"} => f.id <= w
  <1>1. /\ n \in Nat \ {0} /\ d = n - 1 /\ 1 \in 1..n /\ Head(q) = q[1]
        /\ \A i \in 1..d : t[i] = q[i + 1] /\ i + 1 \in 1..n
    BY TakenOff
  <1>2. PICK a \in [0..n -> S] : Arriving(q, p, a) /\ a[0] = k /\ a[n] = l
    BY DEF Arrives
  <1>3. \A i \in 1..n : At(q[i], a[i - 1], a[i])
    BY <1>2 DEF Arriving
  <1> DEFINE seen == [i \in 0..d |-> a[i + 1]]
  <1>4. /\ seen \in [0..d -> S]
        /\ \A i \in 0..d : seen[i] = a[i + 1] /\ i + 1 \in 0..n
    BY <1>1, <1>2
  <1> HIDE DEF t, n, d, seen, At
  <1>5. ASSUME NEW i \in 1..d PROVE At(t[i], seen[i - 1], seen[i])
    <2>1. i + 1 \in 1..n /\ t[i] = q[i + 1] /\ (i + 1) - 1 = i /\ (i - 1) + 1 = i
          /\ i \in 0..d /\ i - 1 \in 0..d
      BY <1>1
    <2>2. seen[i] = a[i + 1] /\ seen[i - 1] = a[i]
      <3>1. seen[i] = a[i + 1] /\ seen[i - 1] = a[(i - 1) + 1]
        BY <1>4, <2>1
      <3>2. QED  BY <2>1, <3>1
    <2>3. At(q[i + 1], a[(i + 1) - 1], a[i + 1])
      BY <1>3, <2>1
    <2>4. QED  BY <2>1, <2>2, <2>3
  <1>6. seen[0] = a[1] /\ seen[d] = l
    <2>1. 0 \in 0..d /\ d \in 0..d /\ 0 + 1 = 1 /\ d + 1 = n
      BY <1>1
    <2>2. QED  BY <1>2, <1>4, <2>1
  <1>7. Arriving(t, p, seen)
    BY <1>4, <1>5 DEF Arriving, At, d
  <1>8. Arrives(t, p, a[1], l)
    BY <1>4, <1>6, <1>7 DEF Arrives, d
  <1>9. At(Head(q), k, a[1]) /\ k \in S /\ a[1] \in S
    <2>1. 0 \in 0..n /\ 1 \in 0..n /\ 1 - 1 = 0
      BY <1>1
    <2>2. At(q[1], a[1 - 1], a[1])
      BY <1>1, <1>3
    <2>3. QED  BY <1>1, <1>2, <2>1, <2>2
  <1>10. CASE a[1] = k /\ (Head(q).kind \in {"message", "delta"} => Head(q).id <= a[1])
    BY <1>8, <1>9, <1>10 DEF t
  <1>11. CASE /\ Head(q).kind = "message" /\ a[1] = k + 1 /\ Head(q).id = a[1]
              /\ Head(q).after = IF a[1] = 1 THEN Base(p) ELSE k
    <2>1. a[1] = 1 <=> k = 0
      BY <1>9, <1>11
    <2>2. QED  BY <1>8, <1>9, <1>11, <2>1 DEF t
  <1>12. QED  BY <1>9, <1>10, <1>11 DEF At

\* Nothing on its way brings nothing.
LEMMA NoneArrives ==
  ASSUME NEW p, NEW k, NEW l, Arrives(<<>>, p, k, l)
  PROVE  k = l
  BY DEF Arrives

\* Frames about messages that are known.
LEMMA KnownArrive ==
  ASSUME NEW t \in Seq(Frames), NEW p, NEW k \in 0..MaxMessages,
         \A i \in 1..Len(t) : t[i].kind \in {"message", "delta"} => t[i].id <= k
  PROVE  Arrives(t, p, k, k)
  <1> DEFINE n == Len(t)
             seen == [i \in 0..n |-> k]
  <1>1. n \in Nat
    OBVIOUS
  <1>2. seen \in [0..n -> 0..MaxMessages] /\ \A i \in 0..n : seen[i] = k
    OBVIOUS
  <1> HIDE DEF n, seen
  <1>3. \A i \in 1..n : i \in 0..n /\ i - 1 \in 0..n
    BY <1>1
  <1>4. 0 \in 0..n /\ n \in 0..n
    BY <1>1
  <1>5. \A i \in 1..n : seen[i] = seen[i - 1]
                        /\ (t[i].kind \in {"message", "delta"} => t[i].id <= seen[i])
    BY <1>2, <1>3 DEF n
  <1>6. Arriving(t, p, seen)
    BY <1>2, <1>5 DEF Arriving, n
  <1>7. QED  BY <1>2, <1>4, <1>6 DEF Arrives, n

\* The next message, and then more about those that are known.
LEMMA NextArrives ==
  ASSUME NEW t \in Seq(Frames), t # <<>>, NEW p, NEW k \in 0..MaxMessages, k + 1 \in 0..MaxMessages,
         t[1].kind = "message", t[1].id = k + 1, t[1].after = IF k = 0 THEN Base(p) ELSE k,
         \A i \in 2..Len(t) : t[i].kind \in {"message", "delta"} => t[i].id <= k + 1
  PROVE  Arrives(t, p, k, k + 1)
  <1> DEFINE n == Len(t)
             seen == [i \in 0..n |-> IF i = 0 THEN k ELSE k + 1]
  <1>1. n \in Nat \ {0}
    BY EmptySeq
  <1>2. /\ seen \in [0..n -> 0..MaxMessages] /\ \A i \in 1..n : seen[i] = k + 1
        /\ seen[0] = k
    BY <1>1
  <1> HIDE DEF n, seen
  <1>3. \A i \in 1..n : i = 1 \/ (i \in 2..n /\ i - 1 \in 1..n)
    BY <1>1
  <1>4. 0 \in 0..n /\ n \in 1..n /\ (k + 1 = 1 <=> k = 0) /\ 1 - 1 = 0 /\ 1 \in 1..n
    BY <1>1
  <1>5. ASSUME NEW i \in 1..n
        PROVE  \/ /\ t[i].kind = "message" /\ seen[i] = seen[i - 1] + 1 /\ t[i].id = seen[i]
                  /\ t[i].after = IF seen[i] = 1 THEN Base(p) ELSE seen[i - 1]
               \/ /\ seen[i] = seen[i - 1]
                  /\ t[i].kind \in {"message", "delta"} => t[i].id <= seen[i]
    <2>1. CASE i = 1
      BY <1>2, <1>4, <2>1
    <2>2. CASE i \in 2..n /\ i - 1 \in 1..n
      BY <1>2, <2>2 DEF n
    <2>3. QED  BY <1>3, <2>1, <2>2
  <1>6. Arriving(t, p, seen)
    BY <1>2, <1>5 DEF Arriving, n
  <1>7. QED  BY <1>2, <1>4, <1>6 DEF Arrives, n

-----------------------------------------------------------------------------
(* Where the turn hangs                                                    *)

\* A set of numbers has a least one.
LEMMA Least ==
  ASSUME NEW T, T \subseteq Nat, T # {}
  PROVE  \E x \in T : \A y \in T : x <= y
  <1> DEFINE R == {ss \in Nat \X Nat : ss[1] < ss[2]}
  <1>1. IsWellFoundedOn(R, Nat)
    BY NatLessThanWellFounded DEF OpToRel
  <1> HIDE DEF R
  <1>2. PICK x \in T : \A y \in T : ~(<<y, x>> \in R)
    BY <1>1, WFMin
  <1>3. \A y \in T : ~(y < x)
    BY <1>2 DEF R
  <1>4. QED  BY <1>3

\* What RemoveFirst() returns.
LEMMA Removed ==
  ASSUME NEW S, NEW s \in Seq(S), NEW e
  PROVE  /\ e \notin ToSet(s) => RemoveFirst(s, e) = s
         /\ RemoveFirst(s, e) \in Seq(S)
         /\ \A x \in ToSet(s) : x # e => x \in ToSet(RemoveFirst(s, e))
  <1>1. DOMAIN s = 1..Len(s) /\ Len(s) \in Nat
    OBVIOUS
  <1>2. CASE ~\E i \in 1..Len(s) : s[i] = e
    BY <1>2 DEF RemoveFirst
  <1>3. CASE \E i \in 1..Len(s) : s[i] = e
    <2> DEFINE I == {i \in 1..Len(s) : s[i] = e}
               c == CHOOSE x \in I : \A y \in I : x <= y
               a == SubSeq(s, 1, c - 1)
               b == SubSeq(s, c + 1, Len(s))
               t == RemoveFirst(s, e)
    <2>1. t = a \o b
      BY <1>3 DEF RemoveFirst, RemoveAt, SelectInSeq, Min
    <2>2. c \in I
      <3>1. I \subseteq Nat /\ I # {}
        BY <1>3
      <3> HIDE DEF I
      <3>2. \E x \in I : \A y \in I : x <= y
        BY <3>1, Least
      <3>3. QED  BY <3>2
    <2>3. c \in 1..Len(s) /\ s[c] = e
      BY <2>2
    <2> HIDE DEF c
    <2>4. a \in Seq(S) /\ Len(a) = c - 1 /\ \A i \in 1..(c - 1) : a[i] = s[i]
      BY <2>3
    <2>5. b \in Seq(S) /\ Len(b) = Len(s) - c /\ \A i \in 1..(Len(s) - c) : b[i] = s[c + i]
      BY <2>3
    <2> HIDE DEF a, b, t
    <2>6. /\ t \in Seq(S) /\ Len(t) = Len(a) + Len(b)
          /\ \A i \in 1..Len(a) : t[i] = a[i]
          /\ \A i \in 1..Len(b) : t[Len(a) + i] = b[i]
      <3>1. a \in Seq(S) /\ b \in Seq(S)
        BY <2>4, <2>5
      <3>2. QED  BY <2>1, <3>1, PutBehind
    <2>7. DOMAIN t = 1..(Len(s) - 1)
      BY <1>1, <2>3, <2>4, <2>5, <2>6
    <2>8. ASSUME NEW x \in ToSet(s), x # e PROVE x \in ToSet(t)
      <3>1. PICK i \in 1..Len(s) : s[i] = x
        BY <1>1, <2>8 DEF ToSet
      <3>2. CASE i < c
        <4>1. i \in 1..(c - 1) /\ i \in 1..(Len(s) - 1)
          BY <1>1, <2>3, <3>1, <3>2
        <4>2. t[i] = x
          BY <2>4, <2>6, <3>1, <4>1
        <4>3. QED  BY <2>7, <4>1, <4>2 DEF ToSet
      <3>3. CASE i > c
        <4>1. /\ i - c \in 1..(Len(s) - c) /\ c + (i - c) = i
              /\ (c - 1) + (i - c) \in 1..(Len(s) - 1)
          BY <1>1, <2>3, <3>1, <3>3
        <4>2. t[(c - 1) + (i - c)] = b[i - c]
          BY <2>4, <2>5, <2>6, <4>1
        <4>3. b[i - c] = x
          BY <2>5, <3>1, <4>1
        <4>4. QED  BY <2>7, <4>1, <4>2, <4>3 DEF ToSet
      <3>4. i # c
        BY <2>3, <2>8, <3>1
      <3>5. QED  BY <2>3, <3>1, <3>2, <3>3, <3>4
    <2>9. e \in ToSet(s)
      BY <1>1, <1>3 DEF ToSet
    <2>10. QED  BY <2>6, <2>8, <2>9 DEF t
  <1>4. QED  BY <1>2, <1>3

\* Taking an element out adds none, ...
LEMMA RemovedSet ==
  ASSUME NEW S, NEW s \in Seq(S), NEW e
  PROVE  ToSet(RemoveFirst(s, e)) \subseteq ToSet(s)
  <1>1. Len(s) \in Nat
    OBVIOUS
  <1>2. CASE \E i \in 1..Len(s) : s[i] = e
    <2> DEFINE I == {i \in 1..Len(s) : s[i] = e}
               c == CHOOSE x \in I : \A y \in I : x <= y
               a == SubSeq(s, 1, c - 1)
               b == SubSeq(s, c + 1, Len(s))
               t == RemoveFirst(s, e)
    <2>1. t = a \o b
      BY <1>2 DEF RemoveFirst, RemoveAt, SelectInSeq, Min
    <2>2. c \in I
      <3>1. I \subseteq Nat /\ I # {}
        BY <1>2
      <3> HIDE DEF I
      <3>2. \E x \in I : \A y \in I : x <= y
        BY <3>1, Least
      <3>3. QED  BY <3>2
    <2>3. c \in 1..Len(s)
      BY <2>2
    <2> HIDE DEF c
    <2>4. a \in Seq(S) /\ Len(a) = c - 1 /\ \A i \in 1..(c - 1) : a[i] = s[i]
      BY <2>3
    <2>5. b \in Seq(S) /\ Len(b) = Len(s) - c /\ \A i \in 1..(Len(s) - c) : b[i] = s[c + i]
      BY <2>3
    <2> HIDE DEF a, b, t
    <2>6. /\ Len(t) = Len(a) + Len(b) /\ t \in Seq(S)
          /\ \A i \in 1..(Len(a) + Len(b)) : t[i] = IF i <= Len(a) THEN a[i] ELSE b[i - Len(a)]
      <3>1. a \in Seq(S) /\ b \in Seq(S)
        BY <2>4, <2>5
      <3>2. QED  BY <2>1, <3>1, PutBehind
    <2>7. ASSUME NEW i \in 1..Len(t) PROVE \E j \in 1..Len(s) : t[i] = s[j]
      <3>1. /\ Len(s) \in Nat /\ Len(a) = c - 1 /\ Len(b) = Len(s) - c
            /\ i \in 1..(Len(a) + Len(b)) /\ t[i] = IF i <= Len(a) THEN a[i] ELSE b[i - Len(a)]
        BY <1>1, <2>4, <2>5, <2>6, <2>7
      <3>2. CASE i <= Len(a)
        <4>1. i \in 1..(c - 1) /\ i \in 1..Len(s)
          BY <2>3, <3>1, <3>2
        <4>2. t[i] = s[i]
          BY <2>4, <3>1, <3>2, <4>1
        <4>3. QED  BY <4>1, <4>2
      <3>3. CASE ~(i <= Len(a))
        <4>1. i - Len(a) \in 1..(Len(s) - c) /\ c + (i - Len(a)) \in 1..Len(s)
          BY <2>3, <3>1, <3>3
        <4>2. t[i] = s[c + (i - Len(a))]
          BY <2>5, <3>1, <3>3, <4>1
        <4>3. QED  BY <4>1, <4>2
      <3>4. QED  BY <3>2, <3>3
    <2>8. ASSUME NEW x \in ToSet(t) PROVE x \in ToSet(s)
      <3>1. DOMAIN t = 1..Len(t) /\ DOMAIN s = 1..Len(s)
        BY <2>6
      <3>2. PICK i \in 1..Len(t) : t[i] = x
        BY <2>8, <3>1 DEF ToSet
      <3>3. PICK j \in 1..Len(s) : t[i] = s[j]
        BY <2>7
      <3>4. QED  BY <3>1, <3>2, <3>3 DEF ToSet
    <2>9. QED  BY <2>8 DEF t
  <1>3. CASE ~\E i \in 1..Len(s) : s[i] = e
    BY <1>3 DEF RemoveFirst
  <1>4. QED  BY <1>2, <1>3

\* ... and inserting one adds that.
LEMMA InsertedSet ==
  ASSUME NEW S, NEW s \in Seq(S), NEW e \in S, NEW i \in 1..(Len(s) + 1)
  PROVE  ToSet(InsertAt(s, i, e)) \subseteq ToSet(s) \cup {e}
  <1> DEFINE t == InsertAt(s, i, e)
  <1>1. /\ t \in Seq(S) /\ Len(t) = Len(s) + 1 /\ t[i] = e /\ Len(s) \in Nat
        /\ \A j \in 1..(i - 1) : t[j] = s[j]
        /\ \A j \in i..Len(s) : t[j + 1] = s[j]
    BY InsertAtElements
  <1> HIDE DEF t
  <1>2. ASSUME NEW k \in 1..Len(t), k # i PROVE \E j \in 1..Len(s) : t[k] = s[j]
    <2>1. CASE k < i
      BY <1>1, <1>2, <2>1
    <2>2. CASE k > i
      <3>1. k - 1 \in i..Len(s) /\ (k - 1) + 1 = k /\ k - 1 \in 1..Len(s)
        BY <1>1, <1>2, <2>2
      <3>2. QED  BY <1>1, <3>1
    <2>3. QED  BY <1>1, <1>2, <2>1, <2>2
  <1>3. DOMAIN t = 1..Len(t) /\ DOMAIN s = 1..Len(s)
    BY <1>1
  <1>4. ASSUME NEW x \in ToSet(t) PROVE x \in ToSet(s) \cup {e}
    <2>1. PICK k \in 1..Len(t) : t[k] = x
      BY <1>3, <1>4 DEF ToSet
    <2>2. CASE k = i
      BY <1>1, <2>1, <2>2
    <2>3. CASE k # i
      BY <1>2, <1>3, <2>1, <2>3 DEF ToSet
    <2>4. QED  BY <2>2, <2>3
  <1>5. QED  BY <1>4 DEF t

\* So does appending one.
LEMMA AppendedSet ==
  ASSUME NEW S, NEW s \in Seq(S), NEW e \in S
  PROVE  ToSet(Append(s, e)) = ToSet(s) \cup {e}
  <1> DEFINE t == Append(s, e)
             n == Len(s)
  <1>1. /\ t \in Seq(S) /\ Len(t) = n + 1 /\ t[n + 1] = e /\ n \in Nat /\ s \in Seq(S)
        /\ \A j \in 1..n : t[j] = s[j]
    BY AppendProperties
  <1>2. 1..Len(t) = 1..n \cup {n + 1} /\ Len(s) = n
    BY <1>1
  <1> HIDE DEF t, n
  <1>3. DOMAIN t = 1..n \cup {n + 1} /\ DOMAIN s = 1..n
    BY <1>1, <1>2
  <1>4. QED  BY <1>1, <1>3 DEF ToSet, t

\* Sequences written out.
LEMMA Listed ==
  ASSUME NEW a \in Msgs, NEW b \in Msgs, NEW c \in Msgs
  PROVE  /\ Append(<<a>>, b) = <<a, b>> /\ Append(<<a, b>>, c) = <<a, b, c>>
         /\ Len(<<a>>) = 1 /\ Len(<<a, b>>) = 2 /\ Len(<<a, b, c>>) = 3
         /\ <<a>> # <<a, b>> /\ <<a, b>> # <<a, b, c>>
         /\ ToSet(<<a>>) = {a} /\ ToSet(<<a, b>>) = {a, b} /\ ToSet(<<a, b, c>>) = {a, b, c}
  <1>1. Append(<<a>>, b) = <<a, b>>
    <2> DEFINE s == Append(<<a>>, b)
               t == <<a, b>>
    <2>1. s \in Seq(Msgs) /\ Len(s) = 2 /\ s[1] = a /\ s[2] = b
      OBVIOUS
    <2>2. t \in Seq(Msgs) /\ Len(t) = 2 /\ t[1] = a /\ t[2] = b
      OBVIOUS
    <2> HIDE DEF s, t
    <2>3. s = t
      BY <2>1, <2>2
    <2>4. QED  BY <2>3 DEF s, t
  <1>2. Append(<<a, b>>, c) = <<a, b, c>>
    <2> DEFINE s == Append(<<a, b>>, c)
               t == <<a, b, c>>
    <2>1. s \in Seq(Msgs) /\ Len(s) = 3 /\ s[1] = a /\ s[2] = b /\ s[3] = c
      OBVIOUS
    <2>2. t \in Seq(Msgs) /\ Len(t) = 3 /\ t[1] = a /\ t[2] = b /\ t[3] = c
      OBVIOUS
    <2> HIDE DEF s, t
    <2>3. s = t
      BY <2>1, <2>2
    <2>4. QED  BY <2>3 DEF s, t
  <1>3. Len(<<a>>) = 1 /\ Len(<<a, b>>) = 2 /\ Len(<<a, b, c>>) = 3
    OBVIOUS
  <1>4. <<a>> # <<a, b>> /\ <<a, b>> # <<a, b, c>>
    BY <1>3
  <1>5. ToSet(<<a>>) = {a} /\ ToSet(<<a, b>>) = {a, b} /\ ToSet(<<a, b, c>>) = {a, b, c}
    BY DEF ToSet
  <1>6. QED  BY <1>1, <1>2, <1>3, <1>4, <1>5

\* Messages that differ and are not the turn's.
LEMMA Grounds ==
  ASSUME NEW a \in Msgs \ New, NEW b \in Msgs \ New, NEW c \in Msgs \ New, a # b, a # c, b # c
  PROVE  Ground(<<a>>) /\ Ground(<<a, b>>) /\ Ground(<<a, b, c>>)
  <1>1. Ground(<<a>>)
    BY DEF Ground, IsInjective
  <1>2. Ground(<<a, b>>)
    BY DEF Ground, IsInjective
  <1>3. Ground(<<a, b, c>>)
    BY DEF Ground, IsInjective
  <1>4. QED  BY <1>1, <1>2, <1>3

\* The messages that are not the turn's.
LEMMA OthersElements ==
  /\ Regenerate => /\ Others = <<Anchor, NewerUser>>
                   /\ Append(Others, LateUser) = <<Anchor, NewerUser, LateUser>>
  /\ ~Regenerate => Others = <<Anchor>> /\ Append(Others, LateUser) = <<Anchor, LateUser>>
  /\ Ground(Others) /\ Ground(Append(Others, LateUser)) /\ Others # Append(Others, LateUser)
  <1>1. /\ Anchor \in Msgs \ New /\ NewerUser \in Msgs \ New /\ LateUser \in Msgs \ New
        /\ Anchor # NewerUser /\ Anchor # LateUser /\ NewerUser # LateUser
    BY MessageAssumption DEF Msgs, Users
  <1>2. CASE Regenerate
    <2>1. Others = <<Anchor, NewerUser>>
      BY <1>2 DEF Others
    <2>2. Append(Others, LateUser) = <<Anchor, NewerUser, LateUser>>
      BY <1>1, <2>1, Listed
    <2>3. Ground(<<Anchor, NewerUser>>) /\ Ground(<<Anchor, NewerUser, LateUser>>)
      BY <1>1, Grounds
    <2>4. <<Anchor, NewerUser>> # <<Anchor, NewerUser, LateUser>>
      BY <1>1, Listed
    <2>5. QED  BY <1>2, <2>1, <2>2, <2>3, <2>4, Zenon
  <1>3. CASE ~Regenerate
    <2>1. Others = <<Anchor>>
      BY <1>3 DEF Others
    <2>2. Append(Others, LateUser) = <<Anchor, LateUser>>
      BY <1>1, <2>1, Listed
    <2>3. Ground(<<Anchor>>) /\ Ground(<<Anchor, LateUser>>)
      <3>1. /\ Anchor \in Msgs \ New /\ LateUser \in Msgs \ New /\ NewerUser \in Msgs \ New
            /\ Anchor # LateUser /\ Anchor # NewerUser /\ LateUser # NewerUser
        BY <1>1
      <3>2. QED  BY <3>1, Grounds
    <2>4. <<Anchor>> # <<Anchor, LateUser>>
      BY <1>1, Listed
    <2>5. QED  BY <1>3, <2>1, <2>2, <2>3, <2>4, Zenon
  <1>4. QED  BY <1>2, <1>3

\* A place among them.
Place(us, p) ==
    /\ us \in {Others, Append(Others, LateUser)} /\ p \in 1..2
    /\ p = 2 => ~Regenerate /\ us = Append(Others, LateUser)

\* The message that it hangs behind is the p-th of the others.
LEMMA PlaceElements ==
  ASSUME NEW us, NEW p, Place(us, p)
  PROVE  /\ Ground(us) /\ p \in 1..Len(us) /\ us[p] = Base(p)
         /\ OldReply \notin ToSet(us) /\ OldReply \notin New
         /\ NewerUser \in ToSet(us) <=> Regenerate
         /\ LateUser \in ToSet(us) <=> us = Append(Others, LateUser)
  <1>1. Ground(us)
    BY OthersElements DEF Place
  <1>2. OldReply \notin New /\ OldReply \notin {Anchor, NewerUser, LateUser}
        /\ NewerUser # Anchor /\ NewerUser # LateUser /\ LateUser # Anchor
    BY MessageAssumption
  <1>3. /\ Anchor # OldReply /\ p \in {1, 2}
        /\ Anchor \in Msgs /\ NewerUser \in Msgs /\ LateUser \in Msgs
    BY MessageAssumption DEF Place, Msgs, Users
  <1>4. ASSUME us[1] = Anchor, Len(us) \in {1, 2, 3}, p = 1
        PROVE  p \in 1..Len(us) /\ us[p] = Base(p)
    BY <1>4 DEF Base
  <1>5. CASE us = Others /\ Regenerate
    <2>1. us = <<Anchor, NewerUser>> /\ us # Append(Others, LateUser)
      BY <1>5, OthersElements
    <2>2. p = 1
      BY <1>3, <1>5 DEF Place
    <2>3. ToSet(us) = {Anchor, NewerUser} /\ us[1] = Anchor /\ Len(us) = 2
      BY <1>3, <2>1, Listed
    <2>4. QED  BY <1>1, <1>2, <1>3, <1>4, <1>5, <2>1, <2>2, <2>3
  <1>6. CASE us = Append(Others, LateUser) /\ Regenerate
    <2>1. us = <<Anchor, NewerUser, LateUser>>
      BY <1>6, OthersElements
    <2>2. p = 1
      BY <1>3, <1>6 DEF Place
    <2>3. ToSet(us) = {Anchor, NewerUser, LateUser} /\ us[1] = Anchor /\ Len(us) = 3
      <3>1. us[1] = Anchor /\ Len(us) = 3
        BY <2>1
      <3>2. ToSet(us) = {Anchor, NewerUser, LateUser}
        BY <2>1 DEF ToSet
      <3>3. QED  BY <3>1, <3>2
    <2>4. QED  BY <1>1, <1>2, <1>3, <1>4, <1>6, <2>1, <2>2, <2>3
  <1>7. CASE us = Others /\ ~Regenerate
    <2>1. us = <<Anchor>> /\ us # Append(Others, LateUser)
      BY <1>7, OthersElements
    <2>2. p = 1
      BY <1>3, <2>1 DEF Place
    <2>3. ToSet(us) = {Anchor} /\ Len(us) = 1 /\ us[1] = Anchor
      BY <1>3, <2>1, Listed
    <2>4. QED  BY <1>1, <1>2, <1>3, <1>7, <2>1, <2>2, <2>3 DEF Base
  <1>8. CASE us = Append(Others, LateUser) /\ ~Regenerate
    <2>1. us = <<Anchor, LateUser>>
      BY <1>8, OthersElements
    <2>2. ToSet(us) = {Anchor, LateUser} /\ Len(us) = 2 /\ us[1] = Anchor /\ us[2] = LateUser
      BY <1>3, <2>1, Listed
    <2>3. p \in 1..Len(us) /\ us[p] = Base(p)
      BY <1>3, <2>2 DEF Base
    <2>4. QED  BY <1>1, <1>2, <1>3, <1>8, <2>2, <2>3
  <1>9. QED  BY <1>5, <1>6, <1>7, <1>8 DEF Place

\* So a turn has its place among the messages stored, ...
LEMMA SeatedPlace ==
  ASSUME NEW p \in 1..2, Seated(p)
  PROVE  Place(StoredOthers, p)
  BY DEF Seated, Place, StoredOthers

\* Nothing spliced in.
LEMMA SplicedNone ==
  ASSUME NEW us, Ground(us), NEW p \in 1..Len(us)
  PROVE  Spliced(us, p, 0) = us
  <1> DEFINE s == Spliced(us, p, 0)
             n == Len(us)
  <1>1. us \in Seq(Msgs) /\ n \in Nat /\ p \in 1..n /\ 0 \in 0..MaxMessages
    BY TurnAssumption DEF Ground
  <1>2. s = [i \in 1..(n + 0) |-> IF i <= p THEN us[i] ELSE IF i <= p + 0 THEN i - p ELSE us[i - 0]]
    BY DEF Spliced
  <1>3. s \in Seq(Msgs) /\ Len(s) = n + 0
    BY <1>1, SplicedElements
  <1> HIDE DEF s, n
  <1>4. ASSUME NEW i \in 1..n PROVE s[i] = us[i]
    <2>1. i \in 1..(n + 0) /\ (i <= p \/ ~(i <= p + 0)) /\ i - 0 = i
      BY <1>1
    <2>2. QED  BY <1>2, <2>1
  <1>5. Len(s) = Len(us)
    BY <1>1, <1>3 DEF n
  <1>6. QED  BY <1>1, <1>3, <1>4, <1>5, SeqEqual DEF s, n

\* What else there is stays, but for the message that is posted.
LEMMA OthersKept ==
  ASSUME IInv, Next
  PROVE  /\ Regenerate' = Regenerate /\ Others' = Others
         /\ ~PostUser => (LateUser \in ToSet(doc') <=> LateUser \in ToSet(doc))
         /\ ~PostUser => StoredOthers' = StoredOthers
         /\ PostUser => /\ StoredOthers = Others /\ StoredOthers' = Append(Others, LateUser)
                        /\ LateUser \notin ToSet(doc) /\ LateUser \in ToSet(doc')
  <1>1. NewerUser \notin New /\ NewerUser # LateUser /\ LateUser \notin New /\ NewerUser # Anchor
        /\ LateUser # Anchor /\ OldReply # NewerUser /\ OldReply # LateUser
    BY MessageAssumption
  <1>2. ASSUME ~PostUser
        PROVE  /\ NewerUser \in ToSet(doc') <=> NewerUser \in ToSet(doc)
               /\ LateUser \in ToSet(doc') <=> LateUser \in ToSet(doc)
    <2>1. CASE UNCHANGED doc
      BY <2>1
    <2>2. CASE DeleteTurn
      <3>1. /\ doc \in {<<Anchor, OldReply, NewerUser>>, <<Anchor, OldReply, NewerUser, LateUser>>}
            /\ doc' \in Seq(Msgs) /\ Len(doc') = Len(doc) - 1 /\ Len(doc') \in 2..3
            /\ doc'[1] = Anchor /\ doc'[2] = NewerUser /\ (Len(doc') = 3 => doc'[3] = LateUser)
        BY <2>2, ReplyTaken
      <3>2. CASE doc = <<Anchor, OldReply, NewerUser>>
        <4>1. ToSet(doc) = {Anchor, OldReply, NewerUser} /\ Len(doc) = 3
          BY <3>2 DEF ToSet
        <4>2. DOMAIN doc' = {1, 2}
          BY <3>1, <4>1
        <4>3. ToSet(doc') = {Anchor, NewerUser}
          BY <3>1, <4>2 DEF ToSet
        <4>4. QED  BY <1>1, <4>1, <4>3
      <3>3. CASE doc = <<Anchor, OldReply, NewerUser, LateUser>>
        <4>1. ToSet(doc) = {Anchor, OldReply, NewerUser, LateUser} /\ Len(doc) = 4
          BY <3>3 DEF ToSet
        <4>2. DOMAIN doc' = {1, 2, 3} /\ Len(doc') = 3
          BY <3>1, <4>1
        <4>3. ToSet(doc') = {Anchor, NewerUser, LateUser}
          BY <3>1, <4>2 DEF ToSet
        <4>4. QED  BY <1>1, <4>1, <4>3
      <3>4. QED  BY <3>1, <3>2, <3>3
    <2>3. CASE Persist
      <3> DEFINE m == Head(finalizing)
      <3>1. Busy /\ ~persisted /\ doc' = InsertAfter(m, cursor)
        BY <2>3 DEF Persist
      <3>2. m = Announced + 1 /\ m \in New /\ cursor \in ToSet(doc)
        BY <3>1, NextToFinalize
      <3>3. m \notin ToSet(doc) /\ m \in Msgs /\ doc \in Seq(Msgs) /\ IsInjective(doc)
        <4>1. Announced \in Nat /\ Stored = Announced
          BY <3>1, Counts DEF IInv
        <4>2. QED  BY <3>2, <4>1 DEF IInv, Numbered, Types, Msgs
      <3> HIDE DEF m
      <3>4. ToSet(doc') = ToSet(doc) \cup {m}
        BY <3>1, <3>2, <3>3, InsertedAfter
      <3>5. QED  BY <1>1, <3>2, <3>4
    <2>4. QED
      BY <1>2, <2>1, <2>2, <2>3, StepKinds DEF Quiet, Flushes, Appears, BeginTurn, Announce,
         Resubscribe, coreVars
  <1>3. ASSUME PostUser
        PROVE  /\ ToSet(doc') = ToSet(doc) \cup {LateUser} /\ LateUser \notin ToSet(doc)
    BY <1>3, PostedAtEnd DEF PostUser, IInv, Types
  <1>4. Regenerate' = Regenerate
    BY <1>1, <1>2, <1>3 DEF Regenerate
  <1>5. Others' = Others
    BY <1>4 DEF Others
  <1>6. QED  BY <1>2, <1>3, <1>4, <1>5 DEF StoredOthers

\* Before the turn begins it hangs nowhere, ...
LEMMA UnseatedKept ==
  ASSUME IInv, Unseated, Next, ~Begun, ~Begun'
  PROVE  Unseated'
  <1>1. SUFFICES ASSUME phase' = "deleted" PROVE doc' = StoredOthers'
    BY DEF Unseated
  <1>2. ~BeginTurn
    BY <1>1 DEF BeginTurn
  <1>3. Start \/ DeleteTurn \/ Handlers
    <2>1. ~Busy /\ phase \in {"idle", "setup", "deleted"}
      BY NotBegun DEF Begun
    <2>2. QED
      BY <1>2, <2>1 DEF Next, TurnStep, Filter, EnterLoop, Persist, Announce,
         PersistFails, MemoryFilterRetries, Hop,
         ReasoningDelta, FirstContent, ContentDelta, Flush, StreamStops, StreamAsksForTools,
         BeginCall, Display, EndCall, NextHop, LeaveLoop
  <1>4. CASE DeleteTurn
    <2>1. /\ doc \in {<<Anchor, OldReply, NewerUser>>, <<Anchor, OldReply, NewerUser, LateUser>>}
          /\ doc' \in Seq(Msgs) /\ Len(doc') = Len(doc) - 1 /\ Len(doc') \in 2..3
          /\ doc'[1] = Anchor /\ doc'[2] = NewerUser /\ (Len(doc') = 3 => doc'[3] = LateUser)
      BY <1>4, ReplyTaken
    <2>2. ~PostUser
      BY <1>1, <1>4 DEF DeleteTurn, PostUser
    <2>3. StoredOthers' = StoredOthers /\ Regenerate
      BY <1>4, <2>2, OthersKept DEF DeleteTurn
    <2>4. Anchor \in Msgs /\ NewerUser \in Msgs /\ LateUser \in Msgs
      BY DEF Msgs, Users
    <2>5. LateUser \notin {Anchor, OldReply, NewerUser}
      BY MessageAssumption
    <2>6. CASE doc = <<Anchor, OldReply, NewerUser>>
      <3>1. ToSet(doc) = {Anchor, OldReply, NewerUser} /\ Len(doc) = 3
        BY <2>6 DEF ToSet
      <3>2. StoredOthers = <<Anchor, NewerUser>>
        BY <2>3, <2>5, <3>1, OthersElements DEF StoredOthers
      <3> DEFINE t == <<Anchor, NewerUser>>
      <3>3. t \in Seq(Msgs) /\ Len(t) = 2 /\ t[1] = Anchor /\ t[2] = NewerUser
        BY <2>4
      <3> HIDE DEF t
      <3>4. doc' = t
        BY <2>1, <3>1, <3>3
      <3>5. QED  BY <2>3, <3>2, <3>4 DEF t
    <2>7. CASE doc = <<Anchor, OldReply, NewerUser, LateUser>>
      <3>1. LateUser \in ToSet(doc) /\ Len(doc) = 4
        BY <2>7 DEF ToSet
      <3>2. StoredOthers = <<Anchor, NewerUser, LateUser>>
        BY <2>3, <3>1, OthersElements DEF StoredOthers
      <3> DEFINE t == <<Anchor, NewerUser, LateUser>>
      <3>3. /\ t \in Seq(Msgs) /\ Len(t) = 3 /\ t[1] = Anchor /\ t[2] = NewerUser
            /\ t[3] = LateUser
        BY <2>4
      <3> HIDE DEF t
      <3>4. doc' = t
        BY <2>1, <3>1, <3>3
      <3>5. QED  BY <2>3, <3>2, <3>4 DEF t
    <2>8. QED  BY <2>1, <2>6, <2>7
  <1>5. CASE PostUser
    <2>1. phase = "deleted" /\ doc' = Append(doc, LateUser)
      BY <1>1, <1>5 DEF PostUser
    <2>2. doc = StoredOthers
      BY <2>1 DEF Unseated
    <2>3. QED  BY <1>5, <2>1, <2>2, OthersKept
  <1>6. CASE Start \/ (Handlers /\ ~PostUser)
    <2>1. doc' = doc /\ phase = "deleted"
      BY <1>1, <1>6 DEF Start, Handlers, Interrupt, Cancel, Resubscribe, coreVars
    <2>2. ~PostUser
      BY <1>1, <1>6 DEF Start, PostUser
    <2>3. QED  BY <2>1, <2>2, OthersKept DEF Unseated
  <1>7. QED  BY <1>3, <1>4, <1>5, <1>6

\* ... then behind the user message it answers, ...
LEMMA SeatTaken ==
  ASSUME IInv, Unseated, BeginTurn
  PROVE  Known' = 0 /\ Announced' = 0 /\ \E p \in 1..2 : Seated(p)' /\ StoredOthers' = doc'
  <1>1. /\ phase' = "filters" /\ liveCursor' = cursor' /\ ~Begun /\ doc' = doc
        /\ cursor' = (IF Regenerate THEN Anchor ELSE LastUser) /\ persisted' = persisted
    BY DEF BeginTurn, Begun
  <1>2. Next /\ ~PostUser
    BY DEF Next, TurnStep, BeginTurn, PostUser
  <1>3. Others' = Others /\ StoredOthers' = StoredOthers /\ Regenerate' = Regenerate
    BY <1>2, OthersKept
  <1>4. ~persisted
    BY <1>1, NotBegun
  <1>5. /\ Anchor \in Msgs /\ LateUser \in Msgs /\ NewerUser \in Msgs /\ Anchor # LateUser
        /\ Anchor \notin New /\ LateUser \notin New /\ NewerUser # Anchor /\ NewerUser # LateUser
        /\ Anchor \in Users /\ LateUser \in Users
    BY MessageAssumption DEF Msgs, Users
  <1>6. ASSUME NEW p \in 1..2, doc = StoredOthers, cursor' = Base(p),
               p = 2 => ~Regenerate /\ LateUser \in ToSet(doc)
        PROVE  /\ Known' = 0 /\ Announced' = 0
               /\ \E r \in 1..2 : Seated(r)' /\ StoredOthers' = doc'
    <2>1. cursor' \notin New
      BY <1>5, <1>6 DEF Base
    <2>2. Announced' = 0 /\ Known' = 0 /\ Stored' = 0
      BY <1>1, <1>4, <2>1 DEF Announced, Known, Stored
    <2>3. Place(StoredOthers, p)
      BY <1>6 DEF Place, StoredOthers
    <2>4. Ground(StoredOthers) /\ p \in 1..Len(StoredOthers)
      BY <2>3, PlaceElements
    <2>5. Spliced(StoredOthers, p, 0) = StoredOthers
      BY <2>4, SplicedNone
    <2>6. doc' = Spliced(StoredOthers', p, Stored')
      BY <1>1, <1>3, <1>6, <2>2, <2>5
    <2>7. Seated(p)'
      BY <1>1, <1>3, <1>6, <2>2, <2>6 DEF Seated, Base
    <2>8. StoredOthers' = doc'
      BY <1>1, <1>3, <1>6
    <2>9. QED  BY <2>2, <2>7, <2>8
  <1>7. CASE Regenerate
    <2>1. phase = "deleted"
      BY <1>7 DEF BeginTurn
    <2>2. doc = StoredOthers /\ cursor' = Base(1) /\ 1 \in 1..2 /\ 1 # 2
      BY <1>1, <1>7, <2>1 DEF Unseated, Base
    <2>3. QED  BY <1>6, <2>2
  <1>8. CASE ~Regenerate
    <2>1. phase = "setup"
      BY <1>8 DEF BeginTurn, IInv, Opening, Regenerate
    <2>2. doc = <<Anchor>> \/ doc = <<Anchor, LateUser>>
      <3>1. doc \in Found
        BY <2>1 DEF IInv, Opening
      <3>2. NewerUser \in ToSet(<<Anchor, OldReply, NewerUser>>)
        BY DEF ToSet
      <3>3. NewerUser \in ToSet(<<Anchor, OldReply, NewerUser, LateUser>>)
        BY DEF ToSet
      <3>4. QED  BY <1>8, <3>1, <3>2, <3>3 DEF Found, Regenerate
    <2> DEFINE IsLast(i) == doc[i] \in Users /\ \A j \in (i + 1)..Len(doc) : doc[j] \notin Users
    <2>3. LastUser = doc[CHOOSE i \in 1..Len(doc) : IsLast(i)]
      BY DEF LastUser
    <2>4. CASE doc = <<Anchor>>
      <3>1. ToSet(doc) = {Anchor} /\ Len(doc) = 1 /\ doc[1] = Anchor
        BY <2>4 DEF ToSet
      <3>2. doc = StoredOthers
        BY <1>5, <1>8, <2>4, <3>1, OthersElements DEF StoredOthers
      <3>3. 1 \in 1..Len(doc) /\ IsLast(1)
        BY <1>5, <3>1
      <3> HIDE DEF IsLast
      <3>4. PICK i \in 1..Len(doc) : LastUser = doc[i]
        BY <2>3, <3>3, Zenon
      <3>5. LastUser = Anchor
        BY <3>1, <3>4
      <3>6. cursor' = Base(1) /\ 1 \in 1..2 /\ 1 # 2
        BY <1>1, <1>8, <3>5 DEF Base
      <3>7. QED  BY <1>6, <3>2, <3>6
    <2>5. CASE doc = <<Anchor, LateUser>>
      <3>1. ToSet(doc) = {Anchor, LateUser} /\ Len(doc) = 2 /\ doc[1] = Anchor /\ doc[2] = LateUser
        BY <2>5 DEF ToSet
      <3>2. doc = StoredOthers
        BY <1>8, <2>5, <3>1, OthersElements DEF StoredOthers
      <3>3. 2 \in 1..Len(doc) /\ IsLast(2)
        BY <1>5, <3>1
      <3>4. ASSUME NEW i \in 1..Len(doc), IsLast(i) PROVE i = 2
        <4>1. i = 1 \/ i = 2
          BY <3>1
        <4>2. i # 1
          <5>1. ASSUME i = 1 PROVE FALSE
            <6>1. 2 \in (i + 1)..Len(doc) /\ doc[2] \in Users
              BY <1>5, <3>1, <5>1
            <6>2. QED  BY <3>4, <6>1
          <5>2. QED  BY <5>1
        <4>3. QED  BY <4>1, <4>2
      <3> HIDE DEF IsLast
      <3>5. (CHOOSE i \in 1..Len(doc) : IsLast(i)) = 2
        BY <3>3, <3>4
      <3>6. LastUser = LateUser
        BY <2>3, <3>1, <3>5
      <3>7. cursor' = Base(2) /\ 2 \in 1..2 /\ LateUser \in ToSet(doc)
        BY <1>1, <1>8, <3>1, <3>6 DEF Base
      <3>8. QED  BY <1>6, <1>8, <3>2, <3>7
    <2>6. QED  BY <2>2, <2>4, <2>5
  <1>9. QED  BY <1>7, <1>8

\* ... and it stays there,
LEMMA BegunStays == ASSUME IInv, Begun, Next PROVE Begun'
  <1>1. Busy => then \in {"filters", "append", "leaving", "tools"}
    BY DEF IInv, Stages
  <1>2. CASE TurnStep
    BY <1>1, <1>2 DEF TurnStep, Begun, Start, DeleteTurn, BeginTurn, Filter, EnterLoop,
       Persist,
       Announce, PersistFails, MemoryFilterRetries, Hop, ReasoningDelta, FirstContent,
       ContentDelta, Flush, StreamStops,
       StreamAsksForTools, BeginCall, Display, EndCall, NextHop, LeaveLoop, EndTurn, Settle,
       Finalize
  <1>3. CASE Handlers
    BY <1>3 DEF Begun, Handlers, Interrupt, Cancel, Resubscribe, PostUser, coreVars
  <1>4. QED  BY <1>2, <1>3 DEF Next

\* with the messages that are stored behind it.
LEMMA SeatKept ==
  ASSUME IInv, Told, Begun, Next, NEW p \in 1..2, Seated(p)
  PROVE  Seated(p)'
  <1>1. Announced \in Nat /\ Known \in Nat /\ Announced <= Known /\ Known <= MaxMessages
    BY LiveSegment
  <1>2. /\ Place(StoredOthers, p) /\ Ground(StoredOthers) /\ p \in 1..Len(StoredOthers)
        /\ StoredOthers[p] = Base(p)
    BY SeatedPlace, PlaceElements
  <1>3. /\ Regenerate' = Regenerate
        /\ ~PostUser => (LateUser \in ToSet(doc') <=> LateUser \in ToSet(doc))
        /\ ~PostUser => StoredOthers' = StoredOthers
        /\ PostUser => /\ StoredOthers = Others /\ StoredOthers' = Append(Others, LateUser)
                       /\ LateUser \notin ToSet(doc) /\ LateUser \in ToSet(doc')
    BY OthersKept
  <1>4. /\ p = 2 => ~Regenerate /\ LateUser \in ToSet(doc)
        /\ doc = Spliced(StoredOthers, p, Stored)
        /\ cursor = (IF Announced = 0 THEN Base(p) ELSE Announced)
        /\ liveCursor = (IF Known = 0 THEN Base(p) ELSE Known)
    BY DEF Seated
  <1>5. ASSUME UNCHANGED <<doc, cursor, persisted>>,
               liveCursor' = (IF Known' = 0 THEN Base(p) ELSE Known')
        PROVE  Seated(p)'
    <2>1. StoredOthers' = StoredOthers /\ LateUser \in ToSet(doc') <=> LateUser \in ToSet(doc)
      BY <1>3, <1>5
    <2>2. Announced' = Announced /\ Stored' = Stored
      BY <1>5 DEF Announced, Stored
    <2>3. ~PostUser
      BY <1>3, <1>5
    <2>4. QED  BY <1>3, <1>4, <1>5, <2>1, <2>2, <2>3 DEF Seated, Base
  <1>6. CASE Quiet \/ Flushes \/ Resubscribe
    <2>1. UNCHANGED <<doc, cursor, persisted, liveCursor>>
      BY <1>6 DEF Quiet, Flushes, Resubscribe, coreVars, writerVars
    <2>2. Known' = Known
      BY <2>1 DEF Known
    <2>3. QED  BY <1>4, <1>5, <2>1, <2>2
  <1>7. CASE Appears
    <2>1. /\ UNCHANGED <<doc, cursor, persisted>> /\ liveCursor' = created' /\ created' \in New
          /\ created' # 0
      BY <1>7 DEF Appears, Born, New
    <2>2. Known' = created'
      BY <2>1 DEF Known
    <2>3. QED  BY <1>5, <2>1, <2>2
  <1>8. CASE PostUser
    <2>1. doc' = Append(doc, LateUser) /\ UNCHANGED <<cursor, persisted, liveCursor>>
      BY <1>8 DEF PostUser, writerVars
    <2>2. p # 2 /\ Announced' = Announced /\ Stored' = Stored /\ Known' = Known
      BY <1>3, <1>4, <1>8, <2>1 DEF Announced, Stored, Known
    <2>3. Stored \in 0..MaxMessages
      <3>1. Stored \in Nat /\ Claimed <= created /\ created <= MaxMessages /\ Stored <= Claimed
        <4>1. /\ Stored = Announced + (IF persisted THEN 1 ELSE 0) /\ Stored \in Nat
              /\ Claimed = Announced + Len(finalizing) /\ Len(finalizing) \in Nat
              /\ (Busy <=> Len(finalizing) > 0) /\ (persisted => Busy)
          BY Counts DEF IInv, Stages
        <4>2. persisted => Len(finalizing) > 0
          BY <4>1, Zenon
        <4>3. Stored <= Claimed
          BY <1>1, <4>1, <4>2
        <4>4. QED  BY <4>1, <4>3 DEF IInv, Numbered, Types
      <3>2. created \in Nat /\ Claimed \in Nat
        BY Counts DEF IInv
      <3>3. MaxMessages \in Nat
        BY TurnAssumption
      <3>4. Stored \in Nat /\ Stored <= MaxMessages
        BY <3>1, <3>2, <3>3
      <3>5. QED  BY <3>3, <3>4
    <2>4. LateUser \in Msgs /\ Ground(Append(Others, LateUser))
      BY OthersElements DEF Msgs, Users
    <2>5. Append(Spliced(Others, p, Stored), LateUser) = Spliced(Append(Others, LateUser), p, Stored)
      BY <1>2, <1>3, <1>8, <2>3, <2>4, SpliceBefore
    <2>6. doc' = Spliced(StoredOthers', p, Stored')
      BY <1>3, <1>4, <1>8, <2>1, <2>2, <2>5
    <2>7. QED  BY <1>4, <2>1, <2>2, <2>6 DEF Seated, Base
  <1>9. CASE Persist
    <2> DEFINE m == Head(finalizing)
               us == StoredOthers
    <2>1. /\ Busy /\ ~persisted /\ doc' = InsertAfter(m, cursor) /\ persisted' = TRUE
          /\ UNCHANGED <<cursor, liveCursor>>
      BY <1>9 DEF Persist, writerVars
    <2>2. m = Announced + 1 /\ m \in New /\ Stored = Announced
      BY <1>1, <2>1, NextToFinalize, Counts DEF IInv
    <2>3. Announced' = Announced /\ Stored' = Announced + 1 /\ Known' = Known /\ ~PostUser
      <3>1. Announced' = Announced /\ Known' = Known
        BY <2>1 DEF Announced, Known
      <3>2. Stored' = Announced + 1
        BY <2>1, <3>1 DEF Stored
      <3>3. ~PostUser
        BY <2>1, Zenon DEF PostUser
      <3>4. QED  BY <3>1, <3>2, <3>3
    <2>4. Announced \in 0..MaxMessages /\ Announced + 1 \in New
      BY <1>1, <2>2, TurnAssumption
    <2>5. cursor = IF Announced = 0 THEN us[p] ELSE Announced
      BY <1>2, <1>4
    <2> HIDE DEF m, us
    <2>6. Ground(us) /\ p \in 1..Len(us) /\ doc = Spliced(us, p, Announced)
      BY <1>2, <1>4, <2>2 DEF us
    <2>7. LET s == Spliced(us, p, Announced)
          IN  /\ cursor \in ToSet(s)
              /\ InsertAt(s, 1 + (CHOOSE i \in 1..Len(s) : s[i] = cursor), Announced + 1)
                   = Spliced(us, p, Announced + 1)
      BY <2>4, <2>5, <2>6, SpliceOne
    <2>8. doc' = Spliced(us, p, Announced + 1)
      BY <2>1, <2>2, <2>6, <2>7 DEF InsertAfter, Pos
    <2>9. doc' = Spliced(StoredOthers', p, Stored')
      BY <1>3, <2>3, <2>8 DEF us
    <2>10. LateUser \in ToSet(doc') <=> LateUser \in ToSet(doc)
      BY <1>3, <2>3
    <2>11. QED  BY <1>3, <1>4, <2>1, <2>3, <2>9, <2>10 DEF Seated, Base
  <1>10. CASE Announce
    <2> DEFINE m == Head(finalizing)
    <2>1. /\ Busy /\ persisted /\ persisted' = FALSE /\ doc' = doc /\ cursor' = m
          /\ liveCursor' = (IF m \in bornIds THEN liveCursor ELSE m)
      BY <1>10 DEF Announce
    <2>2. m = Announced + 1 /\ m \in New /\ Stored = Announced + 1
      BY <2>1, NextToFinalize DEF Stored
    <2> HIDE DEF m
    <2>3. Announced' = Announced + 1 /\ Stored' = Announced + 1 /\ Announced + 1 # 0
      BY <1>1, <2>1, <2>2 DEF Announced, Stored
    <2>4. liveCursor' = IF Known' = 0 THEN Base(p) ELSE Known'
      <3>1. CASE m \in bornIds
        <4>1. Known' = Known
          BY <2>1, <3>1 DEF Known
        <4>2. QED  BY <1>4, <2>1, <3>1, <4>1
      <3>2. CASE m \notin bornIds
        <4>1. Known' = m /\ m # 0
          BY <2>1, <2>2, <3>2 DEF Known, New
        <4>2. QED  BY <2>1, <3>2, <4>1
      <3>3. QED  BY <3>1, <3>2
    <2>5. ~PostUser
      BY <1>3, <2>1
    <2>6. StoredOthers' = StoredOthers /\ doc' = Spliced(StoredOthers', p, Stored')
      BY <1>3, <1>4, <2>1, <2>2, <2>3, <2>5
    <2>7. QED  BY <1>3, <1>4, <2>1, <2>2, <2>3, <2>4, <2>6 DEF Seated, Base
  <1>11. ~DeleteTurn /\ ~BeginTurn
    BY DEF Begun, DeleteTurn, BeginTurn
  <1>12. QED  BY <1>6, <1>7, <1>8, <1>9, <1>10, <1>11, StepKinds

\* So every step sends what is next to arrive, if it sends a message that is new.
LEMMA StepArrives ==
  ASSUME IInv, Told, Begun, Next, NEW p \in 1..2, Seated(p)
  PROVE  sent' \in Seq(Frames) /\ Arrives(sent', p, Known, Known')
  <1>1. /\ Announced \in Nat /\ Known \in Nat /\ Announced <= Known /\ Known <= created
        /\ Known <= MaxMessages /\ created \in Nat /\ MaxMessages \in Nat
        /\ Known \in 0..MaxMessages /\ DOMAIN live = (Announced + 1)..Known
    BY LiveSegment, Counts, TurnAssumption DEF IInv
  <1>2. sent' \in Seq(Frames)
    <2>1. 1 \in New
      BY TurnAssumption DEF New
    <2>2. QED  BY <2>1, StepTells DEF Proper
  <1> DEFINE Goal == Arrives(sent', p, Known, Known')
             Tame(i) == sent'[i].kind \in {"message", "delta"} => sent'[i].id <= Known
  <1>3. ASSUME liveCursor' = liveCursor, \A i \in 1..Len(sent') : Tame(i)
        PROVE  Goal
    <2>1. Known' = Known
      BY <1>3 DEF Known
    <2>2. Arrives(sent', p, Known, Known)
      BY <1>1, <1>2, <1>3, KnownArrive
    <2>3. QED  BY <2>1, <2>2
  <1>12. SUFFICES Goal
    BY <1>2
  <1> HIDE DEF Goal, Tame
  <1>4. CASE Quiet
    <2>1. liveCursor' = liveCursor
      BY <1>4 DEF Quiet
    <2>2. ASSUME NEW i \in 1..Len(sent') PROVE sent'[i].kind = "end"
      <3>1. CASE sent' = <<>>
        BY <3>1
      <3>2. CASE sent' = <<[kind |-> "end"]>>
        BY <3>2
      <3>3. QED  BY <1>4, <3>1, <3>2 DEF Quiet
    <2>3. \A i \in 1..Len(sent') : Tame(i)
      BY <2>2 DEF Tame
    <2>4. QED  BY <1>3, <2>1, <2>3
  <1>5. CASE Flushes
    <2>1. Streaming /\ sent' = FlushFrames /\ liveCursor' = liveCursor
      BY <1>5 DEF Flushes
    <2>2. Known = created
      BY <2>1 DEF Told, Growing
    <2>3. 1 \in New
      BY TurnAssumption DEF New
    <2>4. \A i \in 1..Len(sent') : sent'[i].id = created
      BY <2>1, <2>3, FlushLevels
    <2>5. \A i \in 1..Len(sent') : Tame(i)
      BY <1>1, <2>2, <2>4 DEF Tame
    <2>6. QED  BY <1>3, <2>1, <2>5
  <1>6. CASE Persist \/ PostUser
    <2>1. sent' = <<>> /\ liveCursor' = liveCursor
      BY <1>6 DEF Persist, PostUser, writerVars
    <2>2. \A i \in 1..Len(sent') : Tame(i)
      BY <2>1
    <2>3. QED  BY <1>3, <2>1, <2>2
  <1>7. CASE Resubscribe
    <2>1. liveCursor' = liveCursor /\ \A i \in 1..Len(sent') : sent'[i].id \in DOMAIN live
      BY <1>7, Replay DEF Resubscribe, coreVars, writerVars
    <2>2. \A m \in DOMAIN live : m <= Known
      BY <1>1
    <2>3. \A i \in 1..Len(sent') : Tame(i)
      BY <2>1, <2>2 DEF Tame
    <2>4. QED  BY <1>3, <2>1, <2>3
  <1>8. CASE Appears
    <2> DEFINE s == Snapshot(created', liveCursor, FALSE)
    <2>1. s \in Frames /\ s.kind = "message" /\ s.id = created' /\ s.after = liveCursor
      BY <1>8, BirthFrame
    <2>2. created' = created + 1 /\ created' \in New /\ liveCursor' = created'
      BY <1>8 DEF Appears, Born
    <2>3. Known = created /\ Known' = Known + 1 /\ Known + 1 \in 0..MaxMessages
      <3>1. Known = created
        BY <1>1, <1>8 DEF Appears, Told
      <3>2. Known' = created'
        BY <2>2 DEF Known
      <3>3. QED  BY <2>2, <3>1, <3>2 DEF New
    <2>4. /\ \/ sent' = <<s>>
             \/ Streaming /\ sent' = <<s>> \o FlushFrames
          /\ liveCursor = (IF Known = 0 THEN Base(p) ELSE Known)
      BY <1>8 DEF Appears, Seated
    <2> HIDE DEF s
    <2> DEFINE u == <<s>>
               t == FlushFrames
    <2>5. u \in Seq(Frames) /\ Len(u) = 1 /\ u[1] = s
      BY <2>1
    <2> HIDE DEF u
    <2>6. sent' # <<>> /\ sent'[1] = s
          /\ \A i \in 2..Len(sent') : sent'[i].kind \in {"message", "delta"} => sent'[i].id <= Known + 1
      <3>1. CASE sent' = u
        <4>1. sent' # <<>> /\ sent'[1] = s /\ Len(sent') = 1
          BY <2>5, <3>1
        <4>2. \A i \in 2..Len(sent') : FALSE
          BY <4>1
        <4>3. QED  BY <4>1, <4>2
      <3>2. CASE Streaming /\ sent' = u \o t
        <4>1. 1 \in New
          BY TurnAssumption DEF New
        <4>2. t \in Seq(Frames) /\ \A i \in 1..Len(t) : t[i].id = created
          BY <3>2, <4>1, FlushLevels
        <4> HIDE DEF t
        <4>3. /\ Len(sent') = 1 + Len(t) /\ Len(t) \in Nat
              /\ \A i \in 1..(1 + Len(t)) : sent'[i] = IF i <= 1 THEN u[i] ELSE t[i - 1]
          <5>1. u \in Seq(Frames) /\ t \in Seq(Frames) /\ sent' = u \o t
            BY <2>5, <3>2, <4>2 DEF t
          <5>2. /\ Len(sent') = Len(u) + Len(t) /\ Len(t) \in Nat
                /\ \A i \in 1..(Len(u) + Len(t)) : sent'[i] = IF i <= Len(u) THEN u[i] ELSE t[i - Len(u)]
            BY <5>1, PutBehind
          <5>3. QED  BY <2>5, <5>2
        <4>4. sent'[1] = s /\ Len(sent') > 0
          BY <2>5, <4>3
        <4>5. sent' # <<>>
          BY <4>4
        <4>6. ASSUME NEW i \in 2..Len(sent') PROVE sent'[i].id <= Known + 1
          <5>1. i \in 1..(1 + Len(t)) /\ i - 1 \in 1..Len(t) /\ ~(i <= 1)
            BY <4>3
          <5>2. sent'[i].id = created
            BY <4>2, <4>3, <5>1
          <5>3. QED  BY <1>1, <2>3, <5>2
        <4>7. QED  BY <4>4, <4>5, <4>6
      <3>3. QED  BY <2>4, <3>1, <3>2 DEF u
    <2>7. /\ sent'[1].kind = "message" /\ sent'[1].id = Known + 1
          /\ sent'[1].after = (IF Known = 0 THEN Base(p) ELSE Known)
      BY <2>1, <2>2, <2>3, <2>4, <2>6
    <2>8. Arrives(sent', p, Known, Known + 1)
      BY <1>1, <1>2, <2>3, <2>6, <2>7, NextArrives
    <2>9. QED  BY <2>3, <2>8 DEF Goal
  <1>9. CASE Announce
    <2> DEFINE m == Head(finalizing)
               s == Snapshot(m, IF m \in bornIds THEN None ELSE liveCursor, TRUE)
    <2>1. Busy /\ sent' = <<s>> /\ liveCursor' = (IF m \in bornIds THEN liveCursor ELSE m)
      BY <1>9 DEF Announce
    <2>2. m = Announced + 1 /\ m \in New
      BY <2>1, NextToFinalize
    <2>3. s.kind = "message" /\ s.id = m /\ s.after = IF m \in bornIds THEN None ELSE liveCursor
      BY DEF Snapshot
    <2>4. m <= Known <=> m \in bornIds
      <3>1. m <= Known <=> m <= Announced \/ m \in bornIds
        BY <2>2 DEF Told
      <3>2. ~(m <= Announced)
        BY <1>1, <2>2
      <3>3. QED  BY <3>1, <3>2
    <2> HIDE DEF m, s
    <2>5. Len(sent') = 1 /\ sent'[1] = s /\ sent' # <<>>
      BY <2>1
    <2>6. CASE m \in bornIds
      <3>1. liveCursor' = liveCursor /\ \A i \in 1..Len(sent') : sent'[i].id <= Known
        BY <2>1, <2>3, <2>4, <2>5, <2>6
      <3>2. \A i \in 1..Len(sent') : Tame(i)
        BY <3>1 DEF Tame
      <3>3. QED  BY <1>3, <3>1, <3>2
    <2>7. CASE m \notin bornIds
      <3>1. Known = Announced /\ m = Known + 1
        BY <1>1, <2>2, <2>4, <2>7
      <3>2. Known' = Known + 1
        BY <2>1, <2>2, <2>7, <3>1 DEF Known
      <3>3. Known + 1 \in 0..MaxMessages
        BY <2>2, <3>1 DEF New
      <3>4. liveCursor = IF Known = 0 THEN Base(p) ELSE Known
        BY DEF Seated
      <3>5. /\ sent'[1].kind = "message" /\ sent'[1].id = Known + 1
            /\ sent'[1].after = (IF Known = 0 THEN Base(p) ELSE Known)
        BY <2>3, <2>5, <2>7, <3>1, <3>4
      <3>6. \A i \in 2..Len(sent') : FALSE
        BY <2>5
      <3>7. Arrives(sent', p, Known, Known + 1)
        BY <1>1, <1>2, <2>5, <3>3, <3>5, <3>6, NextArrives
      <3>8. QED  BY <3>2, <3>7 DEF Goal
    <2>8. QED  BY <2>6, <2>7
  <1>10. ~DeleteTurn /\ ~BeginTurn
    BY DEF Begun, DeleteTurn, BeginTurn
  <1>11. QED  BY <1>4, <1>5, <1>6, <1>7, <1>8, <1>9, <1>10, StepKinds

-----------------------------------------------------------------------------
(* What the client shows                                                   *)

Coming(m) == \E i \in 1..Len(toClient) : Carries(toClient[i], m)
Subscribing == \E i \in 1..Len(toCore) : toCore[i].kind = "subscribe"

\* The client walked away from the stream and will not latch on to it again.
Left == ~adopted /\ abandoned

LoadStates == [stage : {"none", "asked"}] \cup [stage : {"replied", "done"}, doc : Seq(Msgs)]
ClientTypes ==
    /\ toClient \in Seq(Frames) /\ toCore \in Seq(Requests)
    /\ view \in Seq(Msgs) /\ shown \in [New -> Nat] /\ runningTools \subseteq New
    /\ adopted \in BOOLEAN /\ abandoned \in BOOLEAN /\ drops \in 0..MaxDrops
    /\ loads \in [Loads -> LoadStates]
    /\ post \in {"no", "sent", "stored"}
    /\ post = "stored" <=> LateUser \in ToSet(doc)

\* A connection that dropped carries nothing, the end of the stream is the last
\* thing it carries, and a reply holds nothing that is not stored.
Linked ==
    /\ ~up => toClient = <<>> /\ toCore = <<>> /\ drops > 0
    /\ active => adopted
    /\ \A i \in 1..Len(toClient) : toClient[i].kind = "end" => i = Len(toClient) /\ Over
    /\ \A i \in Loads : loads[i].stage = "replied" =>
          \A m \in New : m \in ToSet(loads[i].doc) => m \in ToSet(doc)

\* v is what the client was sent of m by the frames that came, and those on their way
\* make it what was flushed.
Flow(m, v) ==
    \E lev \in [0..Len(toClient) -> 0..MaxText] :
        /\ Levels(toClient, m, lev) /\ lev[0] = v /\ lev[Len(toClient)] = flushed[m]
        /\ m \in DOMAIN live \/ Settles(toClient, m, lev)

\* It does not show more than that, or what it shows will be replaced.
NotAhead(m, v) ==
    \/ shown[m] <= v
    \/ ~up \/ Loading
    \/ Left /\ shown[m] <= flushed[m]
    \/ ~Left /\ Coming(m)
    \/ ~Left /\ Subscribing /\ m \in DOMAIN live /\ m \in ToSet(doc)

\* What is live is on screen, or on its way there.
Attached == up /\ ~Loading /\ ~Subscribing /\ ~abandoned /\ Active
OnScreen(m, v) ==
    Attached /\ m \in DOMAIN live =>
        Coming(m) \/ (m \in ToSet(view) /\ adopted /\ shown[m] = v)

Watches(m, v) ==
    Flow(m, v) /\ NotAhead(m, v) /\ OnScreen(m, v) /\ (drops = 0 => shown[m] = v)
Watched(m) == \E v \in 0..MaxText : Watches(m, v)

\* A connection that has held: the document and the screen are the same messages in
\* the same order, but for those on their way.
ShownOthers == IF post = "no" THEN Others ELSE Append(Others, LateUser)
Shows(p, k) ==
    Seated(p) /\ Arrives(toClient, p, k, Known) /\ view = Spliced(ShownOthers, p, k)
Held ==
    drops = 0 =>
        /\ up /\ \A i \in Loads : loads[i].stage = "none"
        /\ adopted \/ (toClient = <<>> /\ Over)
        /\ ~Begun => toClient = <<>> /\ view = ShownOthers /\ Unseated
        /\ Begun => \E p \in 1..2, k \in 0..MaxMessages : Shows(p, k)

ScreenInv ==
    ClientTypes /\ Linked /\ Told /\ Held /\ \A m \in New : Watched(m)

\* What is stored stays stored, and what was flushed stays flushed.
LEMMA NothingShrinks ==
  ASSUME IInv, Next, NEW m \in New
  PROVE  /\ m \in ToSet(doc) => m \in ToSet(doc')
         /\ flushed[m] <= flushed'[m] /\ flushed[m] \in 0..MaxText /\ flushed'[m] \in 0..MaxText
  <1>1. flushed[m] \in 0..MaxText /\ flushed[m] <= text[m] /\ Types /\ Texts /\ MaxText \in Nat
    BY TurnAssumption DEF IInv, Types, Texts
  <1>2. flushed'[m] \in 0..MaxText
    BY TurnInv DEF IInv, Types
  <1>3. flushed' = flushed \/ flushed' = Flushed
    BY StepKinds DEF Quiet, Flushes, Appears, DeleteTurn, BeginTurn, Persist, Announce,
       Resubscribe, PostUser, coreVars, textVars
  <1>4. flushed[m] <= flushed'[m]
    BY <1>1, <1>3, FlushedIsText
  <1>5. ASSUME m \in ToSet(doc) PROVE m \in ToSet(doc')
    <2>1. CASE Persist
      <3> DEFINE x == Head(finalizing)
      <3>1. Busy /\ ~persisted /\ doc' = InsertAfter(x, cursor)
        BY <2>1 DEF Persist
      <3>2. x = Announced + 1 /\ x \in New /\ cursor \in ToSet(doc)
        BY <3>1, NextToFinalize
      <3>3. x \notin ToSet(doc) /\ x \in Msgs /\ doc \in Seq(Msgs) /\ IsInjective(doc)
        <4>1. Announced \in Nat /\ Stored = Announced
          BY <3>1, Counts DEF IInv
        <4>2. QED  BY <3>2, <4>1 DEF IInv, Numbered, Types, Msgs
      <3> HIDE DEF x
      <3>4. ToSet(doc') = ToSet(doc) \cup {x}
        BY <3>1, <3>2, <3>3, InsertedAfter
      <3>5. QED  BY <1>5, <3>4
    <2>2. CASE PostUser
      <3>1. ToSet(doc') = ToSet(doc) \cup {LateUser}
        BY <2>2, PostedAtEnd DEF PostUser, IInv, Types
      <3>2. QED  BY <1>5, <3>1
    <2>3. CASE DeleteTurn
      <3>1. doc \in Found
        BY <2>3 DEF DeleteTurn, IInv, Opening
      <3>2. QED  BY <1>5, <3>1, FoundDocs DEF Blank
    <2>4. QED
      BY <1>5, <2>1, <2>2, <2>3, StepKinds DEF Quiet, Flushes, Appears, BeginTurn, Announce,
         Resubscribe, coreVars
  <1>6. QED  BY <1>1, <1>2, <1>4, <1>5

\* Only POST stores a user message.
LEMMA PostedAlone ==
  ASSUME IInv, TurnStep \/ Interrupt \/ (\E m \in New : Cancel(m)) \/ Resubscribe
  PROVE  ~PostUser
  <1>1. SUFFICES ASSUME PostUser PROVE FALSE
    OBVIOUS
  <1>2. doc' # doc
    BY <1>1, PostedAtEnd DEF PostUser, IInv, Types
  <1>3. phase' = phase /\ persisted' = persisted
    BY <1>1 DEF PostUser
  <1>4. DeleteTurn \/ Persist
    BY <1>2 DEF TurnStep, Start, BeginTurn, Filter, EnterLoop, Announce, PersistFails,
       MemoryFilterRetries, Hop, ReasoningDelta, FirstContent, ContentDelta, Flush, StreamStops, StreamAsksForTools, Settle,
       BeginCall, Display, EndCall, NextHop, LeaveLoop, EndTurn, Interrupt, Cancel, Resubscribe,
       coreVars
  <1>5. ~DeleteTurn
    BY <1>3 DEF DeleteTurn
  <1>6. ~Persist
    BY <1>3, Zenon DEF Persist
  <1>7. QED  BY <1>4, <1>5, <1>6

\* A message is both stored and in the catch-up buffer while it is being finalized.
LEMMA LiveStored ==
  ASSUME IInv, Told, NEW m \in DOMAIN live, m \in ToSet(doc)
  PROVE  Active /\ m \in New
  <1>1. m \in New /\ m \in Nat /\ m > Announced /\ Announced \in Nat
    BY LiveSegment DEF New
  <1>2. m <= Stored
    BY <1>1 DEF IInv, Numbered
  <1>3. persisted
    BY <1>1, <1>2, Counts DEF IInv
  <1>4. QED  BY <1>1, <1>3 DEF IInv, Stages, Active

\* A turn that is not active has nothing in the buffer when it becomes active.
LEMMA AwakesEmpty ==
  ASSUME IInv, Next, ~Active, Active'
  PROVE  DOMAIN live = {}
  <1>1. ~Over
    BY OverStays DEF Over, Active
  <1>2. ~Begun
    BY <1>1 DEF Over, Active, Begun
  <1>3. QED  BY <1>2, NotBegun

\* What was sent goes behind what is on its way.
LEMMA FlowSent ==
  ASSUME toClient \in Seq(Frames), NEW m \in New, NEW v, Flow(m, v), Tells(m), Proper,
         toClient' = toClient \o sent'
  PROVE  Flow(m, v)'
  <1> DEFINE q == toClient
             t == sent'
             Settled2(lev) == m \in DOMAIN live' \/ Settles(q \o t, m, lev)
  <1>1. PICK a \in [0..Len(q) -> 0..MaxText] :
          /\ Levels(q, m, a) /\ a[0] = v /\ a[Len(q)] = flushed[m]
          /\ m \in DOMAIN live \/ Settles(q, m, a)
    BY DEF Flow
  <1>2. PICK b \in [0..Len(t) -> 0..MaxText] :
          /\ Levels(t, m, b) /\ b[0] = flushed[m] /\ b[Len(t)] = flushed'[m]
          /\ m \in DOMAIN live' \/ Settles(t, m, b)
    BY DEF Tells
  <1>3. q \in Seq(Frames) /\ t \in Seq(Frames) /\ a[Len(q)] = b[0]
    BY <1>1, <1>2 DEF Proper
  <1>4. (m \in DOMAIN live) # (m \in DOMAIN live') => \E j \in 1..Len(t) : Carries(t[j], m)
    BY DEF Tells
  <1> HIDE DEF q, t
  <1>5. PICK lev \in [0..Len(q \o t) -> 0..MaxText] :
          /\ Levels(q \o t, m, lev) /\ lev[0] = a[0] /\ lev[Len(q \o t)] = b[Len(t)]
          /\ Settles(t, m, b) /\ (Settles(q, m, a) \/ \E j \in 1..Len(t) : Carries(t[j], m))
               => Settles(q \o t, m, lev)
    BY <1>1, <1>2, <1>3, LevelsBehind
  <1>6. Settled2(lev)
    BY <1>1, <1>2, <1>4, <1>5
  <1>7. toClient' = q \o t
    BY DEF q, t
  <1>8. QED  BY <1>1, <1>2, <1>5, <1>6, <1>7 DEF Flow

\* Nothing that changes it.
LEMMA FlowKept ==
  ASSUME UNCHANGED <<toClient, flushed, live>>, NEW m, NEW v, Flow(m, v)
  PROVE  Flow(m, v)'
  BY DEF Flow

\* When nothing is on its way the client was sent all that was flushed.
LEMMA FlowEmpty ==
  (toClient = <<>> /\ IInv) => \A m \in New : \A v : Flow(m, v) <=> v = flushed[m]
  <1>1. SUFFICES ASSUME toClient = <<>>, IInv, NEW m \in New, NEW v
                 PROVE  Flow(m, v) <=> v = flushed[m]
    OBVIOUS
  <1>2. flushed[m] \in 0..MaxText
    BY <1>1 DEF IInv, Types
  <1>3. Len(toClient) = 0 /\ 0..0 = {0} /\ 1..0 = {}
    BY <1>1
  <1>4. ASSUME Flow(m, v) PROVE v = flushed[m]
    BY <1>3, <1>4 DEF Flow
  <1>5. ASSUME v = flushed[m] PROVE Flow(m, v)
    <2> DEFINE lev == [i \in 0..0 |-> v]
    <2>1. lev \in [0..Len(toClient) -> 0..MaxText] /\ lev[0] = v
      BY <1>2, <1>3, <1>5
    <2> HIDE DEF lev
    <2>2. Levels(toClient, m, lev)
      BY <1>3, <2>1 DEF Levels
    <2>3. Settles(toClient, m, lev)
      BY <1>3 DEF Settles
    <2>4. QED  BY <1>3, <1>5, <2>1, <2>2, <2>3 DEF Flow
  <1>6. QED  BY <1>4, <1>5

\* What the next frame adds.
LEMMA FlowTail ==
  ASSUME toClient \in Seq(Frames), toClient # <<>>, toClient' = Tail(toClient),
         UNCHANGED <<flushed, live>>, NEW m \in New, NEW v, Flow(m, v)
  PROVE  LET f == Head(toClient)
         IN  \E w \in 0..MaxText :
               /\ Flow(m, w)' /\ w = v + (IF Adds(f, m) THEN f.n ELSE 0)
               /\ Carries(f, m) => f.text = w
  <1> DEFINE q == toClient
             f == Head(q)
  <1>1. PICK a \in [0..Len(q) -> 0..MaxText] :
          /\ Levels(q, m, a) /\ a[0] = v /\ a[Len(q)] = flushed[m]
          /\ m \in DOMAIN live \/ Settles(q, m, a)
    BY DEF Flow
  <1>2. PICK lev \in [0..Len(Tail(q)) -> 0..MaxText] :
            /\ Levels(Tail(q), m, lev) /\ lev[0] = a[1] /\ lev[Len(Tail(q))] = a[Len(q)]
            /\ Settles(q, m, a) => Settles(Tail(q), m, lev)
    BY <1>1, LevelsTail
  <1>3. f = q[1] /\ Len(q) \in Nat \ {0} /\ 1 \in 1..Len(q) /\ 1 \in 0..Len(q) /\ 1 - 1 = 0
    BY TakenOff
  <1>4. /\ a[1] = a[0] + (IF Adds(f, m) THEN f.n ELSE 0) /\ a[1] \in 0..MaxText
        /\ Carries(f, m) => f.text = a[1]
    BY <1>1, <1>3 DEF Levels
  <1>5. Flow(m, a[1])'
    BY <1>1, <1>2 DEF Flow
  <1>6. QED  BY <1>1, <1>4, <1>5

\* Where that is not all that was flushed, the message is live or it is to come.
LEMMA FlowNow ==
  ASSUME toClient \in Seq(Frames), NEW m \in New, NEW v, Flow(m, v)
  PROVE  m \in DOMAIN live \/ v = flushed[m] \/ Coming(m)
  <1>1. PICK a \in [0..Len(toClient) -> 0..MaxText] :
          /\ a[0] = v /\ a[Len(toClient)] = flushed[m]
          /\ m \in DOMAIN live \/ Settles(toClient, m, a)
    BY DEF Flow
  <1>2. 0 \in 0..Len(toClient) /\ 0 + 1 = 1
    BY LenProperties
  <1>3. QED  BY <1>1, <1>2 DEF Settles, Coming

\* A message that is to come stays so until it comes.
LEMMA ComingBehind ==
  ASSUME toClient \in Seq(Frames), NEW t \in Seq(Frames), toClient' = toClient \o t, NEW m
  PROVE  Coming(m) \/ (\E i \in 1..Len(t) : Carries(t[i], m)) => Coming(m)'
  <1>1. /\ Len(toClient') = Len(toClient) + Len(t) /\ Len(toClient) \in Nat /\ Len(t) \in Nat
        /\ \A i \in 1..Len(toClient) : toClient'[i] = toClient[i]
        /\ \A i \in 1..Len(t) : toClient'[Len(toClient) + i] = t[i]
    BY PutBehind
  <1>2. ASSUME NEW i \in 1..Len(toClient), Carries(toClient[i], m) PROVE Coming(m)'
    <2>1. i \in 1..Len(toClient')
      BY <1>1
    <2>2. QED  BY <1>1, <1>2, <2>1 DEF Coming
  <1>3. ASSUME NEW i \in 1..Len(t), Carries(t[i], m) PROVE Coming(m)'
    <2>1. Len(toClient) + i \in 1..Len(toClient')
      BY <1>1
    <2>2. QED  BY <1>1, <1>3, <2>1 DEF Coming
  <1>4. QED  BY <1>2, <1>3 DEF Coming

\* And then it has come.
LEMMA ComingTail ==
  ASSUME toClient \in Seq(Frames), toClient # <<>>, toClient' = Tail(toClient), NEW m, Coming(m)
  PROVE  Carries(Head(toClient), m) \/ Coming(m)'
  <1>1. PICK i \in 1..Len(toClient) : Carries(toClient[i], m)
    BY DEF Coming
  <1>2. /\ Head(toClient) = toClient[1]
        /\ i > 1 => i - 1 \in 1..Len(Tail(toClient)) /\ Tail(toClient)[i - 1] = toClient[i]
    BY TakenOff
  <1>3. i = 1 \/ i > 1
    BY LenProperties
  <1>4. QED  BY <1>1, <1>2, <1>3 DEF Coming

-----------------------------------------------------------------------------
(* The client's steps                                                      *)

\* cancelAllActiveCalls() sends a request for each bubble.
LEMMA CancelSequence ==
  ASSUME runningTools \subseteq New
  PROVE  CancelFrames \in Seq(Requests)
  <1> DEFINE S == {[kind |-> "cancel", id |-> m] : m \in runningTools}
             g == [m \in runningTools |-> [kind |-> "cancel", id |-> m]]
  <1>1. IsFiniteSet(runningTools)
    <2>1. IsFiniteSet(New)
      <3>1. 1 \in Int /\ MaxMessages \in Int
        BY TurnAssumption
      <3>2. QED  BY <3>1, FS_Interval DEF New
    <2>2. QED  BY <2>1, FS_Subset
  <1>2. g \in Surjection(runningTools, S)
    BY DEF Surjection
  <1>3. S \subseteq Requests
    BY DEF Requests
  <1> HIDE DEF S, g
  <1>4. IsFiniteSet(S)
    BY <1>1, <1>2, FS_Surjection
  <1>5. Cardinality(S) \in Nat /\ ExistsBijection(1..Cardinality(S), S)
    BY <1>4, FS_CardinalityType
  <1>6. \E h \in [1..Cardinality(S) -> S] : IsInjective(h)
    BY <1>5 DEF ExistsBijection, Bijection, Injection
  <1>7. SetToSeq(S) \in [1..Cardinality(S) -> S]
    BY <1>6 DEF SetToSeq
  <1>8. SetToSeq(S) \in Seq(S)
    BY <1>5, <1>7
  <1>9. SetToSeq(S) \in Seq(Requests)
    BY <1>3, <1>8
  <1>10. QED  BY <1>9 DEF CancelFrames, S

\* What the client asks for behind what it asked for before.
LEMMA AskedBehind ==
  ASSUME toCore \in Seq(Requests), NEW t \in Seq(Requests), toCore' = toCore \o t
  PROVE  /\ toCore' \in Seq(Requests)
         /\ Subscribing \/ (\E i \in 1..Len(t) : t[i].kind = "subscribe") => Subscribing'
  <1>1. /\ toCore' \in Seq(Requests) /\ Len(toCore') = Len(toCore) + Len(t)
        /\ Len(toCore) \in Nat /\ Len(t) \in Nat
        /\ \A i \in 1..Len(toCore) : toCore'[i] = toCore[i]
        /\ \A i \in 1..Len(t) : toCore'[Len(toCore) + i] = t[i]
    BY PutBehind
  <1>2. ASSUME NEW i \in 1..Len(toCore), toCore[i].kind = "subscribe" PROVE Subscribing'
    <2>1. i \in 1..Len(toCore')
      BY <1>1
    <2>2. QED  BY <1>1, <1>2, <2>1 DEF Subscribing
  <1>3. ASSUME NEW i \in 1..Len(t), t[i].kind = "subscribe" PROVE Subscribing'
    <2>1. Len(toCore) + i \in 1..Len(toCore')
      BY <1>1
    <2>2. QED  BY <1>1, <1>3, <2>1 DEF Subscribing
  <1>4. QED  BY <1>1, <1>2, <1>3 DEF Subscribing

\* A step of the core, as the client has it.
CoreSteps == CoreRuns \/ CoreReceives \/ StorePost

\* What it changes of what the client keeps.
LEMMA CoreStep ==
  ASSUME IInv, ClientTypes, Linked, CoreSteps
  PROVE  /\ Next /\ toClient' = (IF up THEN toClient \o sent' ELSE toClient)
         /\ UNCHANGED <<up, drops, view, shown, runningTools, adopted, active, abandoned, loads>>
         /\ toCore' \in Seq(Requests) /\ (~up => toCore' = <<>>)
         /\ Subscribing' => Subscribing
         /\ Subscribing /\ ~Subscribing' => Resubscribe /\ up
         /\ post' \in {"no", "sent", "stored"} /\ (post' = "no" <=> post = "no")
         /\ post' = "stored" <=> LateUser \in ToSet(doc')
  <1>1. [ClientNext]_allVars /\ toCore \in Seq(Requests) /\ post \in {"no", "sent", "stored"}
        /\ (post = "stored" <=> LateUser \in ToSet(doc)) /\ (~up => toCore = <<>>)
    BY DEF CoreSteps, ClientNext, ClientTypes, Linked
  <1>2. CASE CoreRuns
    <2>1. TurnStep /\ toCore' = toCore /\ post' = post
      BY <1>2 DEF CoreRuns
    <2>2. Next /\ ~PostUser
      BY <2>1, PostedAlone DEF Next
    <2>3. Subscribing' = Subscribing
      BY <2>1 DEF Subscribing
    <2>4. LateUser \in ToSet(doc') <=> LateUser \in ToSet(doc)
      BY <2>2, OthersKept
    <2>5. QED
      BY <1>1, <1>2, <2>1, <2>2, <2>3, <2>4 DEF CoreRuns, Broadcast, viewVars,
         streamState, linkVars
  <1>3. CASE StorePost
    <2>1. PostUser /\ toCore' = toCore /\ post = "sent" /\ post' = "stored"
      BY <1>3 DEF StorePost
    <2>2. Next
      BY <2>1 DEF Next, Handlers
    <2>3. Subscribing' = Subscribing
      BY <2>1 DEF Subscribing
    <2>4. LateUser \in ToSet(doc')
      BY <2>1, <2>2, OthersKept
    <2>5. QED
      BY <1>1, <1>3, <2>1, <2>2, <2>3, <2>4 DEF StorePost, Broadcast, viewVars,
         streamState, linkVars
  <1>4. CASE CoreReceives
    <2> DEFINE f == Head(toCore)
    <2>1. /\ toCore # <<>> /\ toCore' = Tail(toCore) /\ post' = post
          /\ \/ f.kind # "subscribe" /\ (Start \/ Interrupt \/ Cancel(f.id))
             \/ Resubscribe
      BY <1>4 DEF CoreReceives
    <2>2. Next /\ ~PostUser
      <3>1. CASE Start \/ Resubscribe \/ Interrupt
        <4>1. TurnStep \/ Interrupt \/ (\E m \in New : Cancel(m)) \/ Resubscribe
          BY <3>1 DEF TurnStep
        <4>2. QED  BY <4>1, PostedAlone DEF Next, Handlers
      <3>2. CASE Cancel(f.id)
        <4>1. doc' = doc
          BY <3>2 DEF Cancel
        <4>2. ~PostUser
          BY <4>1, PostedAtEnd DEF PostUser, IInv, Types
        <4>3. \E m \in New : Cancel(m)
          <5>1. Calling => tool \in New
            <6>1. Types /\ InHand
              BY DEF IInv
            <6>2. Calling => tool \in 1..created
              BY <6>1, Counts DEF InHand
            <6>3. created \in 0..MaxMessages /\ MaxMessages \in Nat
              BY <6>1, TurnAssumption DEF Types
            <6>4. QED  BY <6>2, <6>3 DEF New
          <5>2. 1 \in New
            BY TurnAssumption DEF New
          <5>3. Cancel(1) \/ (f.id \in New /\ Cancel(f.id))
            BY <3>2, <5>1 DEF Cancel, Calling
          <5>4. QED  BY <5>2, <5>3
        <4>4. QED  BY <4>2, <4>3 DEF Next, Handlers
      <3>3. QED  BY <2>1, <3>1, <3>2
    <2>3. /\ f = toCore[1] /\ toCore' \in Seq(Requests)
          /\ \A i \in 1..Len(toCore') : toCore'[i] = toCore[i + 1] /\ i + 1 \in 1..Len(toCore)
          /\ \A i \in 1..Len(toCore) : i > 1 => /\ i - 1 \in 1..Len(toCore')
                                                /\ toCore'[i - 1] = toCore[i]
      BY <1>1, <2>1, TakenOff
    <2> HIDE DEF f
    <2>4. Subscribing' => Subscribing
      BY <2>3 DEF Subscribing
    <2>5. ASSUME Subscribing, ~Subscribing' PROVE Resubscribe
      <3>1. PICK i \in 1..Len(toCore) : toCore[i].kind = "subscribe"
        BY <2>5 DEF Subscribing
      <3>2. ~(i > 1)
        BY <2>3, <2>5, <3>1 DEF Subscribing
      <3>3. i = 1
        BY <3>2
      <3>4. QED  BY <2>1, <2>3, <3>1, <3>3
    <2>6. up
      BY <1>1, <2>1
    <2>7. LateUser \in ToSet(doc') <=> LateUser \in ToSet(doc)
      BY <2>2, OthersKept
    <2>8. QED
      BY <1>1, <1>4, <2>1, <2>2, <2>3, <2>4, <2>5, <2>6, <2>7
         DEF CoreReceives, Broadcast, viewVars, streamState, linkVars
  <1>5. QED  BY <1>2, <1>3, <1>4 DEF CoreSteps

\* applyServerMessage() shows the message as it was sent, and leaves the others.
LEMMA Applied ==
  ASSUME ClientTypes, NEW f \in Frames, f.kind = "message", ApplyMessage(f)
  PROVE  /\ view' \in Seq(Msgs) /\ shown' \in [New -> Nat] /\ runningTools' \subseteq New
         /\ f.id \in ToSet(view') /\ ToSet(view) \subseteq ToSet(view')
         /\ shown'[f.id] = f.text
         /\ \A m \in New : m # f.id => shown'[m] = shown[m]
  <1>1. f.id \in New /\ f.id \in Msgs /\ f.text \in Nat
    BY FrameKinds DEF Msgs
  <1>2. view \in Seq(Msgs) /\ shown \in [New -> Nat] /\ runningTools \subseteq New
    BY DEF ClientTypes
  <1>3. /\ shown' \in [New -> Nat] /\ runningTools' \subseteq New /\ shown'[f.id] = f.text
        /\ \A m \in New : m # f.id => shown'[m] = shown[m]
    BY <1>1, <1>2 DEF ApplyMessage
  <1>4. view' \in Seq(Msgs) /\ f.id \in ToSet(view') /\ ToSet(view) \subseteq ToSet(view')
    <2>1. CASE f.id \in ToSet(view)
      BY <1>2, <2>1 DEF ApplyMessage
    <2>2. CASE f.id \notin ToSet(view) /\ f.after \in ToSet(view)
      <3> DEFINE c == CHOOSE i \in 1..Len(view) : view[i] = f.after
                 n == Len(view)
                 e == f.id
      <3>1. c \in 1..n
        <4>1. \E i \in 1..Len(view) : view[i] = f.after
          BY <1>2, <2>2 DEF ToSet
        <4>2. QED  BY <4>1, Zenon
      <3>2. view' = InsertAt(view, 1 + c, e)
        BY <2>2 DEF ApplyMessage
      <3>3. n \in Nat /\ e \in Msgs
        BY <1>1, <1>2
      <3> HIDE DEF c, e
      <3>4. 1 + c \in 1..(Len(view) + 1)
        BY <3>1, <3>3
      <3>5. /\ view' \in Seq(Msgs) /\ Len(view') = n + 1 /\ view'[1 + c] = e
            /\ \A j \in 1..((1 + c) - 1) : view'[j] = view[j]
            /\ \A j \in (1 + c)..n : view'[j + 1] = view[j]
        BY <1>2, <3>2, <3>3, <3>4, InsertAtElements
      <3> HIDE DEF n
      <3>6. e \in ToSet(view')
        BY <3>1, <3>3, <3>5 DEF ToSet
      <3>7. ASSUME NEW j \in 1..n PROVE view[j] \in ToSet(view')
        <4>1. CASE j <= c
          <5>1. j \in 1..((1 + c) - 1) /\ j \in 1..(n + 1)
            BY <3>1, <3>3, <4>1
          <5>2. QED  BY <3>5, <5>1 DEF ToSet
        <4>2. CASE ~(j <= c)
          <5>1. j \in (1 + c)..n /\ j + 1 \in 1..(n + 1)
            BY <3>1, <3>3, <4>2
          <5>2. QED  BY <3>5, <5>1 DEF ToSet
        <4>3. QED  BY <4>1, <4>2
      <3>8. QED  BY <3>5, <3>6, <3>7 DEF ToSet, n, e
    <2>3. CASE f.id \notin ToSet(view) /\ f.after \notin ToSet(view)
      <3>1. view' = Append(view, f.id)
        BY <2>3 DEF ApplyMessage
      <3> DEFINE n == Len(view)
                 e == f.id
      <3>2. /\ view' \in Seq(Msgs) /\ Len(view') = n + 1 /\ view'[n + 1] = e /\ n \in Nat
            /\ \A j \in 1..n : view'[j] = view[j]
        <4>1. e \in Msgs /\ view' = Append(view, e)
          BY <1>1, <3>1
        <4> HIDE DEF e
        <4>2. QED  BY <1>2, <4>1, AppendProperties
      <3> HIDE DEF n, e
      <3>3. n + 1 \in 1..(n + 1) /\ \A j \in 1..n : j \in 1..(n + 1)
        BY <3>2
      <3>4. QED  BY <3>2, <3>3 DEF ToSet, n, e
    <2>4. QED  BY <2>1, <2>2, <2>3
  <1>5. QED  BY <1>3, <1>4

\* It brings no other message to the screen.
LEMMA AppliedSet ==
  ASSUME ClientTypes, NEW f \in Frames, f.kind = "message", ApplyMessage(f)
  PROVE  ToSet(view') \subseteq ToSet(view) \cup {f.id}
  <1>1. f.id \in Msgs /\ view \in Seq(Msgs)
    BY FrameKinds DEF Msgs, ClientTypes
  <1>2. CASE f.id \in ToSet(view)
    BY <1>2 DEF ApplyMessage
  <1>3. CASE f.id \notin ToSet(view) /\ f.after \in ToSet(view)
    <2> DEFINE c == CHOOSE i \in 1..Len(view) : view[i] = f.after
               e == f.id
    <2>1. c \in 1..Len(view)
      <3>1. \E i \in 1..Len(view) : view[i] = f.after
        BY <1>1, <1>3 DEF ToSet
      <3>2. QED  BY <3>1, Zenon
    <2>2. view' = InsertAt(view, 1 + c, e) /\ e \in Msgs
      BY <1>1, <1>3 DEF ApplyMessage
    <2> HIDE DEF c, e
    <2>3. 1 + c \in 1..(Len(view) + 1)
      BY <1>1, <2>1
    <2>4. ToSet(view') \subseteq ToSet(view) \cup {e}
      BY <1>1, <2>2, <2>3, InsertedSet
    <2>5. QED  BY <2>4 DEF e
  <1>4. CASE f.id \notin ToSet(view) /\ f.after \notin ToSet(view)
    <2>1. view' = Append(view, f.id)
      BY <1>4 DEF ApplyMessage
    <2>2. QED  BY <1>1, <2>1, AppendedSet
  <1>5. QED  BY <1>2, <1>3, <1>4

\* What a load holds.
LEMMA LoadKinds ==
  ASSUME ClientTypes, NEW i \in Loads
  PROVE  /\ loads[i].stage \in {"none", "asked", "replied", "done"}
         /\ loads[i].stage \in {"replied", "done"} =>
              /\ loads[i].doc \in Seq(Msgs)
              /\ [loads[i] EXCEPT !.stage = "done"] = [stage |-> "done", doc |-> loads[i].doc]
  <1>1. loads[i] \in LoadStates
    BY DEF ClientTypes
  <1>2. CASE loads[i] \in [stage : {"none", "asked"}]
    BY <1>2
  <1>3. CASE loads[i] \in [stage : {"replied", "done"}, doc : Seq(Msgs)]
    BY <1>3
  <1>4. QED  BY <1>1, <1>2, <1>3 DEF LoadStates

\* The types, and what the connection promises, are kept by each step: of the core, ...
LEMMA CoreTyped ==
  ASSUME IInv, Told, ClientTypes, Linked, CoreSteps
  PROVE  ClientTypes' /\ Linked'
  <1>1. /\ Next /\ toClient' = (IF up THEN toClient \o sent' ELSE toClient)
        /\ UNCHANGED <<up, drops, view, shown, runningTools, adopted, active, abandoned, loads>>
        /\ toCore' \in Seq(Requests) /\ (~up => toCore' = <<>>)
        /\ post' \in {"no", "sent", "stored"}
        /\ post' = "stored" <=> LateUser \in ToSet(doc')
    BY CoreStep
  <1>2. Proper
    <2>1. 1 \in New
      BY TurnAssumption DEF New
    <2>2. QED  BY <1>1, <2>1, StepTells
  <1>3. /\ toClient \in Seq(Frames) /\ sent' \in Seq(Frames)
        /\ \A i \in 1..Len(toClient) : toClient[i].kind = "end" => i = Len(toClient) /\ Over
        /\ \A i \in 1..Len(sent') : sent'[i].kind = "end" => i = Len(sent') /\ Over'
        /\ (~up => toClient = <<>> /\ drops > 0)
    BY <1>2 DEF Proper, ClientTypes, Linked
  <1>4. Over => Over' /\ sent' = <<>>
    BY <1>1, OverStays
  <1>5. toClient' \in Seq(Frames)
    BY <1>1, <1>3
  <1>6. ASSUME NEW i \in 1..Len(toClient'), toClient'[i].kind = "end"
        PROVE  i = Len(toClient') /\ Over'
    <2>1. CASE ~up
      BY <1>1, <1>3, <1>4, <1>6, <2>1
    <2>2. CASE up
      <3>1. /\ Len(toClient') = Len(toClient) + Len(sent') /\ Len(toClient) \in Nat
            /\ Len(sent') \in Nat
            /\ \A j \in 1..(Len(toClient) + Len(sent')) :
                 toClient'[j] = IF j <= Len(toClient) THEN toClient[j] ELSE sent'[j - Len(toClient)]
        <4>1. toClient' = toClient \o sent'
          BY <1>1, <2>2
        <4>2. QED  BY <1>3, <4>1, PutBehind
      <3>2. CASE i <= Len(toClient)
        <4>1. i \in 1..Len(toClient) /\ toClient[i].kind = "end"
          BY <1>6, <3>1, <3>2
        <4>2. i = Len(toClient) /\ Over
          BY <1>3, <4>1
        <4>3. Len(sent') = 0
          BY <1>4, <4>2
        <4>4. QED  BY <1>4, <3>1, <4>2, <4>3
      <3>3. CASE ~(i <= Len(toClient))
        <4>1. i - Len(toClient) \in 1..Len(sent') /\ toClient'[i] = sent'[i - Len(toClient)]
          BY <3>1, <3>3
        <4>2. i - Len(toClient) = Len(sent') /\ Over'
          BY <1>3, <1>6, <4>1
        <4>3. QED  BY <3>1, <4>2
      <3>4. QED  BY <3>2, <3>3
    <2>3. QED  BY <2>1, <2>2
  <1>7. \A i \in Loads : loads'[i].stage = "replied" =>
          \A m \in New : m \in ToSet(loads'[i].doc) => m \in ToSet(doc')
    BY <1>1, NothingShrinks DEF Linked
  <1>8. ClientTypes'
    BY <1>1, <1>5 DEF ClientTypes
  <1>9. Linked'
    BY <1>1, <1>3, <1>6, <1>7 DEF Linked
  <1>10. QED  BY <1>8, <1>9

\* ... of the client that takes a frame, ...
LEMMA FrameTyped ==
  ASSUME ClientTypes, Linked, OnFrame
  PROVE  ClientTypes' /\ Linked'
  <1> DEFINE f == Head(toClient)
  <1>1. /\ toClient \in Seq(Frames) /\ toClient # <<>> /\ toClient' = Tail(toClient)
        /\ UNCHANGED <<doc, phase, up, drops, toCore, abandoned, loads, post>>
    BY DEF OnFrame, ClientTypes, vars, coreVars, linkVars
  <1>2. /\ f \in Frames /\ Tail(toClient) \in Seq(Frames) /\ Len(toClient) \in Nat
        /\ Len(Tail(toClient)) = Len(toClient) - 1
        /\ \A i \in 1..Len(Tail(toClient)) :
             Tail(toClient)[i] = toClient[i + 1] /\ i + 1 \in 1..Len(toClient)
    BY <1>1, TakenOff
  <1>3. /\ view \in Seq(Msgs) /\ shown \in [New -> Nat] /\ runningTools \subseteq New
        /\ adopted \in BOOLEAN /\ (active => adopted)
    BY DEF ClientTypes, Linked
  <1>4. /\ view' \in Seq(Msgs) /\ shown' \in [New -> Nat] /\ runningTools' \subseteq New
        /\ adopted' \in BOOLEAN /\ (active' => adopted')
    <2>1. CASE f.kind = "message" /\ ApplyMessage(f) /\ adopted' = TRUE
      BY <1>2, <2>1, Applied
    <2>2. CASE /\ f.kind = "delta" /\ shown' = [shown EXCEPT ![f.id] = @ + f.n]
               /\ UNCHANGED <<view, runningTools, adopted, active>>
      <3>1. f.id \in New /\ f.n \in Nat
        BY <1>2, <2>2, FrameKinds
      <3>2. QED  BY <1>3, <2>2, <3>1
    <2>3. CASE /\ f.kind = "deleted" /\ view' = RemoveFirst(view, f.id)
               /\ UNCHANGED <<shown, runningTools, adopted, active>>
      BY <1>3, <2>3, Removed
    <2>4. CASE /\ adopted' = FALSE /\ active' = FALSE /\ UNCHANGED viewVars
      BY <1>3, <2>4 DEF viewVars
    <2>5. CASE UNCHANGED <<viewVars, adopted, active>>
      BY <1>3, <2>5 DEF viewVars
    <2>6. QED  BY <2>1, <2>2, <2>3, <2>4, <2>5, Zenon DEF OnFrame
  <1> HIDE DEF f
  <1>5. ClientTypes'
    BY <1>1, <1>2, <1>4 DEF ClientTypes
  <1>6. ASSUME NEW i \in 1..Len(toClient'), toClient'[i].kind = "end"
        PROVE  i = Len(toClient') /\ Over'
    <2>1. i + 1 = Len(toClient) /\ Over
      BY <1>1, <1>2, <1>6, Zenon DEF Linked
    <2>2. i \in Int /\ Len(toClient) \in Nat /\ Len(toClient') = Len(toClient) - 1
      BY <1>1, <1>2
    <2> DEFINE n == Len(toClient)
               l == Len(toClient')
    <2> HIDE DEF n, l
    <2>3. i = Len(toClient')
      <3>1. i \in Int /\ n \in Nat /\ l = n - 1 /\ i + 1 = n
        BY <2>1, <2>2 DEF n, l
      <3>2. i = l
        BY <3>1
      <3>3. QED  BY <3>2 DEF l
    <2>4. Over'
      BY <1>1, <2>1 DEF Over
    <2>5. QED  BY <2>3, <2>4
  <1>7. up
    BY <1>1 DEF Linked
  <1>8. \A i \in Loads : loads'[i].stage = "replied" =>
           \A m \in New : m \in ToSet(loads'[i].doc) => m \in ToSet(doc')
    BY <1>1 DEF Linked
  <1>9. (~up' => toClient' = <<>> /\ toCore' = <<>> /\ drops' > 0) /\ (active' => adopted')
    BY <1>1, <1>4, <1>7
  <1>10. QED  BY <1>5, <1>6, <1>8, <1>9 DEF Linked

\* ... or stops, ...
LEMMA StopTyped ==
  ASSUME ClientTypes, Linked, UserStops
  PROVE  ClientTypes' /\ Linked' /\ (Subscribing => Subscribing')
  <1> DEFINE t == IF adopted THEN <<[kind |-> "interrupt"]>> ELSE <<>>
  <1>1. /\ toCore' = (toCore \o CancelFrames) \o t /\ up /\ active' = FALSE
        /\ abandoned' = adopted
        /\ UNCHANGED <<doc, phase, up, drops, toClient, view, shown, runningTools, adopted, loads,
                       post>>
    BY DEF UserStops, vars, coreVars, linkVars, viewVars
  <1>2. toCore \in Seq(Requests) /\ CancelFrames \in Seq(Requests) /\ t \in Seq(Requests)
    <2>1. [kind |-> "interrupt"] \in Requests
      BY DEF Requests
    <2>2. t \in Seq(Requests)
      BY <2>1, EmptySeq
    <2>3. QED  BY <2>2, CancelSequence DEF ClientTypes
  <1> HIDE DEF t
  <1>3. CancelFrames \o t \in Seq(Requests) /\ toCore' = toCore \o (CancelFrames \o t)
    BY <1>1, <1>2, ConcatAssociative
  <1>4. toCore' \in Seq(Requests) /\ (Subscribing => Subscribing')
    BY <1>2, <1>3, AskedBehind
  <1>5. ClientTypes'
    BY <1>1, <1>4 DEF ClientTypes
  <1>6. Linked'
    BY <1>1 DEF Linked, Over
  <1>7. QED  BY <1>4, <1>5, <1>6

\* ... or posts, ...
LEMMA PostTyped ==
  ASSUME ClientTypes, Linked, UserPosts
  PROVE  /\ ClientTypes' /\ Linked' /\ ToSet(view) \subseteq ToSet(view')
  <1>1. /\ post = "no" /\ post' = "sent" /\ view' = Append(view, LateUser)
        /\ UNCHANGED <<doc, phase, up, drops, toClient, toCore, shown, runningTools, adopted, active,
                       abandoned, loads>>
    BY DEF UserPosts, vars, coreVars, linkVars, streamState
  <1>2. LateUser \in Msgs /\ view \in Seq(Msgs)
    BY DEF Msgs, Users, ClientTypes
  <1>3. /\ view' \in Seq(Msgs) /\ Len(view') = Len(view) + 1 /\ Len(view) \in Nat
        /\ \A j \in 1..Len(view) : view'[j] = view[j]
    BY <1>1, <1>2, AppendProperties
  <1>4. \A j \in 1..Len(view) : j \in 1..Len(view')
    BY <1>3
  <1>5. ToSet(view) \subseteq ToSet(view')
    BY <1>2, <1>3, <1>4 DEF ToSet
  <1>6. ClientTypes'
    BY <1>1, <1>3 DEF ClientTypes
  <1>7. Linked'
    BY <1>1 DEF Linked, Over
  <1>8. QED  BY <1>5, <1>6, <1>7

\* ... when the connection drops, ...
LEMMA DropTyped ==
  ASSUME ClientTypes, Linked, Disconnect
  PROVE  ClientTypes' /\ Linked'
  <1>1. /\ up' = FALSE /\ drops' = drops + 1 /\ drops < MaxDrops /\ toClient' = <<>>
        /\ toCore' = <<>> /\ adopted' = FALSE /\ active' = FALSE
        /\ UNCHANGED <<doc, phase, view, shown, runningTools, abandoned, loads, post>>
    BY DEF Disconnect, vars, coreVars, viewVars
  <1>2. drops \in 0..MaxDrops /\ MaxDrops \in Nat
    BY DropsAssumption DEF ClientTypes
  <1>3. drops' \in 0..MaxDrops /\ drops' > 0
    BY <1>1, <1>2
  <1>4. toClient' \in Seq(Frames) /\ toCore' \in Seq(Requests)
    BY <1>1, EmptySeq
  <1>5. ClientTypes'
    BY <1>1, <1>3, <1>4 DEF ClientTypes
  <1>6. \A i \in 1..Len(toClient') : FALSE
    BY <1>1
  <1>7. Linked'
    BY <1>1, <1>3, <1>6 DEF Linked
  <1>8. QED  BY <1>5, <1>7

\* A load that is changed.
LEMMA LoadsTyped ==
  ASSUME ClientTypes, Linked, NEW i \in Loads, NEW l, loads' = [loads EXCEPT ![i] = l],
         \/ l = [stage |-> "asked"]
         \/ l = [stage |-> "replied", doc |-> doc] /\ doc \in Seq(Msgs)
         \/ l = [stage |-> "done", doc |-> loads[i].doc] /\ loads[i].stage = "replied"
  PROVE  /\ loads' \in [Loads -> LoadStates]
         /\ loads'[i] = l /\ \A j \in Loads : j # i => loads'[j] = loads[j]
         /\ \A j \in Loads : loads'[j].stage = "replied" =>
              \A m \in New : m \in ToSet(loads'[j].doc) => m \in ToSet(doc)
  <1>1. /\ loads \in [Loads -> LoadStates]
        /\ \A j \in Loads : loads[j].stage = "replied" =>
              \A m \in New : m \in ToSet(loads[j].doc) => m \in ToSet(doc)
    BY DEF ClientTypes, Linked
  <1>2. loads'[i] = l /\ \A j \in Loads : j # i => loads'[j] = loads[j]
    BY <1>1
  <1>3. l \in LoadStates
    <2>1. CASE l = [stage |-> "asked"]
      BY <2>1 DEF LoadStates
    <2>2. CASE l = [stage |-> "replied", doc |-> doc] /\ doc \in Seq(Msgs)
      BY <2>2 DEF LoadStates
    <2>3. CASE l = [stage |-> "done", doc |-> loads[i].doc] /\ loads[i].stage = "replied"
      <3>1. loads[i].doc \in Seq(Msgs)
        BY <2>3, LoadKinds
      <3>2. QED  BY <2>3, <3>1 DEF LoadStates
    <2>4. QED  BY <2>1, <2>2, <2>3
  <1>4. loads' \in [Loads -> LoadStates]
    BY <1>1, <1>3
  <1>5. l.stage = "replied" => \A m \in New : m \in ToSet(l.doc) => m \in ToSet(doc)
    OBVIOUS
  <1>6. QED  BY <1>1, <1>2, <1>4, <1>5

\* ... and is back, when a load begins, ...
LEMMA ReconnectTyped ==
  ASSUME ClientTypes, Linked, Reconnect
  PROVE  ClientTypes' /\ Linked' /\ Loading'
  <1>1. /\ up' = TRUE /\ toCore' \in {CancelFrames, <<>>} /\ ~up
        /\ loads' = [loads EXCEPT ![drops] = [stage |-> "asked"]]
        /\ UNCHANGED <<doc, phase, drops, toClient, view, shown, runningTools, adopted, active,
                       abandoned, post>>
    BY DEF Reconnect, vars, coreVars, viewVars, streamState
  <1>2. drops \in Loads
    BY <1>1, DropsAssumption DEF ClientTypes, Linked, Loads
  <1> DEFINE l == [stage |-> "asked"]
  <1>3. l.stage = "asked" /\ l = [stage |-> "asked"]
    OBVIOUS
  <1> HIDE DEF l
  <1>4. loads' = [loads EXCEPT ![drops] = l]
    BY <1>1 DEF l
  <1>5. /\ loads' \in [Loads -> LoadStates]
        /\ loads'[drops] = l
        /\ \A j \in Loads : loads'[j].stage = "replied" =>
              \A m \in New : m \in ToSet(loads'[j].doc) => m \in ToSet(doc)
    BY <1>2, <1>3, <1>4, LoadsTyped
  <1>6. toCore' \in Seq(Requests)
    BY <1>1, CancelSequence, EmptySeq DEF ClientTypes
  <1>7. ClientTypes'
    BY <1>1, <1>5, <1>6 DEF ClientTypes
  <1>8. Linked'
    BY <1>1, <1>5 DEF Linked, Over
  <1>9. Loading'
    BY <1>2, <1>3, <1>5 DEF Loading
  <1>10. QED  BY <1>7, <1>8, <1>9

\* ... is answered ...
LEMMA ServeTyped ==
  ASSUME IInv, ClientTypes, Linked, NEW i \in Loads, ServeGet(i)
  PROVE  ClientTypes' /\ Linked' /\ Loading' /\ Loading /\ loads[i].stage # "none"
  <1>1. /\ loads[i].stage = "asked"
        /\ loads' = [loads EXCEPT ![i] = [stage |-> "replied", doc |-> doc]]
        /\ UNCHANGED <<doc, phase, up, drops, toClient, toCore, view, shown, runningTools, adopted,
                       active, abandoned, post>>
    BY DEF ServeGet, vars, coreVars, viewVars, streamState, linkVars
  <1> DEFINE l == [stage |-> "replied", doc |-> doc]
  <1>2. l.stage = "replied" /\ l = [stage |-> "replied", doc |-> doc] /\ doc \in Seq(Msgs)
    BY DEF IInv, Types
  <1> HIDE DEF l
  <1>3. loads' = [loads EXCEPT ![i] = l]
    BY <1>1 DEF l
  <1>4. /\ loads' \in [Loads -> LoadStates]
        /\ loads'[i] = l
        /\ \A j \in Loads : loads'[j].stage = "replied" =>
              \A m \in New : m \in ToSet(loads'[j].doc) => m \in ToSet(doc)
    BY <1>2, <1>3, LoadsTyped
  <1>5. ClientTypes'
    BY <1>1, <1>4 DEF ClientTypes
  <1>6. Linked'
    BY <1>1, <1>4 DEF Linked, Over
  <1>7. Loading' /\ Loading
    BY <1>1, <1>2, <1>4 DEF Loading
  <1>8. QED  BY <1>1, <1>5, <1>6, <1>7

\* ... and replaces the transcript.
LEMMA HydrateTyped ==
  ASSUME IInv, ClientTypes, Linked, NEW i \in Loads, Hydrate(i)
  PROVE  ClientTypes' /\ Linked' /\ Loading /\ loads[i].stage # "none" /\ (up => Subscribing')
  <1>1. /\ loads[i].stage = "replied" /\ view' = loads[i].doc
        /\ shown' = [m \in New |-> IF m \in ToSet(loads[i].doc) THEN text[m] ELSE 0]
        /\ runningTools' = {} /\ adopted' = FALSE /\ active' = FALSE
        /\ toCore' = (IF up THEN Append(toCore, [kind |-> "subscribe"]) ELSE toCore)
        /\ loads' = [loads EXCEPT ![i] = [loads[i] EXCEPT !.stage = "done"]]
        /\ UNCHANGED <<doc, phase, up, drops, toClient, abandoned, post>>
    BY DEF Hydrate, vars, coreVars, linkVars
  <1> DEFINE l == [stage |-> "done", doc |-> loads[i].doc]
             r == [kind |-> "subscribe"]
  <1>2. l = [stage |-> "done", doc |-> loads[i].doc] /\ l = [loads[i] EXCEPT !.stage = "done"]
    BY <1>1, LoadKinds
  <1>3. r \in Requests /\ r.kind = "subscribe"
    BY DEF Requests
  <1>4. loads' = [loads EXCEPT ![i] = l] /\ toCore' = IF up THEN Append(toCore, r) ELSE toCore
    BY <1>1, <1>2
  <1> HIDE DEF l, r
  <1>5. /\ loads' \in [Loads -> LoadStates]
        /\ \A j \in Loads : loads'[j].stage = "replied" =>
              \A m \in New : m \in ToSet(loads'[j].doc) => m \in ToSet(doc)
    BY <1>1, <1>2, <1>4, LoadsTyped
  <1>6. toCore' \in Seq(Requests) /\ (up => Subscribing')
    <2>1. CASE ~up
      BY <1>4, <2>1 DEF ClientTypes
    <2>2. CASE up
      <3>1. toCore \in Seq(Requests) /\ toCore' = Append(toCore, r)
        BY <1>4, <2>2 DEF ClientTypes
      <3>2. /\ toCore' \in Seq(Requests) /\ Len(toCore') = Len(toCore) + 1 /\ Len(toCore) \in Nat
            /\ toCore'[Len(toCore) + 1] = r
        BY <1>3, <3>1, AppendProperties
      <3>3. Len(toCore) + 1 \in 1..Len(toCore')
        BY <3>2
      <3>4. QED  BY <1>3, <3>2, <3>3 DEF Subscribing
    <2>3. QED  BY <2>1, <2>2
  <1>7. view' \in Seq(Msgs)
    BY <1>1, LoadKinds
  <1>8. shown' \in [New -> Nat]
    BY <1>1 DEF IInv, Types
  <1>9. ClientTypes'
    BY <1>1, <1>5, <1>6, <1>7, <1>8 DEF ClientTypes
  <1>10. Linked'
    BY <1>1, <1>5 DEF Linked, Over
  <1>11. Loading
    BY <1>1 DEF Loading
  <1>12. QED  BY <1>1, <1>6, <1>9, <1>10, <1>11

-----------------------------------------------------------------------------
(* What the client shows of a message                                      *)

\* The same after a step.
LEMMA FlowEmptyNext ==
  (toClient' = <<>> /\ IInv') => \A m \in New : \A v : Flow(m, v)' <=> v = flushed'[m]
  <1>1. ((toClient = <<>> /\ IInv) => \A m \in New : \A v : Flow(m, v) <=> v = flushed[m])'
    BY FlowEmpty, PTL
  <1>2. QED  BY <1>1

\* The core's steps send what they add to a message.
LEMMA CoreWatched ==
  ASSUME IInv, Told, ClientTypes, Linked, Held, CoreSteps, NEW m \in New, Watched(m)
  PROVE  Watched(m)'
  <1>1. /\ Next /\ toClient' = (IF up THEN toClient \o sent' ELSE toClient)
        /\ UNCHANGED <<up, drops, view, shown, runningTools, adopted, active, abandoned, loads>>
        /\ (Subscribing' => Subscribing)
        /\ (Subscribing /\ ~Subscribing' => Resubscribe /\ up)
    BY CoreStep
  <1>2. Tells(m) /\ Proper /\ IInv'
    BY <1>1, StepTells, TurnInv
  <1>3. /\ m \in ToSet(doc) => m \in ToSet(doc')
        /\ flushed[m] <= flushed'[m] /\ flushed[m] \in 0..MaxText /\ flushed'[m] \in 0..MaxText
    BY <1>1, NothingShrinks
  <1>4. toClient \in Seq(Frames) /\ sent' \in Seq(Frames) /\ shown[m] \in Nat /\ drops \in Nat
    BY <1>2 DEF ClientTypes, Proper
  <1>5. Loading' = Loading /\ Left' = Left
    BY <1>1 DEF Loading, Left
  <1>6. CASE ~up
    <2>1. toClient' = <<>> /\ drops # 0
      BY <1>1, <1>4, <1>6 DEF Linked
    <2>2. PICK v \in 0..MaxText : v = flushed'[m]
      BY <1>3
    <2>3. Flow(m, v)'
      BY <1>2, <2>1, <2>2, FlowEmptyNext
    <2>4. NotAhead(m, v)' /\ OnScreen(m, v)'
      BY <1>1, <1>6 DEF NotAhead, OnScreen, Attached
    <2>5. QED  BY <1>1, <2>1, <2>3, <2>4 DEF Watched, Watches
  <1>7. CASE up
    <2>1. PICK v \in 0..MaxText : Watches(m, v)
      BY DEF Watched
    <2>2. Flow(m, v) /\ NotAhead(m, v) /\ OnScreen(m, v) /\ (drops = 0 => shown[m] = v)
      BY <2>1 DEF Watches
    <2>3. toClient' = toClient \o sent'
      BY <1>1, <1>7
    <2>4. Flow(m, v)'
      BY <1>2, <1>4, <2>2, <2>3, FlowSent
    <2>5. Coming(m) \/ (\E i \in 1..Len(sent') : Carries(sent'[i], m)) => Coming(m)'
      BY <1>4, <2>3, ComingBehind
    <2>6. (m \in DOMAIN live) # (m \in DOMAIN live') => Coming(m)'
      BY <1>2, <2>5 DEF Tells
    <2>7. ASSUME Subscribing, ~Subscribing', Active, m \in DOMAIN live PROVE Coming(m)'
      <3>1. \E i \in 1..Len(sent') : Carries(sent'[i], m)
        BY <1>1, <2>7, Replay
      <3>2. QED  BY <2>5, <3>1
    <2>8. NotAhead(m, v)'
      <3>1. CASE shown[m] <= v \/ ~up \/ Loading
        BY <1>1, <1>5, <3>1 DEF NotAhead
      <3>2. CASE Left /\ shown[m] <= flushed[m]
        <4>1. shown'[m] <= flushed'[m]
          BY <1>1, <1>3, <1>4, <3>2
        <4>2. QED  BY <1>5, <3>2, <4>1 DEF NotAhead
      <3>3. CASE ~Left /\ Coming(m)
        BY <1>5, <2>5, <3>3 DEF NotAhead
      <3>4. CASE ~Left /\ Subscribing /\ m \in DOMAIN live /\ m \in ToSet(doc)
        <4>1. Active
          BY <3>4, LiveStored
        <4>2. Coming(m)' \/ (Subscribing' /\ m \in DOMAIN live' /\ m \in ToSet(doc'))
          BY <1>3, <2>6, <2>7, <3>4, <4>1
        <4>3. QED  BY <1>5, <3>4, <4>2 DEF NotAhead
      <3>5. QED  BY <2>2, <3>1, <3>2, <3>3, <3>4 DEF NotAhead
    <2>9. OnScreen(m, v)'
      <3>1. SUFFICES ASSUME Attached', m \in DOMAIN live', ~Coming(m)'
                     PROVE  m \in ToSet(view') /\ adopted' /\ shown'[m] = v
        BY DEF OnScreen
      <3>2. m \in DOMAIN live /\ ~Coming(m)
        BY <2>5, <2>6, <3>1
      <3>3. up /\ ~Loading /\ ~abandoned /\ ~Subscribing' /\ Active'
        BY <1>1, <1>5, <3>1 DEF Attached
      <3>4. Active
        BY <1>1, <3>2, <3>3, AwakesEmpty
      <3>5. ~Subscribing
        BY <2>7, <3>1, <3>2, <3>3, <3>4
      <3>6. Attached
        BY <3>3, <3>4, <3>5 DEF Attached
      <3>7. m \in ToSet(view) /\ adopted /\ shown[m] = v
        BY <2>2, <3>2, <3>6 DEF OnScreen
      <3>8. QED  BY <1>1, <3>7
    <2>10. QED  BY <1>1, <2>1, <2>2, <2>4, <2>8, <2>9 DEF Watched, Watches
  <1>8. QED  BY <1>6, <1>7

\* Steps of the client that leave what is on its way and what is shown of the message.
LEMMA StillWatched ==
  ASSUME UNCHANGED <<vars, toClient, shown>>, NEW m \in New, Watched(m),
         \/ ~up'
         \/ Loading'
         \/ /\ UNCHANGED <<up, adopted>> /\ Loading' = Loading /\ Left' = Left
            /\ (~abandoned' => ~abandoned)
            /\ (Subscribing => Subscribing') /\ (m \in ToSet(view) => m \in ToSet(view')),
         drops' = 0 => drops = 0
  PROVE  Watched(m)'
  <1>1. PICK v \in 0..MaxText : Watches(m, v)
    BY DEF Watched
  <1>2. Flow(m, v) /\ NotAhead(m, v) /\ OnScreen(m, v) /\ (drops = 0 => shown[m] = v)
    BY <1>1 DEF Watches
  <1>3. UNCHANGED <<doc, flushed, live, phase, toClient, shown>> /\ Coming(m)' = Coming(m)
        /\ Active' = Active
    BY DEF vars, coreVars, textVars, writerVars, Coming, Active
  <1>4. Flow(m, v)'
    BY <1>2, <1>3, FlowKept
  <1>5. CASE ~up' \/ Loading'
    <2>1. NotAhead(m, v)' /\ OnScreen(m, v)'
      BY <1>5 DEF NotAhead, OnScreen, Attached
    <2>2. QED  BY <1>1, <1>2, <1>3, <1>4, <2>1 DEF Watched, Watches
  <1>6. CASE /\ UNCHANGED <<up, adopted>> /\ Loading' = Loading /\ Left' = Left
             /\ (~abandoned' => ~abandoned)
             /\ (Subscribing => Subscribing') /\ (m \in ToSet(view) => m \in ToSet(view'))
    <2>1. NotAhead(m, v)'
      BY <1>2, <1>3, <1>6 DEF NotAhead
    <2>2. OnScreen(m, v)'
      <3>1. Attached' => Attached
        BY <1>3, <1>6 DEF Attached
      <3>2. QED  BY <1>2, <1>3, <1>6, <3>1 DEF OnScreen
    <2>3. QED  BY <1>1, <1>2, <1>3, <1>4, <2>1, <2>2 DEF Watched, Watches
  <1>7. QED  BY <1>5, <1>6

\* What the turn hangs behind is on screen too.
LEMMA ShownPlace ==
  ASSUME ClientTypes, NEW p \in 1..2, Seated(p)
  PROVE  Place(ShownOthers, p)
  <1>1. p = 2 => ~Regenerate /\ post # "no"
    BY DEF Seated, ClientTypes
  <1>2. QED  BY <1>1 DEF Place, ShownOthers

\* Over a connection that has held, a delta finds its bubble.
LEMMA DeltaShown ==
  ASSUME IInv, Told, ClientTypes, Held, drops = 0, toClient # <<>>
  PROVE  adopted /\ (Head(toClient).kind = "delta" => Head(toClient).id \in ToSet(view))
  <1> DEFINE f == Head(toClient)
  <1>1. adopted /\ Begun
    BY DEF Held
  <1>2. PICK p \in 1..2, k \in 0..MaxMessages : Shows(p, k)
    BY <1>1 DEF Held
  <1>3. Seated(p) /\ Arrives(toClient, p, k, Known) /\ view = Spliced(ShownOthers, p, k)
    BY <1>2 DEF Shows
  <1>4. Ground(ShownOthers) /\ p \in 1..Len(ShownOthers)
    BY <1>3, ShownPlace, PlaceElements
  <1>5. \A m \in New : m \in ToSet(view) <=> m <= k
    BY <1>3, <1>4, SplicedSet
  <1>6. toClient \in Seq(Frames)
    BY DEF ClientTypes
  <1>7. f.kind = "message" \/ (f.kind \in {"message", "delta"} => f.id <= k)
    BY <1>3, <1>6, ArrivesTail
  <1>8. f \in Frames
    BY <1>6, TakenOff
  <1> HIDE DEF f
  <1>9. f.kind = "delta" => f.id \in New
    BY <1>8, FrameKinds
  <1>10. f.kind = "delta" => f.id \in ToSet(view)
    BY <1>5, <1>7, <1>9
  <1>11. QED  BY <1>1, <1>10 DEF f

\* A frame that comes brings what is shown to what was sent.
LEMMA FrameWatched ==
  ASSUME IInv, Told, ClientTypes, Linked, Held, OnFrame, NEW m \in New, Watched(m)
  PROVE  Watched(m)'
  <1> DEFINE f == Head(toClient)
  <1>1. /\ toClient \in Seq(Frames) /\ toClient # <<>> /\ toClient' = Tail(toClient)
        /\ UNCHANGED <<doc, phase, flushed, live, up, drops, toCore, abandoned, loads>>
    BY DEF OnFrame, ClientTypes, vars, coreVars, textVars, writerVars, linkVars
  <1>2. /\ f \in Frames /\ f = toClient[1] /\ 1 \in 1..Len(toClient)
        /\ Len(Tail(toClient)) = Len(toClient) - 1
    BY <1>1, TakenOff
  <1>3. /\ f.kind = "message" => f.id \in New /\ f.text \in 0..MaxText
        /\ f.kind = "delta" => f.id \in New /\ f.n \in 0..MaxText
        /\ f.kind = "deleted" => f.id = OldReply
    BY <1>2, FrameKinds
  <1>4. /\ view \in Seq(Msgs) /\ shown \in [New -> Nat] /\ (active => adopted) /\ up
        /\ adopted \in BOOLEAN /\ abandoned \in BOOLEAN
    BY <1>1 DEF ClientTypes, Linked
  <1>5. f.kind = "end" => Over /\ ~Coming(m)
    <2>1. SUFFICES ASSUME f.kind = "end" PROVE Over /\ ~Coming(m)
      OBVIOUS
    <2>2. Over /\ Len(toClient) = 1
      BY <1>2, <2>1 DEF Linked
    <2>3. QED  BY <1>2, <2>1, <2>2 DEF Coming, Carries
  <1>6. PICK v \in 0..MaxText : Watches(m, v)
    BY DEF Watched
  <1>7. Flow(m, v) /\ NotAhead(m, v) /\ OnScreen(m, v) /\ (drops = 0 => shown[m] = v)
    BY <1>6 DEF Watches
  <1>8. PICK w \in 0..MaxText :
               /\ Flow(m, w)' /\ w = v + (IF Adds(f, m) THEN f.n ELSE 0)
               /\ Carries(f, m) => f.text = w
    BY <1>1, <1>7, FlowTail
  <1>9. drops = 0 => adopted /\ (f.kind = "delta" => f.id \in ToSet(view))
    BY <1>1, DeltaShown
  <1>10. Coming(m) => Carries(f, m) \/ Coming(m)'
    BY <1>1, ComingTail
  <1>11. Loading' = Loading /\ Subscribing' = Subscribing /\ Attached' = Attached
    BY <1>1 DEF Loading, Subscribing, Attached, Active
  <1>12. m \in DOMAIN live /\ m \in ToSet(doc) => ~Over
    BY LiveStored DEF Active, Over
  <1>13. m # OldReply
    BY MessageAssumption
  <1>14. \/ /\ f.kind = "message" /\ (adopted \/ Adopts) /\ ApplyMessage(f) /\ adopted' = TRUE
         \/ /\ f.kind = "delta" /\ adopted /\ f.id \in ToSet(view)
            /\ shown' = [shown EXCEPT ![f.id] = @ + f.n] /\ UNCHANGED <<view, adopted>>
         \/ /\ f.kind = "deleted" /\ view' = RemoveFirst(view, f.id) /\ UNCHANGED <<shown, adopted>>
         \/ /\ f.kind = "end" /\ adopted /\ adopted' = FALSE /\ UNCHANGED <<view, shown>>
         \/ /\ \/ f.kind = "message" /\ ~adopted /\ ~Adopts
               \/ f.kind = "delta" /\ (~adopted \/ f.id \notin ToSet(view))
               \/ f.kind = "end" /\ ~adopted
            /\ UNCHANGED <<view, shown, adopted>>
    BY DEF OnFrame, viewVars
  <1> HIDE DEF f
  \* What is shown already stays, and what is live is shown.
  <1>15. ASSUME m \in ToSet(view) => m \in ToSet(view'), ~Carries(f, m) \/ Left,
                adopted => adopted', Left' <=> Left, ~Adds(f, m) \/ ~adopted \/ m \notin ToSet(view),
                shown'[m] = shown[m], drops = 0 => w = v
         PROVE  Watches(m, w)'
    <2>1. v <= w
      BY <1>3, <1>8 DEF Adds
    <2>2. NotAhead(m, w)'
      <3>1. CASE shown[m] <= v
        <4>1. shown'[m] <= w
          BY <1>4, <1>15, <2>1, <3>1
        <4>2. QED  BY <4>1 DEF NotAhead
      <3>2. CASE ~up \/ Loading
        BY <1>4, <1>11, <3>2 DEF NotAhead
      <3>3. CASE Left /\ shown[m] <= flushed[m]
        BY <1>1, <1>15, <3>3 DEF NotAhead
      <3>4. CASE ~Left /\ Coming(m)
        BY <1>10, <1>15, <3>4 DEF NotAhead, Left
      <3>5. CASE ~Left /\ Subscribing /\ m \in DOMAIN live /\ m \in ToSet(doc)
        BY <1>1, <1>11, <1>15, <3>5 DEF NotAhead, Left
      <3>6. QED  BY <1>7, <3>1, <3>2, <3>3, <3>4, <3>5 DEF NotAhead
    <2>3. OnScreen(m, w)'
      <3>1. SUFFICES ASSUME Attached, m \in DOMAIN live, ~Coming(m)'
                     PROVE  m \in ToSet(view') /\ adopted' /\ shown'[m] = w
        BY <1>1, <1>11 DEF OnScreen
      <3>2. ~Left /\ ~Carries(f, m)
        BY <1>15, <3>1 DEF Left, Attached
      <3>3. m \in ToSet(view) /\ adopted /\ shown[m] = v
        BY <1>7, <1>10, <3>1, <3>2 DEF OnScreen
      <3>4. w = v
        BY <1>8, <1>15, <3>3
      <3>5. QED  BY <1>15, <3>3, <3>4
    <2>4. QED  BY <1>1, <1>7, <1>8, <1>15, <2>2, <2>3 DEF Watches
  \* It shows exactly what it was sent.
  <1>16. ASSUME m \in ToSet(view'), adopted', shown'[m] = w PROVE Watches(m, w)'
    <2>1. shown'[m] <= w
      BY <1>16
    <2>2. NotAhead(m, w)'
      BY <2>1 DEF NotAhead
    <2>3. OnScreen(m, w)'
      BY <1>16 DEF OnScreen
    <2>4. QED  BY <1>8, <1>16, <2>2, <2>3 DEF Watches
  <1>17. Watches(m, w)'
    <2>1. CASE f.kind = "message" /\ (adopted \/ Adopts) /\ ApplyMessage(f) /\ adopted' = TRUE
      <3>1. /\ f.id \in ToSet(view') /\ ToSet(view) \subseteq ToSet(view')
            /\ shown'[f.id] = f.text /\ (m # f.id => shown'[m] = shown[m])
        BY <1>2, <2>1, Applied
      <3>2. ~Adds(f, m) /\ w = v
        BY <1>8, <2>1 DEF Adds
      <3>3. CASE f.id = m
        <4>1. f.text = w
          BY <1>8, <2>1, <3>3 DEF Carries
        <4>2. QED  BY <1>16, <2>1, <3>1, <3>3, <4>1
      <3>4. CASE f.id # m
        <4>1. ~Left /\ ~Left'
          BY <2>1 DEF Left, Adopts
        <4>2. QED  BY <1>15, <2>1, <3>1, <3>2, <3>4, <4>1 DEF Carries
      <3>5. QED  BY <3>3, <3>4
    <2>2. CASE /\ f.kind = "delta" /\ adopted /\ f.id \in ToSet(view)
               /\ shown' = [shown EXCEPT ![f.id] = @ + f.n] /\ UNCHANGED <<view, adopted>>
      <3>1. ~Carries(f, m)
        BY <2>2 DEF Carries
      <3>2. CASE f.id # m
        <4>1. ~Adds(f, m) /\ w = v /\ shown'[m] = shown[m]
          BY <1>4, <1>8, <2>2, <3>2 DEF Adds
        <4>2. Left' <=> Left
          BY <1>1, <2>2 DEF Left
        <4>3. QED  BY <1>15, <2>2, <3>1, <4>1, <4>2
      <3>3. CASE f.id = m
        <4>1. shown'[m] = shown[m] + f.n /\ w = v + f.n /\ f.n \in Nat /\ shown[m] \in Nat
          BY <1>3, <1>4, <1>8, <2>2, <3>3 DEF Adds
        <4>2. CASE shown[m] = v
          BY <1>16, <2>2, <3>3, <4>1, <4>2
        <4>3. CASE shown[m] # v
          <5>1. drops # 0
            BY <1>7, <4>3
          <5>2. NotAhead(m, w)'
            <6>1. CASE shown[m] <= v
              <7>1. shown'[m] <= w
                BY <4>1, <6>1
              <7>2. QED  BY <7>1 DEF NotAhead
            <6>2. CASE Loading
              BY <1>11, <6>2 DEF NotAhead
            <6>3. CASE ~Left /\ Coming(m)
              BY <1>10, <2>2, <3>1, <6>3 DEF NotAhead, Left
            <6>4. CASE ~Left /\ Subscribing /\ m \in DOMAIN live /\ m \in ToSet(doc)
              BY <1>1, <1>11, <2>2, <6>4 DEF NotAhead, Left
            <6>5. QED  BY <1>4, <1>7, <2>2, <6>1, <6>2, <6>3, <6>4 DEF NotAhead, Left
          <5>3. OnScreen(m, w)'
            <6>1. SUFFICES ASSUME Attached, m \in DOMAIN live PROVE Coming(m)'
              BY <1>1, <1>11 DEF OnScreen
            <6>2. QED  BY <1>7, <1>10, <3>1, <4>3, <6>1 DEF OnScreen
          <5>4. QED  BY <1>1, <1>8, <5>1, <5>2, <5>3 DEF Watches
        <4>4. QED  BY <4>2, <4>3
      <3>4. QED  BY <3>2, <3>3
    <2>3. CASE /\ f.kind = "deleted" /\ view' = RemoveFirst(view, f.id)
               /\ UNCHANGED <<shown, adopted>>
      <3>1. m \in ToSet(view) => m \in ToSet(view')
        BY <1>3, <1>4, <1>13, <2>3, Removed
      <3>2. ~Carries(f, m) /\ ~Adds(f, m) /\ w = v
        BY <1>8, <2>3 DEF Carries, Adds
      <3>3. Left' = Left
        BY <1>1, <2>3 DEF Left
      <3>4. QED  BY <1>15, <2>3, <3>1, <3>2, <3>3
    <2>4. CASE f.kind = "end" /\ adopted /\ adopted' = FALSE /\ UNCHANGED <<view, shown>>
      <3>1. ~Adds(f, m) /\ w = v
        BY <1>8, <2>4 DEF Adds
      <3>2. Over /\ ~Coming(m) /\ ~Left
        BY <1>5, <2>4 DEF Left
      <3>3. shown[m] <= v \/ Loading
        BY <1>4, <1>7, <1>12, <3>2 DEF NotAhead
      <3>4. NotAhead(m, w)'
        BY <1>11, <2>4, <3>1, <3>3 DEF NotAhead
      <3>5. OnScreen(m, w)'
        BY <1>11, <3>2 DEF OnScreen, Attached, Active, Over
      <3>6. QED  BY <1>1, <1>7, <1>8, <2>4, <3>1, <3>4, <3>5 DEF Watches
    <2>5. CASE /\ \/ f.kind = "message" /\ ~adopted /\ ~Adopts
                  \/ f.kind = "delta" /\ (~adopted \/ f.id \notin ToSet(view))
                  \/ f.kind = "end" /\ ~adopted
               /\ UNCHANGED <<view, shown, adopted>>
      <3>1. Left' = Left
        BY <1>1, <2>5 DEF Left
      <3>2. ~Carries(f, m) \/ Left
        BY <1>4, <2>5 DEF Carries, Left, Adopts
      <3>3. ~Adds(f, m) \/ ~adopted \/ m \notin ToSet(view)
        BY <2>5 DEF Adds
      <3>4. drops = 0 => w = v
        BY <1>8, <1>9, <2>5 DEF Adds
      <3>5. QED  BY <1>15, <2>5, <3>1, <3>2, <3>3, <3>4
    <2>6. QED  BY <1>14, <2>1, <2>2, <2>3, <2>4, <2>5
  <1>18. QED  BY <1>17 DEF Watched

\* The document replaces what is shown; what is live is asked for.
LEMMA HydrateWatched ==
  ASSUME IInv, Told, ClientTypes, Linked, Held, NEW i \in Loads, Hydrate(i), NEW m \in New, Watched(m)
  PROVE  Watched(m)'
  <1>1. /\ loads[i].stage = "replied"
        /\ shown' = [x \in New |-> IF x \in ToSet(loads[i].doc) THEN text[x] ELSE 0]
        /\ adopted' = FALSE
        /\ UNCHANGED <<doc, phase, flushed, live, up, drops, toClient, abandoned>>
    BY DEF Hydrate, vars, coreVars, linkVars, textVars, writerVars
  <1>2. up => Subscribing'
    BY HydrateTyped
  <1>3. drops # 0
    BY <1>1 DEF Held
  <1>4. PICK v \in 0..MaxText : Watches(m, v)
    BY DEF Watched
  <1>5. Flow(m, v) /\ toClient \in Seq(Frames)
    BY <1>4 DEF Watches, ClientTypes
  <1>6. Flow(m, v)' /\ Coming(m)' = Coming(m)
    BY <1>1, <1>5, FlowKept DEF Coming
  <1>7. OnScreen(m, v)'
    BY <1>1, <1>2 DEF OnScreen, Attached
  <1>8. NotAhead(m, v)'
    <2>1. CASE ~up
      BY <1>1, <2>1 DEF NotAhead
    <2>2. CASE m \notin ToSet(loads[i].doc)
      <3>1. shown'[m] <= v
        BY <1>1, <2>2
      <3>2. QED  BY <3>1 DEF NotAhead
    <2>3. CASE up /\ m \in ToSet(loads[i].doc)
      <3>1. m \in ToSet(doc)
        BY <1>1, <2>3 DEF Linked
      <3>2. shown'[m] = flushed[m] /\ flushed[m] \in Nat
        BY <1>1, <2>3, <3>1, InvImplies DEF NothingLost, IInv, Types
      <3>3. m \in DOMAIN live \/ v = flushed[m] \/ Coming(m)
        BY <1>5, FlowNow
      <3>4. shown'[m] <= flushed'[m]
        BY <1>1, <3>2
      <3>5. CASE Left'
        BY <3>4, <3>5 DEF NotAhead
      <3>6. CASE v = flushed[m]
        BY <1>1, <3>4, <3>6 DEF NotAhead
      <3>7. CASE ~Left' /\ Coming(m)
        BY <1>6, <3>7 DEF NotAhead
      <3>8. CASE ~Left' /\ m \in DOMAIN live
        BY <1>1, <1>2, <2>3, <3>1, <3>8 DEF NotAhead
      <3>9. QED  BY <3>3, <3>5, <3>6, <3>7, <3>8
    <2>4. QED  BY <2>1, <2>2, <2>3
  <1>9. QED  BY <1>1, <1>3, <1>4, <1>6, <1>7, <1>8 DEF Watched, Watches

-----------------------------------------------------------------------------
(* A connection that holds                                                 *)

\* What the turn's messages are spliced into.
LEMMA ShownGroundNext ==
  ASSUME NEW p \in 1..2
  PROVE  ClientTypes' /\ Seated(p)' => Ground(ShownOthers') /\ p \in 1..Len(ShownOthers')
  <1>1. ClientTypes /\ Seated(p) => Ground(ShownOthers) /\ p \in 1..Len(ShownOthers)
    BY ShownPlace, PlaceElements
  <1>2. (ClientTypes /\ Seated(p) => Ground(ShownOthers) /\ p \in 1..Len(ShownOthers))'
    BY <1>1, PTL
  <1>3. QED  BY <1>2 DEF Ground

\* The core splices into the document what it sends for the screen.
LEMMA CoreHeld ==
  ASSUME IInv, Told, ClientTypes, Linked, Held, CoreSteps
  PROVE  Held'
  <1>1. /\ Next /\ toClient' = (IF up THEN toClient \o sent' ELSE toClient)
        /\ UNCHANGED <<up, drops, view, adopted, loads>> /\ (post' = "no" <=> post = "no")
    BY CoreStep
  <1>2. SUFFICES ASSUME drops = 0
                 PROVE  /\ up' /\ \A i \in Loads : loads'[i].stage = "none"
                        /\ adopted' \/ (toClient' = <<>> /\ Over')
                        /\ ~Begun' => toClient' = <<>> /\ view' = ShownOthers' /\ Unseated'
                        /\ Begun' => \E p \in 1..2, k \in 0..MaxMessages : Shows(p, k)'
    BY <1>1 DEF Held
  <1>3. /\ up /\ \A i \in Loads : loads[i].stage = "none"
        /\ adopted \/ (toClient = <<>> /\ Over)
        /\ ~Begun => toClient = <<>> /\ view = ShownOthers /\ Unseated
        /\ Begun => \E p \in 1..2, k \in 0..MaxMessages : Shows(p, k)
    BY <1>2 DEF Held
  <1>4. ClientTypes' /\ toClient \in Seq(Frames) /\ toClient' = toClient \o sent'
    BY <1>1, <1>3, CoreTyped DEF ClientTypes
  <1>5. sent' = <<>> => toClient' = toClient
    BY <1>4, ConcatEmptySeq
  <1>6. ~adopted => toClient' = <<>> /\ Over'
    BY <1>1, <1>3, <1>5, OverStays
  <1>7. ShownOthers' = ShownOthers
    <2>1. Others' = Others
      BY <1>1, OthersKept
    <2>2. QED  BY <1>1, <2>1 DEF ShownOthers
  <1>8. CASE Begun
    <2>1. PICK p \in 1..2, k \in 0..MaxMessages : Shows(p, k)
      BY <1>3, <1>8
    <2>2. Seated(p) /\ Arrives(toClient, p, k, Known) /\ view = Spliced(ShownOthers, p, k)
      BY <2>1 DEF Shows
    <2>3. Begun' /\ Seated(p)'
      BY <1>1, <1>8, <2>2, BegunStays, SeatKept
    <2>4. sent' \in Seq(Frames) /\ Arrives(sent', p, Known, Known')
      BY <1>1, <1>8, <2>2, StepArrives
    <2>5. Arrives(toClient', p, k, Known')
      BY <1>4, <2>2, <2>4, ArrivesBehind
    <2>6. Shows(p, k)'
      BY <1>1, <1>7, <2>2, <2>3, <2>5 DEF Shows
    <2>7. QED  BY <1>1, <1>3, <1>6, <2>3, <2>6
  <1>9. CASE ~Begun /\ ~BeginTurn
    <2>1. ~Begun' /\ sent' = <<>>
      BY <1>1, <1>9, BeforeTurn
    <2>2. Unseated'
      BY <1>1, <1>3, <1>9, <2>1, UnseatedKept
    <2>3. QED  BY <1>1, <1>3, <1>5, <1>6, <1>7, <1>9, <2>1, <2>2
  <1>10. CASE ~Begun /\ BeginTurn
    <2>1. Known' = 0 /\ Announced' = 0
      BY <1>3, <1>10, SeatTaken
    <2>2. PICK p \in 1..2 : Seated(p)' /\ StoredOthers' = doc'
      BY <1>3, <1>10, SeatTaken
    <2>3. Begun'
      BY <1>10 DEF BeginTurn, Begun
    <2>4. toClient' = sent'
      <3>1. 1 \in New
        BY TurnAssumption DEF New
      <3>2. sent' \in Seq(Frames)
        BY <1>1, <3>1, StepTells DEF Proper
      <3>3. toClient' = <<>> \o sent'
        BY <1>3, <1>4, <1>10
      <3>4. QED  BY <3>2, <3>3, ConcatEmptySeq
    <2>5. toClient' \in Seq(Frames) /\ \A i \in 1..Len(toClient') : toClient'[i].kind = "deleted"
      <3>1. toClient' \in Seq(Frames)
        BY <1>4 DEF ClientTypes
      <3>2. CASE sent' = <<>>
        BY <2>4, <3>1, <3>2
      <3>3. CASE sent' = <<[kind |-> "deleted", id |-> OldReply]>>
        BY <2>4, <3>1, <3>3
      <3>4. QED  BY <1>10, <3>2, <3>3 DEF BeginTurn
    <2>6. Arrives(toClient', p, 0, Known')
      <3>1. 0 \in 0..MaxMessages
        BY TurnAssumption
      <3>2. QED  BY <2>1, <2>5, <3>1, KnownArrive
    <2>7. Ground(ShownOthers') /\ p \in 1..Len(ShownOthers')
      BY <1>4, <2>2, ShownGroundNext
    <2>8. Spliced(ShownOthers', p, 0) = ShownOthers'
      BY <2>7, SplicedNone
    <2>9. Shows(p, 0)' /\ 0 \in 0..MaxMessages
      BY <1>1, <1>3, <1>7, <1>10, <2>2, <2>6, <2>8, TurnAssumption DEF Shows
    <2>10. QED  BY <1>1, <1>3, <1>6, <2>3, <2>9
  <1>11. QED  BY <1>8, <1>9, <1>10

\* A message that comes goes where the document has it.
LEMMA FrameHeld ==
  ASSUME IInv, Told, ClientTypes, Linked, Held, OnFrame
  PROVE  Held'
  <1> DEFINE f == Head(toClient)
  <1>1. /\ toClient \in Seq(Frames) /\ toClient # <<>> /\ toClient' = Tail(toClient)
        /\ UNCHANGED <<vars, up, drops, loads, post>>
    BY DEF OnFrame, ClientTypes, linkVars
  <1>2. UNCHANGED <<doc, phase, cursor, liveCursor, persisted>>
    BY <1>1 DEF vars, coreVars, writerVars
  <1>3. SUFFICES ASSUME drops = 0
                 PROVE  /\ up' /\ \A i \in Loads : loads'[i].stage = "none"
                        /\ adopted' \/ (toClient' = <<>> /\ Over')
                        /\ Begun' /\ \E p \in 1..2, k \in 0..MaxMessages : Shows(p, k)'
    BY <1>1 DEF Held
  <1>4. adopted /\ Begun /\ up /\ \A i \in Loads : loads[i].stage = "none"
    BY <1>1, <1>3 DEF Held
  <1>5. PICK p \in 1..2, k \in 0..MaxMessages : Shows(p, k)
    BY <1>3, <1>4 DEF Held
  <1>6. Seated(p) /\ Arrives(toClient, p, k, Known) /\ view = Spliced(ShownOthers, p, k)
    BY <1>5 DEF Shows
  <1>7. /\ Ground(ShownOthers) /\ p \in 1..Len(ShownOthers) /\ ShownOthers[p] = Base(p)
        /\ OldReply \notin ToSet(ShownOthers) /\ OldReply \notin New
    BY <1>6, ShownPlace, PlaceElements
  <1>8. /\ \A m \in New : m \in ToSet(view) <=> m <= k
        /\ OldReply \notin ToSet(view)
    BY <1>6, <1>7, SplicedSet
  <1>9. view \in Seq(Msgs)
    BY DEF ClientTypes
  <1>10. /\ Begun' /\ Known' = Known /\ ShownOthers' = ShownOthers /\ Seated(p)'
    <2>1. Begun' /\ Known' = Known
      BY <1>2, <1>4 DEF Begun, Known
    <2>2. ShownOthers' = ShownOthers
      BY <1>1, <1>2 DEF ShownOthers, Others, Regenerate
    <2>3. Seated(p)'
      BY <1>2, <1>6 DEF Seated, StoredOthers, Others, Regenerate, Stored, Announced, Base,
         Known
    <2>4. QED  BY <2>1, <2>2, <2>3
  <1>11. /\ f \in Frames /\ Len(Tail(toClient)) = Len(toClient) - 1
         /\ f = toClient[1] /\ 1 \in 1..Len(toClient) /\ Tail(toClient) \in Seq(Frames)
    BY <1>1, TakenOff
  <1>12. /\ f.kind = "message" => f.id \in New
         /\ f.kind = "delta" => f.id \in New
         /\ f.kind = "deleted" => f.id = OldReply
    BY <1>11, FrameKinds
  <1>13. adopted' \/ (toClient' = <<>> /\ Over')
    <2>1. CASE f.kind = "end"
      <3>1. Over /\ Len(toClient) = 1
        BY <1>11, <2>1 DEF Linked
      <3>2. Len(Tail(toClient)) = 0
        BY <1>11, <3>1
      <3>3. Tail(toClient) = <<>>
        BY <1>11, <3>2, EmptySeq
      <3>4. QED  BY <1>1, <1>2, <3>1, <3>3 DEF Over
    <2>2. CASE f.kind # "end"
      BY <1>4, <2>2 DEF OnFrame
    <2>3. QED  BY <2>1, <2>2
  <1>14. /\ f.kind = "message" => ApplyMessage(f)
         /\ f.kind = "deleted" => view' = RemoveFirst(view, f.id)
         /\ f.kind \notin {"message", "deleted"} => view' = view
    BY <1>4 DEF OnFrame, viewVars
  <1>15. \/ /\ f.kind = "message" /\ k + 1 \in 0..MaxMessages /\ f.id = k + 1
            /\ f.after = (IF k = 0 THEN Base(p) ELSE k)
            /\ Arrives(Tail(toClient), p, k + 1, Known)
         \/ /\ f.kind \in {"message", "delta"} => f.id <= k
            /\ Arrives(Tail(toClient), p, k, Known)
    BY <1>1, <1>6, ArrivesTail
  <1> HIDE DEF f
  <1>16. CASE /\ f.kind = "message" /\ k + 1 \in 0..MaxMessages /\ f.id = k + 1
              /\ f.after = (IF k = 0 THEN Base(p) ELSE k)
              /\ Arrives(Tail(toClient), p, k + 1, Known)
    <2> DEFINE us == ShownOthers
               a == f.after
    <2>1. a = (IF k = 0 THEN us[p] ELSE k) /\ k + 1 \in New
      BY <1>7, <1>12, <1>16
    <2>2. f.id \notin ToSet(view)
      BY <1>8, <1>12, <1>16
    <2>3. Ground(us) /\ p \in 1..Len(us) /\ view = Spliced(us, p, k)
      BY <1>6, <1>7
    <2> HIDE DEF us, a
    <2>4. LET s == Spliced(us, p, k)
          IN  /\ a \in ToSet(s)
              /\ InsertAt(s, 1 + (CHOOSE i \in 1..Len(s) : s[i] = a), k + 1) = Spliced(us, p, k + 1)
      BY <2>1, <2>3, SpliceOne
    <2>5. view' = InsertAt(view, 1 + (CHOOSE i \in 1..Len(view) : view[i] = a), k + 1)
      BY <1>14, <1>16, <2>2, <2>3, <2>4 DEF ApplyMessage, a
    <2>6. view' = Spliced(us, p, k + 1)
      BY <2>3, <2>4, <2>5
    <2>7. Shows(p, k + 1)'
      BY <1>1, <1>10, <1>16, <2>6 DEF Shows, us
    <2>8. QED  BY <1>1, <1>4, <1>10, <1>13, <1>16, <2>7
  <1>17. CASE /\ f.kind \in {"message", "delta"} => f.id <= k
              /\ Arrives(Tail(toClient), p, k, Known)
    <2>1. view' = view
      <3>1. CASE f.kind = "message"
        BY <1>8, <1>12, <1>14, <1>17, <3>1 DEF ApplyMessage
      <3>2. CASE f.kind = "deleted"
        BY <1>8, <1>9, <1>12, <1>14, <3>2, Removed
      <3>3. QED  BY <1>14, <3>1, <3>2
    <2>2. Shows(p, k)'
      BY <1>1, <1>6, <1>10, <1>17, <2>1 DEF Shows
    <2>3. QED  BY <1>1, <1>4, <1>10, <1>13, <2>2
  <1>18. QED  BY <1>15, <1>16, <1>17

\* The user's message goes to the end of both.
LEMMA PostHeld ==
  ASSUME IInv, Told, ClientTypes, Held, UserPosts
  PROVE  Held'
  <1>1. /\ post = "no" /\ post' = "sent" /\ view' = Append(view, LateUser)
        /\ UNCHANGED <<vars, up, drops, toClient, adopted, loads>>
    BY DEF UserPosts, linkVars, streamState
  <1>2. UNCHANGED <<doc, phase, cursor, liveCursor, persisted>>
    BY <1>1 DEF vars, coreVars, writerVars
  <1>3. SUFFICES ASSUME drops = 0
                 PROVE  /\ up' /\ \A i \in Loads : loads'[i].stage = "none"
                        /\ adopted' \/ (toClient' = <<>> /\ Over')
                        /\ ~Begun' => toClient' = <<>> /\ view' = ShownOthers' /\ Unseated'
                        /\ Begun' => \E p \in 1..2, k \in 0..MaxMessages : Shows(p, k)'
    BY <1>1 DEF Held
  <1>4. /\ up /\ \A i \in Loads : loads[i].stage = "none"
        /\ adopted \/ (toClient = <<>> /\ Over)
        /\ ~Begun => toClient = <<>> /\ view = ShownOthers /\ Unseated
        /\ Begun => \E p \in 1..2, k \in 0..MaxMessages : Shows(p, k)
    BY <1>3 DEF Held
  <1>5. /\ ShownOthers = Others /\ ShownOthers' = Append(Others, LateUser)
        /\ (Begun' <=> Begun) /\ (Over' <=> Over) /\ Known' = Known
    BY <1>1, <1>2 DEF ShownOthers, Others, Regenerate, Begun, Over, Known
  <1>6. CASE ~Begun
    <2>1. Unseated'
      BY <1>2, <1>4, <1>6 DEF Unseated, StoredOthers, Others, Regenerate
    <2>2. QED  BY <1>1, <1>4, <1>5, <1>6, <2>1
  <1>7. CASE Begun
    <2>1. PICK p \in 1..2, k \in 0..MaxMessages : Shows(p, k)
      BY <1>4, <1>7
    <2>2. Seated(p) /\ Arrives(toClient, p, k, Known) /\ view = Spliced(Others, p, k)
      BY <1>5, <2>1 DEF Shows
    <2>3. Place(Others, p)
      BY <1>5, <2>2, ShownPlace
    <2>4. Ground(Others) /\ p \in 1..Len(Others) /\ Ground(Append(Others, LateUser))
          /\ LateUser \in Msgs
      BY <2>3, PlaceElements, OthersElements DEF Msgs, Users
    <2>5. Append(Spliced(Others, p, k), LateUser) = Spliced(Append(Others, LateUser), p, k)
      BY <2>4, SpliceBefore
    <2>6. Seated(p)'
      BY <1>2, <2>2 DEF Seated, StoredOthers, Others, Regenerate, Stored, Announced, Base,
         Known
    <2>7. Shows(p, k)'
      BY <1>1, <1>5, <2>2, <2>5, <2>6 DEF Shows
    <2>8. QED  BY <1>1, <1>4, <1>5, <1>7, <2>7
  <1>8. QED  BY <1>6, <1>7

\* Nothing that a held connection is about.
LEMMA StillHeld ==
  ASSUME Held, UNCHANGED <<vars, up, toClient, adopted, view, loads, post>>, drops' = 0 => drops = 0
  PROVE  Held'
  <1>1. UNCHANGED <<doc, phase, cursor, liveCursor, persisted>>
    BY DEF vars, coreVars, writerVars
  <1>2. SUFFICES ASSUME drops = 0
                 PROVE  /\ up' /\ \A i \in Loads : loads'[i].stage = "none"
                        /\ adopted' \/ (toClient' = <<>> /\ Over')
                        /\ ~Begun' => toClient' = <<>> /\ view' = ShownOthers' /\ Unseated'
                        /\ Begun' => \E p \in 1..2, k \in 0..MaxMessages : Shows(p, k)'
    BY DEF Held
  <1>3. /\ up /\ \A i \in Loads : loads[i].stage = "none"
        /\ adopted \/ (toClient = <<>> /\ Over)
        /\ ~Begun => toClient = <<>> /\ view = ShownOthers /\ Unseated
        /\ Begun => \E p \in 1..2, k \in 0..MaxMessages : Shows(p, k)
    BY <1>2 DEF Held
  <1>4. /\ ShownOthers' = ShownOthers /\ (Begun' <=> Begun) /\ (Over' <=> Over) /\ Known' = Known
        /\ (Unseated => Unseated')
    BY <1>1 DEF ShownOthers, StoredOthers, Others, Regenerate, Begun, Over, Known, Unseated
  <1>5. ASSUME NEW p \in 1..2, NEW k \in 0..MaxMessages, Shows(p, k) PROVE Shows(p, k)'
    <2>1. Seated(p)'
      BY <1>1, <1>5 DEF Shows, Seated, StoredOthers, Others, Regenerate, Stored,
         Announced, Base, Known
    <2>2. QED  BY <1>4, <1>5, <2>1 DEF Shows
  <1>6. QED  BY <1>3, <1>4, <1>5

-----------------------------------------------------------------------------
(* The screen's invariant                                                  *)

\* Two sequences of one element.
LEMMA TwoJoined ==
  ASSUME NEW S, NEW x \in S, NEW y \in S, NEW q \in Seq(S), NEW t \in Seq(S),
         Len(q) = 1, q[1] = x, Len(t) = 1, t[1] = y
  PROVE  q \o t = <<x, y>>
  <1>1. q \o t \in Seq(S) /\ Len(q \o t) = 2 /\ (q \o t)[1] = x /\ (q \o t)[2] = y
    <2>1. 1 \in 1..Len(q) /\ 1 \in 1..Len(t) /\ Len(q) + Len(t) = 2 /\ Len(q) + 1 = 2
      OBVIOUS
    <2>2. QED  BY <2>1, PutBehind
  <1>2. <<x, y>> \in Seq(S) /\ Len(<<x, y>>) = 2 /\ <<x, y>>[1] = x /\ <<x, y>>[2] = y
    OBVIOUS
  <1>3. \A i \in 1..2 : i = 1 \/ i = 2
    OBVIOUS
  <1>4. QED  BY <1>1, <1>2, <1>3, SeqEqual

\* The client shows the document it found, without the reply that is regenerated.
LEMMA ViewInit ==
  ASSUME ClientInit
  PROVE  view = Others /\ view \in Seq(Msgs)
  <1>1. /\ doc = <<Anchor>> \/ doc = <<Anchor, OldReply, NewerUser>>
        /\ view = RemoveFirst(doc, OldReply)
    BY DEF ClientInit, Init
  <1>2. /\ {Anchor, OldReply, NewerUser} \subseteq Msgs
        /\ Anchor # OldReply /\ OldReply # NewerUser /\ Anchor # NewerUser
    BY MessageAssumption DEF Msgs, Users
  <1>3. CASE doc = <<Anchor>>
    <2>1. doc \in Seq(Msgs) /\ OldReply \notin ToSet(doc) /\ ~Regenerate
      BY <1>2, <1>3 DEF ToSet, Regenerate
    <2>2. view = doc
      BY <1>1, <2>1, Removed
    <2>3. QED  BY <1>3, <2>1, <2>2, OthersElements
  <1>4. CASE doc = <<Anchor, OldReply, NewerUser>>
    <2>1. Regenerate /\ doc \in Seq(Msgs) /\ Len(doc) = 3
      BY <1>2, <1>4 DEF ToSet, Regenerate
    <2>2. {i \in 1..3 : doc[i] = OldReply} = {2}
      BY <1>2, <1>4
    <2>3. RemoveFirst(doc, OldReply) = <<Anchor, NewerUser>>
      <3> DEFINE c == CHOOSE x \in {i \in 1..Len(doc) : doc[i] = OldReply} :
                         \A y \in {i \in 1..Len(doc) : doc[i] = OldReply} : x <= y
                 q == SubSeq(doc, 1, 1)
                 t == SubSeq(doc, 3, 3)
      <3>1. c = 2
        BY <2>1, <2>2
      <3>2. RemoveFirst(doc, OldReply) = SubSeq(doc, 1, c - 1) \o SubSeq(doc, c + 1, Len(doc))
        BY <2>1, <2>2 DEF RemoveFirst, RemoveAt, SelectInSeq, Min
      <3> HIDE DEF c
      <3>3. RemoveFirst(doc, OldReply) = q \o t
        BY <2>1, <3>1, <3>2
      <3>4. /\ q \in Seq(Msgs) /\ Len(q) = 1 /\ q[1] = Anchor
            /\ t \in Seq(Msgs) /\ Len(t) = 1 /\ t[1] = NewerUser
        BY <1>4, <2>1
      <3> HIDE DEF q, t
      <3>5. Anchor \in Msgs /\ NewerUser \in Msgs
        BY <1>2
      <3>6. q \o t = <<Anchor, NewerUser>>
        BY <3>4, <3>5, TwoJoined
      <3>7. QED  BY <3>3, <3>6
    <2>4. <<Anchor, NewerUser>> \in Seq(Msgs)
      BY <1>2
    <2>5. QED  BY <1>1, <2>1, <2>3, <2>4, OthersElements
  <1>5. QED  BY <1>1, <1>3, <1>4

\* At first nothing is on its way and nothing of the turn is shown.
LEMMA ScreenInit == ASSUME ClientInit PROVE ScreenInv
  <1>1. /\ Init /\ up = TRUE /\ drops = 0 /\ toClient = <<>> /\ toCore = <<[kind |-> "start"]>>
        /\ shown = [m \in New |-> 0] /\ runningTools = {} /\ adopted = TRUE /\ active = TRUE
        /\ abandoned = FALSE /\ loads = [i \in Loads |-> [stage |-> "none"]] /\ post = "no"
    BY DEF ClientInit
  <1>2. /\ phase = "idle" /\ doc \in {<<Anchor>>, <<Anchor, OldReply, NewerUser>>}
        /\ flushed = [m \in New |-> 0]
    BY <1>1 DEF Init
  <1>3. IInv /\ Told /\ view = Others /\ view \in Seq(Msgs)
    BY <1>1, InitInv, ToldInit, ViewInit
  <1>4. ClientTypes
    <2>1. toClient \in Seq(Frames)
      BY <1>1, EmptySeq
    <2>2. toCore \in Seq(Requests)
      <3>1. [kind |-> "start"] \in Requests
        BY DEF Requests
      <3>2. QED  BY <1>1, <3>1
    <2>3. LateUser \notin ToSet(doc)
      BY <1>2, MessageAssumption DEF ToSet
    <2>4. drops \in 0..MaxDrops
      BY <1>1, DropsAssumption
    <2>5. QED  BY <1>1, <1>3, <2>1, <2>2, <2>3, <2>4 DEF ClientTypes, LoadStates
  <1>5. Linked
    BY <1>1 DEF Linked
  <1>6. Held
    <2>1. ~Begun /\ Unseated /\ ShownOthers = Others
      BY <1>1, <1>2 DEF Begun, Unseated, ShownOthers
    <2>2. QED  BY <1>1, <1>3, <2>1 DEF Held
  <1>7. ASSUME NEW m \in New PROVE Watched(m)
    <2>1. Flow(m, 0)
      BY <1>1, <1>2, <1>3, FlowEmpty
    <2>2. shown[m] = 0 /\ ~Active /\ 0 \in 0..MaxText
      BY <1>1, <1>2, TurnAssumption DEF Active
    <2>3. QED  BY <2>1, <2>2 DEF Watched, Watches, NotAhead, OnScreen, Attached
  <1>8. QED  BY <1>3, <1>4, <1>5, <1>6, <1>7 DEF ScreenInv

\* The client alone changes nothing of the turn.
LEMMA ToldStays ==
  ASSUME Told, UNCHANGED vars
  PROVE  Told'
  <1>1. UNCHANGED <<phase, liveCursor, cursor, created, bornIds, finalizing, then>>
    BY DEF vars, coreVars, writerVars
  <1>2. QED
    BY <1>1 DEF Told, Known, Announced, Growing, Streaming, Calling, Appending, Busy

\* A dropped connection promises nothing of what is shown, until the reload.
LEMMA DropWatched ==
  ASSUME IInv, ClientTypes, Linked, Disconnect, IInv', NEW m \in New
  PROVE  Watched(m)'
  <1>1. up' = FALSE /\ toClient' = <<>> /\ drops' # 0 /\ flushed' = flushed
    BY DEF Disconnect, ClientTypes, vars, coreVars, textVars
  <1>2. PICK v \in 0..MaxText : v = flushed'[m]
    BY <1>1 DEF IInv, Types
  <1>3. Flow(m, v)'
    BY <1>1, <1>2, FlowEmptyNext
  <1>4. NotAhead(m, v)' /\ OnScreen(m, v)'
    BY <1>1 DEF NotAhead, OnScreen, Attached
  <1>5. QED  BY <1>1, <1>3, <1>4 DEF Watched, Watches

\* Every step keeps the invariant.
LEMMA ScreenKept ==
  ASSUME IInv, ScreenInv, [ClientNext]_allVars
  PROVE  ScreenInv'
  <1>1. ClientTypes /\ Linked /\ Told /\ Held /\ \A m \in New : Watched(m)
    BY DEF ScreenInv
  <1>2. IInv'
    BY ClientStep, TurnInv DEF vars
  <1>4. CASE CoreSteps
    <2>1. Told'
      BY <1>1, <1>4, CoreStep, ToldKept
    <2>2. ClientTypes' /\ Linked' /\ Held' /\ \A m \in New : Watched(m)'
      BY <1>1, <1>4, CoreTyped, CoreHeld, CoreWatched
    <2>3. QED  BY <2>1, <2>2 DEF ScreenInv
  <1>5. CASE OnFrame
    <2>1. Told'
      BY <1>1, <1>5, ToldStays DEF OnFrame
    <2>2. ClientTypes' /\ Linked' /\ Held' /\ \A m \in New : Watched(m)'
      BY <1>1, <1>5, FrameTyped, FrameHeld, FrameWatched
    <2>3. QED  BY <2>1, <2>2 DEF ScreenInv
  <1>6. CASE UserStops
    <2>1. /\ UNCHANGED <<vars, up, drops, toClient, view, shown, adopted, loads, post>>
          /\ abandoned' = adopted /\ ~abandoned
      BY <1>6 DEF UserStops, linkVars, viewVars
    <2>2. ClientTypes' /\ Linked' /\ (Subscribing => Subscribing')
      BY <1>1, <1>6, StopTyped
    <2>3. Told' /\ Held'
      BY <1>1, <2>1, ToldStays, StillHeld
    <2>4. Loading' = Loading /\ Left' = Left
      BY <2>1 DEF Loading, Left
    <2>5. \A m \in New : Watched(m)'
      BY <1>1, <2>1, <2>2, <2>4, StillWatched
    <2>6. QED  BY <2>2, <2>3, <2>5 DEF ScreenInv
  <1>7. CASE UserPosts
    <2>1. UNCHANGED <<vars, up, drops, toClient, toCore, shown, adopted, abandoned, loads>>
      BY <1>7 DEF UserPosts, linkVars, streamState
    <2>2. ClientTypes' /\ Linked' /\ ToSet(view) \subseteq ToSet(view')
      BY <1>1, <1>7, PostTyped
    <2>3. Told' /\ Held'
      BY <1>1, <1>7, <2>1, ToldStays, PostHeld
    <2>4. Loading' = Loading /\ Left' = Left /\ (Subscribing => Subscribing')
      BY <2>1 DEF Loading, Left, Subscribing
    <2>5. \A m \in New : Watched(m)'
      BY <1>1, <2>1, <2>2, <2>4, StillWatched
    <2>6. QED  BY <2>2, <2>3, <2>5 DEF ScreenInv
  <1>8. CASE Disconnect
    <2>1. UNCHANGED vars /\ drops' # 0
      BY <1>1, <1>8 DEF Disconnect, ClientTypes
    <2>2. ClientTypes' /\ Linked' /\ \A m \in New : Watched(m)'
      BY <1>1, <1>2, <1>8, DropTyped, DropWatched
    <2>3. Told' /\ Held'
      BY <1>1, <2>1, ToldStays DEF Held
    <2>4. QED  BY <2>2, <2>3 DEF ScreenInv
  <1>9. CASE Reconnect
    <2>1. UNCHANGED <<vars, drops, toClient, shown>> /\ drops # 0
      BY <1>1, <1>9 DEF Reconnect, Linked, viewVars
    <2>2. ClientTypes' /\ Linked' /\ Loading'
      BY <1>1, <1>9, ReconnectTyped
    <2>3. \A m \in New : Watched(m)'
      BY <1>1, <2>1, <2>2, StillWatched
    <2>4. Told' /\ Held'
      BY <1>1, <2>1, ToldStays DEF Held
    <2>5. QED  BY <2>2, <2>3, <2>4 DEF ScreenInv
  <1>10. ASSUME NEW i \in Loads, ServeGet(i) PROVE ScreenInv'
    <2>1. UNCHANGED <<vars, drops, toClient, shown>>
      BY <1>10 DEF ServeGet, linkVars, viewVars
    <2>2. ClientTypes' /\ Linked' /\ Loading' /\ loads[i].stage # "none"
      BY <1>1, <1>10, ServeTyped
    <2>3. \A m \in New : Watched(m)'
      BY <1>1, <2>1, <2>2, StillWatched
    <2>4. Told' /\ Held'
      BY <1>1, <2>1, <2>2, ToldStays DEF Held
    <2>5. QED  BY <2>2, <2>3, <2>4 DEF ScreenInv
  <1>11. ASSUME NEW i \in Loads, Hydrate(i) PROVE ScreenInv'
    <2>1. UNCHANGED <<vars, drops>>
      BY <1>11 DEF Hydrate, linkVars
    <2>2. ClientTypes' /\ Linked' /\ loads[i].stage # "none"
      BY <1>1, <1>11, HydrateTyped
    <2>3. \A m \in New : Watched(m)'
      BY <1>1, <1>11, HydrateWatched
    <2>4. Told' /\ Held'
      BY <1>1, <2>1, <2>2, ToldStays DEF Held
    <2>5. QED  BY <2>2, <2>3, <2>4 DEF ScreenInv
  <1>12. CASE UNCHANGED allVars
    <2>1. UNCHANGED <<vars, up, drops, toClient, toCore, view, shown, runningTools, adopted, active,
                      abandoned, loads, post>>
      BY <1>12 DEF allVars, clientVars
    <2>2. ClientTypes' /\ Linked'
      BY <1>1, <2>1 DEF ClientTypes, Linked, Over, vars, coreVars
    <2>3. Told' /\ Held'
      BY <1>1, <2>1, ToldStays, StillHeld
    <2>4. Loading' = Loading /\ Left' = Left /\ (Subscribing => Subscribing')
      BY <2>1 DEF Loading, Left, Subscribing
    <2>5. \A m \in New : Watched(m)'
      BY <1>1, <2>1, <2>4, StillWatched
    <2>6. QED  BY <2>2, <2>3, <2>5 DEF ScreenInv
  <1>13. QED
    BY <1>4, <1>5, <1>6, <1>7, <1>8, <1>9, <1>10, <1>11, <1>12 DEF ClientNext, CoreSteps

\* So it holds of every reachable state, with the turn's own.
LEMMA ScreenInvariance == ClientSpec => [](IInv /\ ScreenInv)
  <1>1. ClientInit => ScreenInv
    BY ScreenInit
  <1>2. IInv /\ ScreenInv /\ [ClientNext]_allVars => ScreenInv'
    BY ScreenKept
  <1>3. QED  BY <1>1, <1>2, ClientInvariance, PTL DEF ClientSpec

-----------------------------------------------------------------------------
(* A client that reloads                                                   *)

\* What a load was told of is still stored, and the reply that is deleted does not come
\* back: once the document changed, no reply is equal to it.
Replied ==
    \A i \in Loads :
        /\ loads[i].stage # "none" => i \in 1..drops
        /\ loads[i].stage \in {"replied", "done"} =>
              /\ \A m \in New \cup {LateUser} : m \in ToSet(loads[i].doc) => m \in ToSet(doc)
              /\ OldReply \in ToSet(doc) => OldReply \in ToSet(loads[i].doc)

\* The turn has its place in the document; before it has, nothing is sent.
Placed ==
    /\ Begun => \E p \in 1..2 : Seated(p)
    /\ ~Begun => Unseated /\ toClient = <<>>

\* No frame brings a message that was not created.
Heard == \A i \in 1..Len(toClient) : toClient[i].kind = "message" => toClient[i].id <= created

\* What is shown of a message on screen is what was flushed of it, or it will be
\* replaced; a client that walked away has nothing on screen that can still grow.
Tracks(m) ==
    \/ shown[m] = flushed[m] /\ (Left => m \in ToSet(doc) \/ Over)
    \/ ~Left /\ (Coming(m) \/ m \in DOMAIN live)
    \/ phase = "crashed"

\* The document that a load brought is on screen, unless something is to be added to it.
Current(d) == d = doc /\ created = Stored /\ post # "sent" => view = d

Reloaded ==
    drops > 0 /\ up /\ ~Loading =>
        /\ \A m \in New : m \in ToSet(view) => Tracks(m)
        /\ \E i \in 1..drops : loads[i].stage = "done" /\ Current(loads[i].doc)

ReloadInv == Replied /\ Placed /\ Heard /\ Reloaded

\* What a step does to the document: it stores a message, or takes the reply out.
LEMMA DocSteps ==
  ASSUME IInv, Next
  PROVE  /\ \A x \in New \cup {LateUser} : x \in ToSet(doc) => x \in ToSet(doc')
         /\ OldReply \in ToSet(doc') => OldReply \in ToSet(doc)
         /\ \/ doc' = doc
            \/ \E x \in New \cup {LateUser} : x \in ToSet(doc') /\ x \notin ToSet(doc)
            \/ OldReply \in ToSet(doc) /\ OldReply \notin ToSet(doc')
  <1>1. OldReply \notin New /\ OldReply # LateUser /\ OldReply # Anchor /\ OldReply # NewerUser
    BY MessageAssumption
  <1>2. CASE Persist
    <2> DEFINE m == Head(finalizing)
    <2>1. Busy /\ ~persisted /\ doc' = InsertAfter(m, cursor)
      BY <1>2 DEF Persist
    <2>2. m = Announced + 1 /\ m \in New /\ cursor \in ToSet(doc)
      BY <2>1, NextToFinalize
    <2>3. m \notin ToSet(doc) /\ m \in Msgs /\ doc \in Seq(Msgs) /\ IsInjective(doc)
      <3>1. Announced \in Nat /\ Stored = Announced
        BY <2>1, Counts DEF IInv
      <3>2. QED  BY <2>2, <3>1 DEF IInv, Numbered, Types, Msgs
    <2> HIDE DEF m
    <2>4. ToSet(doc') = ToSet(doc) \cup {m}
      BY <2>1, <2>2, <2>3, InsertedAfter
    <2>5. QED  BY <1>1, <2>2, <2>3, <2>4
  <1>3. CASE PostUser
    <2>1. ToSet(doc') = ToSet(doc) \cup {LateUser} /\ LateUser \notin ToSet(doc)
      BY <1>3, PostedAtEnd DEF PostUser, IInv, Types
    <2>2. QED  BY <1>1, <2>1
  <1>4. CASE DeleteTurn
    <2>1. /\ doc \in {<<Anchor, OldReply, NewerUser>>, <<Anchor, OldReply, NewerUser, LateUser>>}
          /\ doc' \in Seq(Msgs) /\ Len(doc') = Len(doc) - 1 /\ Len(doc') \in 2..3
          /\ doc'[1] = Anchor /\ doc'[2] = NewerUser /\ (Len(doc') = 3 => doc'[3] = LateUser)
      BY <1>4, ReplyTaken
    <2>2. OldReply \in ToSet(doc)
      <3>1. Len(doc) \in 3..4 /\ doc[2] = OldReply
        BY <2>1
      <3>2. 2 \in DOMAIN doc
        BY <2>1
      <3>3. QED  BY <3>1, <3>2, Zenon DEF ToSet
    <2>3. OldReply \notin ToSet(doc')
      <3>1. DOMAIN doc' = 1..Len(doc') /\ Len(doc') \in 2..3
        BY <2>1
      <3>2. ASSUME NEW i \in DOMAIN doc' PROVE doc'[i] # OldReply
        <4>1. i = 1 \/ i = 2 \/ (i = 3 /\ Len(doc') = 3)
          BY <3>1
        <4>2. QED  BY <1>1, <2>1, <4>1
      <3>3. QED  BY <3>2 DEF ToSet
    <2>4. ~PostUser
      BY <1>4 DEF DeleteTurn, PostUser
    <2>5. \A x \in New \cup {LateUser} : x \in ToSet(doc) => x \in ToSet(doc')
      BY <2>4, OthersKept, NothingShrinks
    <2>6. QED  BY <2>2, <2>3, <2>5
  <1>5. QED
    BY <1>2, <1>3, <1>4, StepKinds DEF Quiet, Flushes, Appears, BeginTurn, Announce,
       Resubscribe, coreVars

\* What is stored was created.
LEMMA StoredCreated ==
  IInv => /\ Stored \in 0..MaxMessages /\ created \in Nat /\ Stored <= created
          /\ \A m \in New : m \in ToSet(doc) <=> m <= Stored
  <1>1. SUFFICES ASSUME IInv
                 PROVE  /\ Stored \in 0..MaxMessages /\ created \in Nat /\ Stored <= created
                        /\ \A m \in New : m \in ToSet(doc) <=> m <= Stored
    OBVIOUS
  <1>2. /\ Stored = Announced + (IF persisted THEN 1 ELSE 0) /\ Stored \in Nat
        /\ Claimed = Announced + Len(finalizing) /\ Len(finalizing) \in Nat
        /\ (Busy <=> Len(finalizing) > 0) /\ (persisted => Busy) /\ Announced \in Nat
        /\ created \in Nat
    BY <1>1, Counts DEF IInv, Stages
  <1>3. persisted => Len(finalizing) > 0
    BY <1>2, Zenon
  <1>4. Stored <= Claimed
    BY <1>2, <1>3
  <1>5. Claimed <= created /\ created <= MaxMessages /\ Claimed \in Nat /\ MaxMessages \in Nat
    BY <1>1, <1>2, TurnAssumption DEF IInv, Numbered, Types
  <1>6. Stored \in 0..MaxMessages /\ Stored <= created
    BY <1>2, <1>4, <1>5
  <1>7. QED  BY <1>1, <1>2, <1>6 DEF IInv, Numbered

\* A step that leaves the document stores nothing, and creates what is not stored.
LEMMA StoredKept ==
  ASSUME IInv, Next
  PROVE  /\ created <= created'
         /\ doc' = doc /\ created' = Stored' => created = Stored
  <1>1. created <= created'
    <2>1. created \in Nat
      BY StoredCreated
    <2>2. CASE Quiet \/ Flushes \/ Appears
      <3>1. created <= created' \/ created' = created + 1
        BY <2>2, Zenon DEF Quiet, Flushes, Appears
      <3>2. QED  BY <2>1, <3>1
    <2>3. CASE DeleteTurn \/ BeginTurn \/ Persist \/ Announce \/ Resubscribe \/ PostUser
      <3>1. created' = created
        BY <2>3 DEF DeleteTurn, BeginTurn, Persist, Announce, Resubscribe, PostUser,
           coreVars
      <3>2. QED  BY <2>1, <3>1
    <2>4. QED  BY <2>2, <2>3, StepKinds
  <1>2. ASSUME doc' = doc, created' = Stored' PROVE created = Stored
    <2>1. /\ Stored \in 0..MaxMessages /\ created \in Nat /\ Stored <= created
          /\ \A m \in New : m \in ToSet(doc) <=> m <= Stored
      BY StoredCreated
    <2>2. IInv'
      BY TurnInv
    <2>3. (IInv => /\ Stored \in 0..MaxMessages /\ created \in Nat /\ Stored <= created
                   /\ \A m \in New : m \in ToSet(doc) <=> m <= Stored)'
      BY StoredCreated, PTL
    <2>4. Stored' \in 0..MaxMessages /\ \A m \in New : m \in ToSet(doc) <=> m <= Stored'
      BY <1>2, <2>2, <2>3
    <2>5. MaxMessages \in Nat
      BY TurnAssumption
    <2>6. ~(Stored < Stored')
      <3>1. SUFFICES ASSUME Stored < Stored' PROVE FALSE
        OBVIOUS
      <3>2. Stored' \in New
        BY <2>1, <2>4, <2>5, <3>1 DEF New
      <3>3. QED  BY <2>1, <2>4, <3>1, <3>2
    <2>7. QED  BY <1>1, <1>2, <2>1, <2>4, <2>5, <2>6
  <1>3. QED  BY <1>1, <1>2

\* What is sent brings what was created.
LEMMA SentCreated ==
  ASSUME IInv, Told, Next
  PROVE  /\ sent' \in Seq(Frames)
         /\ \A i \in 1..Len(sent') : sent'[i].kind = "message" => sent'[i].id <= created'
  <1>1. 1 \in New
    BY TurnAssumption DEF New
  <1>2. sent' \in Seq(Frames) /\ created \in Nat /\ created <= created'
    BY <1>1, StepTells, StoredCreated, StoredKept DEF Proper
  <1>3. SUFFICES ASSUME NEW i \in 1..Len(sent'), sent'[i].kind = "message"
                 PROVE  sent'[i].id <= created'
    BY <1>2
  <1>4. CASE Quiet
    <2>1. CASE sent' = <<>>
      BY <1>3, <2>1
    <2>2. CASE sent' = <<[kind |-> "end"]>>
      BY <1>3, <2>2
    <2>3. QED  BY <1>4, <2>1, <2>2 DEF Quiet
  <1>5. CASE Flushes
    <2>1. Streaming /\ sent' = FlushFrames
      BY <1>5 DEF Flushes
    <2>2. sent'[i].kind = "delta"
      BY <1>1, <1>3, <2>1, FlushLevels
    <2>3. QED  BY <1>3, <2>2
  <1>6. CASE Appears
    <2> DEFINE s == Snapshot(created', liveCursor, FALSE)
               u == <<s>>
               t == FlushFrames
    <2>1. s \in Frames /\ s.id = created' /\ created' \in Nat
      <3>1. created' \in New
        BY <1>6, Zenon DEF Appears
      <3>2. s \in Frames /\ s.id = created'
        BY <1>6, BirthFrame
      <3> HIDE DEF s
      <3>3. QED  BY <3>1, <3>2 DEF New
    <2> HIDE DEF s
    <2>2. u \in Seq(Frames) /\ Len(u) = 1 /\ u[1] = s
      BY <2>1
    <2>3. sent' = u \/ (Streaming /\ sent' = u \o t)
      BY <1>6 DEF Appears, s
    <2> HIDE DEF u
    <2>4. CASE sent' = u
      <3>1. i \in 1..Len(u)
        BY <1>3, <2>4
      <3>2. i = 1
        BY <2>2, <3>1
      <3>3. sent'[i].id = created'
        BY <2>1, <2>2, <2>4, <3>2
      <3>4. QED  BY <2>1, <3>3
    <2>5. CASE Streaming /\ sent' = u \o t
      <3>1. t \in Seq(Frames) /\ \A j \in 1..Len(t) : t[j].kind = "delta"
        BY <1>1, <2>5, FlushLevels
      <3> HIDE DEF t
      <3>2. /\ Len(sent') = Len(u) + Len(t) /\ Len(t) \in Nat
            /\ \A j \in 1..(Len(u) + Len(t)) :
                 sent'[j] = IF j <= Len(u) THEN u[j] ELSE t[j - Len(u)]
        <4>1. u \in Seq(Frames) /\ t \in Seq(Frames) /\ sent' = u \o t
          BY <2>2, <2>5, <3>1 DEF t
        <4>2. QED  BY <4>1, PutBehind
      <3>3. CASE i = 1
        <4>1. 1 \in 1..(Len(u) + Len(t)) /\ 1 <= Len(u)
          BY <2>2, <3>2
        <4>2. sent'[1] = s
          BY <2>2, <3>2, <4>1
        <4>3. sent'[i].id = created'
          BY <2>1, <3>3, <4>2
        <4>4. QED  BY <2>1, <4>3
      <3>4. CASE i # 1
        <4>1. i - 1 \in 1..Len(t) /\ sent'[i] = t[i - 1]
          BY <1>3, <2>2, <3>2, <3>4
        <4>2. QED  BY <1>3, <3>1, <4>1
      <3>5. QED  BY <3>3, <3>4
    <2>6. QED  BY <2>3, <2>4, <2>5
  <1>7. CASE DeleteTurn \/ Persist \/ PostUser
    <2>1. sent' = <<>>
      BY <1>7 DEF DeleteTurn, Persist, PostUser
    <2>2. QED  BY <1>3, <2>1
  <1>8. CASE BeginTurn
    <2>1. CASE sent' = <<>>
      BY <1>3, <2>1
    <2>2. CASE sent' = <<[kind |-> "deleted", id |-> OldReply]>>
      BY <1>3, <2>2
    <2>3. QED  BY <1>8, <2>1, <2>2 DEF BeginTurn
  <1>9. CASE Announce
    <2> DEFINE m == Head(finalizing)
               s == Snapshot(m, IF m \in bornIds THEN None ELSE liveCursor, TRUE)
    <2>1. Busy /\ sent' = <<s>>
      BY <1>9 DEF Announce
    <2>2. m <= created /\ m \in New
      BY <2>1, NextToFinalize
    <2>3. s.id = m /\ m \in Nat
      BY <2>2 DEF Snapshot, New
    <2> HIDE DEF m, s
    <2>4. i = 1 /\ sent'[i] = s
      BY <1>3, <2>1
    <2>5. created' \in Nat
      BY <1>2, <1>9 DEF Announce
    <2>6. QED  BY <1>2, <2>2, <2>3, <2>4, <2>5
  <1>10. CASE Resubscribe
    <2>1. sent'[i].id \in DOMAIN live
      BY <1>3, <1>10, Replay
    <2>2. sent'[i].id \in New /\ sent'[i].id <= Known /\ Known <= created /\ Known \in Nat
      BY <2>1, LiveSegment
    <2>3. created' = created
      BY <1>10 DEF Resubscribe, coreVars
    <2>4. QED  BY <1>2, <2>2, <2>3 DEF New
  <1>11. QED
    BY <1>4, <1>5, <1>6, <1>7, <1>8, <1>9, <1>10, StepKinds

\* The core's steps: what was served stays behind the document, ...
LEMMA CoreReplied ==
  ASSUME IInv, ClientTypes, Linked, Replied, CoreSteps
  PROVE  Replied'
  <1>1. Next /\ UNCHANGED <<drops, loads>>
    BY CoreStep
  <1>2. /\ \A x \in New \cup {LateUser} : x \in ToSet(doc) => x \in ToSet(doc')
        /\ OldReply \in ToSet(doc') => OldReply \in ToSet(doc)
    BY <1>1, DocSteps
  <1>3. QED  BY <1>1, <1>2 DEF Replied

\* ... the turn takes its place and keeps it, ...
LEMMA CorePlaced ==
  ASSUME IInv, Told, ClientTypes, Linked, Placed, CoreSteps
  PROVE  Placed'
  <1>1. Next /\ toClient' = (IF up THEN toClient \o sent' ELSE toClient)
    BY CoreStep
  <1>2. CASE Begun
    <2>1. PICK p \in 1..2 : Seated(p)
      BY <1>2 DEF Placed
    <2>2. Begun' /\ Seated(p)'
      BY <1>1, <1>2, <2>1, BegunStays, SeatKept
    <2>3. QED  BY <2>2 DEF Placed
  <1>3. CASE BeginTurn
    <2>1. Unseated /\ Begun'
      BY <1>3 DEF Placed, BeginTurn, Begun
    <2>2. \E p \in 1..2 : Seated(p)'
      BY <1>3, <2>1, SeatTaken
    <2>3. QED  BY <2>1, <2>2 DEF Placed
  <1>4. CASE ~Begun /\ ~BeginTurn
    <2>1. ~Begun' /\ sent' = <<>> /\ Unseated /\ toClient = <<>>
      BY <1>1, <1>4, BeforeTurn DEF Placed
    <2>2. Unseated'
      BY <1>1, <1>4, <2>1, UnseatedKept
    <2>3. toClient' = <<>>
      BY <1>1, <2>1
    <2>4. QED  BY <2>1, <2>2, <2>3 DEF Placed
  <1>5. QED  BY <1>2, <1>3, <1>4

\* ... what is sent was created, ...
LEMMA CoreHeard ==
  ASSUME IInv, Told, ClientTypes, Linked, Heard, CoreSteps
  PROVE  Heard'
  <1>1. Next /\ toClient' = (IF up THEN toClient \o sent' ELSE toClient)
    BY CoreStep
  <1>2. created \in Nat /\ created <= created'
    BY <1>1, StoredCreated, StoredKept
  <1>3. /\ sent' \in Seq(Frames) /\ toClient \in Seq(Frames)
        /\ \A i \in 1..Len(sent') : sent'[i].kind = "message" => sent'[i].id <= created'
    BY <1>1, SentCreated DEF ClientTypes
  <1>4. ASSUME NEW i \in 1..Len(toClient), toClient[i].kind = "message"
        PROVE  toClient[i].id <= created'
    <2>1. toClient[i].id \in New /\ toClient[i].id <= created
      BY <1>3, <1>4, FrameKinds DEF Heard
    <2>2. created' \in Nat
      <3>1. IInv'
        BY <1>1, TurnInv
      <3>2. QED  BY <3>1, CountsNext
    <2>3. QED  BY <1>2, <2>1, <2>2 DEF New
  <1>5. CASE ~up
    BY <1>1, <1>4, <1>5 DEF Heard
  <1>6. CASE up
    <2>1. /\ Len(toClient') = Len(toClient) + Len(sent')
          /\ Len(toClient) \in Nat /\ Len(sent') \in Nat
          /\ \A j \in 1..(Len(toClient) + Len(sent')) :
               toClient'[j] = IF j <= Len(toClient) THEN toClient[j] ELSE sent'[j - Len(toClient)]
      BY <1>1, <1>3, <1>6, PutBehind
    <2>2. ASSUME NEW i \in 1..Len(toClient'), toClient'[i].kind = "message"
          PROVE  toClient'[i].id <= created'
      <3>1. CASE i <= Len(toClient)
        <4>1. i \in 1..Len(toClient) /\ toClient'[i] = toClient[i]
          BY <2>1, <3>1
        <4>2. QED  BY <1>4, <2>2, <4>1
      <3>2. CASE ~(i <= Len(toClient))
        <4>1. i - Len(toClient) \in 1..Len(sent') /\ toClient'[i] = sent'[i - Len(toClient)]
          BY <2>1, <3>2
        <4>2. QED  BY <1>3, <2>2, <4>1
      <3>3. QED  BY <3>1, <3>2
    <2>3. QED  BY <2>2 DEF Heard
  <1>7. QED  BY <1>5, <1>6

\* What was flushed of a stored message does not change, nor of a turn that ended.
LEMMA StoredFlushed ==
  ASSUME IInv, Next, NEW m \in New, m \in ToSet(doc) \/ phase = "ended"
  PROVE  flushed'[m] = flushed[m]
  <1>1. flushed[m] = text[m]
    <2>1. m \in ToSet(doc) => flushed[m] = text[m]
      BY InvImplies DEF NothingLost
    <2>2. phase = "ended" => flushed = text
      BY AllFlushed DEF IInv, Streaming
    <2>3. QED  BY <2>1, <2>2
  <1>2. flushed' = flushed \/ flushed' = Flushed
    BY StepKinds DEF Quiet, Flushes, Appears, DeleteTurn, BeginTurn, Persist, Announce,
       Resubscribe, PostUser, coreVars, textVars
  <1>3. Flushed = text
    BY FlushedIsText DEF IInv
  <1>4. QED  BY <1>1, <1>2, <1>3

\* A step of the core brings to the screen what it flushes of a message that is there.
LEMMA CoreTracks ==
  ASSUME IInv, Told, ClientTypes, Linked, CoreSteps, up, NEW m \in New, Tracks(m)
  PROVE  Tracks(m)'
  <1>1. /\ Next /\ toClient' = toClient \o sent' /\ shown' = shown /\ Left' = Left
        /\ (m \in ToSet(doc) => m \in ToSet(doc')) /\ (Over => phase' = phase)
    BY CoreStep, DocSteps, OverStays DEF Left
  <1>2. Tells(m) /\ sent' \in Seq(Frames) /\ toClient \in Seq(Frames)
    BY <1>1, StepTells, SentCreated DEF ClientTypes
  <1>3. Coming(m) \/ (\E j \in 1..Len(sent') : Carries(sent'[j], m)) => Coming(m)'
    BY <1>1, <1>2, ComingBehind
  <1>4. (m \in DOMAIN live) # (m \in DOMAIN live') => Coming(m)'
    BY <1>2, <1>3 DEF Tells
  <1>5. m \in DOMAIN live' \/ flushed'[m] = flushed[m] \/ Coming(m)'
    <2>1. PICK lev \in [0..Len(sent') -> 0..MaxText] :
            /\ lev[0] = flushed[m] /\ lev[Len(sent')] = flushed'[m]
            /\ m \in DOMAIN live' \/ Settles(sent', m, lev)
      BY <1>2 DEF Tells
    <2>2. 0 \in 0..Len(sent') /\ 0 + 1 = 1
      BY <1>2
    <2>3. QED  BY <1>3, <2>1, <2>2 DEF Settles
  <1>6. CASE phase = "crashed"
    <2>1. phase' = "crashed"
      BY <1>1, <1>6 DEF Over
    <2>2. QED  BY <2>1 DEF Tracks
  <1>7. CASE Left /\ phase # "crashed"
    <2>1. shown[m] = flushed[m] /\ (m \in ToSet(doc) \/ phase = "ended")
      BY <1>7 DEF Tracks, Over
    <2>2. flushed'[m] = flushed[m]
      BY <1>1, <2>1, StoredFlushed
    <2>3. QED  BY <1>1, <2>1, <2>2 DEF Tracks, Over
  <1>8. CASE ~Left /\ phase # "crashed"
    <2>1. CASE m \in DOMAIN live' \/ Coming(m)'
      BY <1>1, <1>8, <2>1 DEF Tracks
    <2>2. CASE ~(m \in DOMAIN live' \/ Coming(m)')
      <3>1. shown[m] = flushed[m] /\ flushed'[m] = flushed[m]
        BY <1>3, <1>4, <1>5, <1>8, <2>2 DEF Tracks
      <3>2. QED  BY <1>1, <1>8, <3>1 DEF Tracks
    <2>3. QED  BY <2>1, <2>2
  <1>9. QED  BY <1>6, <1>7, <1>8

\* ... and what is on screen is still the document, if that did not change.
LEMMA CoreReloaded ==
  ASSUME IInv, Told, ClientTypes, Linked, Replied, Reloaded, CoreSteps
  PROVE  Reloaded'
  <1>1. /\ Next /\ toClient' = (IF up THEN toClient \o sent' ELSE toClient)
        /\ UNCHANGED <<up, drops, view, shown, adopted, abandoned, loads>>
        /\ post' \in {"no", "sent", "stored"} /\ (post' = "no" <=> post = "no")
        /\ post' = "stored" <=> LateUser \in ToSet(doc')
    BY CoreStep
  <1>2. Loading' = Loading /\ Left' = Left
    BY <1>1 DEF Loading, Left
  <1>3. SUFFICES ASSUME drops > 0, up, ~Loading
                 PROVE  /\ \A m \in New : m \in ToSet(view') => Tracks(m)'
                        /\ \E i \in 1..drops : loads'[i].stage = "done" /\ Current(loads[i].doc)'
    BY <1>1, <1>2 DEF Reloaded
  <1>4. PICK i \in 1..drops : loads[i].stage = "done" /\ Current(loads[i].doc)
    BY <1>3 DEF Reloaded
  <1> DEFINE d == loads[i].doc
  <1>5. i \in Loads
    <2>1. drops \in 0..MaxDrops /\ MaxDrops \in Nat
      BY DropsAssumption DEF ClientTypes
    <2>2. QED  BY <2>1 DEF Loads
  <1>6. /\ \A m \in New \cup {LateUser} : m \in ToSet(d) => m \in ToSet(doc)
        /\ OldReply \in ToSet(doc) => OldReply \in ToSet(d)
    BY <1>4, <1>5 DEF Replied
  <1>7. d' = d
    BY <1>1
  <1>8. Current(d)
    BY <1>4
  <1> HIDE DEF d
  <1>9. \A m \in New : m \in ToSet(view') => Tracks(m)'
    BY <1>1, <1>3, CoreTracks DEF Reloaded
  <1>10. ASSUME d = doc', created' = Stored', post' # "sent" PROVE view' = d
    <2>1. doc' = doc
      <3>1. \/ doc' = doc
            \/ \E x \in New \cup {LateUser} : x \in ToSet(doc') /\ x \notin ToSet(doc)
            \/ OldReply \in ToSet(doc) /\ OldReply \notin ToSet(doc')
        BY <1>1, DocSteps
      <3>2. QED  BY <1>6, <1>10, <3>1
    <2>2. created = Stored
      BY <1>1, <1>10, <2>1, StoredKept
    <2>3. post # "sent"
      BY <1>1, <1>10, <2>1 DEF ClientTypes
    <2>4. QED  BY <1>1, <1>8, <1>10, <2>1, <2>2, <2>3 DEF Current
  <1>11. Current(loads[i].doc)'
    <2>1. PICK e : e = d
      OBVIOUS
    <2>2. Current(e)'
      BY <1>10, <2>1 DEF Current
    <2>3. QED  BY <1>7, <2>1, <2>2 DEF d
  <1>12. QED  BY <1>1, <1>4, <1>9, <1>11

\* Steps of the client that leave the turn, the frames and the text that is shown.
LEMMA StillReloaded ==
  ASSUME Reloaded, UNCHANGED <<vars, up, drops, toClient, shown, loads>>, Left' => Left,
         \/ view' = view /\ post' = post
         \/ post' = "sent" /\ \A m \in New : m \in ToSet(view') => m \in ToSet(view)
  PROVE  Reloaded'
  <1>1. /\ UNCHANGED <<doc, phase, flushed, live, created, cursor, persisted>>
        /\ Loading' = Loading
    BY DEF vars, coreVars, textVars, writerVars, Loading
  <1>2. SUFFICES ASSUME drops > 0, up, ~Loading
                 PROVE  /\ \A m \in New : m \in ToSet(view') => Tracks(m)'
                        /\ \E i \in 1..drops : loads'[i].stage = "done" /\ Current(loads[i].doc)'
    BY <1>1 DEF Reloaded
  <1>3. PICK i \in 1..drops : loads[i].stage = "done" /\ Current(loads[i].doc)
    BY <1>2 DEF Reloaded
  <1>4. ASSUME NEW m \in New, m \in ToSet(view') PROVE Tracks(m)'
    <2>1. Tracks(m)
      BY <1>2, <1>4 DEF Reloaded
    <2>2. QED  BY <1>1, <2>1 DEF Tracks, Coming, Over
  <1>5. Stored' = Stored
    BY <1>1 DEF Stored, Announced
  <1>6. PICK d : d = loads[i].doc
    OBVIOUS
  <1>7. Current(d)'
    BY <1>1, <1>3, <1>5, <1>6 DEF Current
  <1>8. loads'[i].doc = d
    BY <1>6
  <1>9. QED  BY <1>3, <1>4, <1>7, <1>8

\* When a load is done its document is on screen.
LEMMA HydrateReloaded ==
  ASSUME IInv, ClientTypes, Linked, Replied, NEW i \in Loads, Hydrate(i)
  PROVE  Replied' /\ Reloaded'
  <1>1. /\ loads[i].stage = "replied" /\ view' = loads[i].doc
        /\ shown' = [m \in New |-> IF m \in ToSet(loads[i].doc) THEN text[m] ELSE 0]
        /\ loads' = [loads EXCEPT ![i] = [loads[i] EXCEPT !.stage = "done"]]
        /\ UNCHANGED <<doc, flushed, drops>>
    BY DEF Hydrate, vars, coreVars, linkVars, textVars
  <1> DEFINE d == loads[i].doc
  <1>2. [loads[i] EXCEPT !.stage = "done"] = [stage |-> "done", doc |-> d]
    BY <1>1, LoadKinds
  <1>3. /\ loads'[i] = [stage |-> "done", doc |-> d]
        /\ \A j \in Loads : j # i => loads'[j] = loads[j]
    BY <1>1, <1>2 DEF ClientTypes
  <1>4. /\ i \in 1..drops
        /\ \A m \in New \cup {LateUser} : m \in ToSet(d) => m \in ToSet(doc)
        /\ OldReply \in ToSet(doc) => OldReply \in ToSet(d)
    BY <1>1 DEF Replied
  <1>5. view' = d /\ shown' = [m \in New |-> IF m \in ToSet(d) THEN text[m] ELSE 0]
    BY <1>1
  <1>6. loads'[i].stage = "done" /\ loads'[i].doc = d
    BY <1>3
  <1>7. PICK e : e = d
    OBVIOUS
  <1> HIDE DEF d
  <1>8. Replied'
    <2>1. ASSUME NEW j \in Loads
          PROVE  /\ loads'[j].stage # "none" => j \in 1..drops
                 /\ loads'[j].stage \in {"replied", "done"} =>
                      /\ \A m \in New \cup {LateUser} : m \in ToSet(loads'[j].doc) => m \in ToSet(doc)
                      /\ OldReply \in ToSet(doc) => OldReply \in ToSet(loads'[j].doc)
      <3>1. CASE j = i
        BY <1>4, <1>6, <3>1
      <3>2. CASE j # i
        BY <1>3, <3>2 DEF Replied
      <3>3. QED  BY <3>1, <3>2
    <2>2. QED  BY <1>1, <2>1 DEF Replied
  <1>9. Current(e)'
    BY <1>5, <1>7 DEF Current
  <1>10. ASSUME NEW m \in New, m \in ToSet(view') PROVE Tracks(m)'
    <2>1. m \in ToSet(e) /\ m \in ToSet(doc)
      BY <1>4, <1>5, <1>7, <1>10
    <2>2. flushed[m] = text[m]
      BY <2>1, InvImplies DEF NothingLost
    <2>3. shown'[m] = flushed'[m]
      BY <1>1, <1>5, <1>7, <2>1, <2>2
    <2>4. QED  BY <1>1, <2>1, <2>3 DEF Tracks
  <1>11. Reloaded'
    BY <1>1, <1>4, <1>6, <1>7, <1>9, <1>10 DEF Reloaded
  <1>12. QED  BY <1>8, <1>11

\* The same of the next state: what is not on its way was flushed.
LEMMA FlowNowNext ==
  \A m \in New : \A v : (toClient' \in Seq(Frames) /\ Flow(m, v)') =>
                          m \in DOMAIN live' \/ v = flushed'[m] \/ Coming(m)'
  <1>1. \A m \in New : \A v : (toClient \in Seq(Frames) /\ Flow(m, v)) =>
                               m \in DOMAIN live \/ v = flushed[m] \/ Coming(m)
    BY FlowNow
  <1>2. (\A m \in New : \A v : (toClient \in Seq(Frames) /\ Flow(m, v)) =>
                                m \in DOMAIN live \/ v = flushed[m] \/ Coming(m))'
    BY <1>1, PTL
  <1>3. QED  BY <1>2

\* A frame that comes brings what is shown of a message to what was flushed of it, or
\* more is to come.
LEMMA FrameTracks ==
  ASSUME IInv, ClientTypes, Linked, OnFrame, NEW m \in New, Watched(m),
         m \in ToSet(view'), m \in ToSet(view) => Tracks(m)
  PROVE  Tracks(m)'
  <1> DEFINE f == Head(toClient)
  <1>1. /\ toClient \in Seq(Frames) /\ toClient # <<>> /\ toClient' = Tail(toClient)
        /\ UNCHANGED <<doc, phase, flushed, live, abandoned>>
    BY DEF OnFrame, ClientTypes, vars, coreVars, textVars, writerVars
  <1>2. /\ f \in Frames /\ f = toClient[1] /\ 1 \in 1..Len(toClient)
        /\ Tail(toClient) \in Seq(Frames)
    BY <1>1, TakenOff
  <1>3. /\ f.kind = "message" => f.id \in New /\ f.text \in 0..MaxText
        /\ f.kind = "delta" => f.id \in New /\ f.n \in 0..MaxText
    BY <1>2, FrameKinds
  <1>4. /\ shown \in [New -> Nat] /\ (active => adopted) /\ view \in Seq(Msgs)
        /\ adopted \in BOOLEAN /\ abandoned \in BOOLEAN /\ flushed[m] \in Nat
    BY DEF ClientTypes, Linked, IInv, Types
  <1>5. f.kind = "end" => Over /\ ~Coming(m)
    <2>1. SUFFICES ASSUME f.kind = "end" PROVE Over /\ ~Coming(m)
      OBVIOUS
    <2>2. Over /\ Len(toClient) = 1
      BY <1>2, <2>1 DEF Linked
    <2>3. QED  BY <1>2, <2>1, <2>2 DEF Coming, Carries
  <1>6. PICK v \in 0..MaxText : Watches(m, v)
    BY DEF Watched
  <1>7. Flow(m, v)
    BY <1>6 DEF Watches
  <1>8. PICK w \in 0..MaxText :
               /\ Flow(m, w)' /\ w = v + (IF Adds(f, m) THEN f.n ELSE 0)
               /\ Carries(f, m) => f.text = w
    BY <1>1, <1>7, FlowTail
  <1>9. m \in DOMAIN live \/ v = flushed[m] \/ Coming(m)
    BY <1>1, <1>7, FlowNow
  <1>10. Coming(m) => Carries(f, m) \/ Coming(m)'
    BY <1>1, ComingTail
  <1>11. m \in DOMAIN live \/ w = flushed[m] \/ Coming(m)'
    BY <1>1, <1>2, <1>8, FlowNowNext
  <1>12. \/ /\ f.kind = "message" /\ (adopted \/ Adopts) /\ ApplyMessage(f) /\ adopted' = TRUE
         \/ /\ f.kind = "delta" /\ adopted
            /\ shown' = [shown EXCEPT ![f.id] = @ + f.n] /\ UNCHANGED <<view, adopted>>
         \/ /\ f.kind = "deleted" /\ view' = RemoveFirst(view, f.id)
            /\ UNCHANGED <<shown, adopted>>
         \/ /\ f.kind = "end" /\ UNCHANGED <<view, shown>>
         \/ /\ f.kind = "message" /\ ~adopted /\ ~Adopts /\ UNCHANGED <<view, shown, adopted>>
         \/ /\ f.kind = "delta" /\ UNCHANGED <<view, shown, adopted>>
    BY DEF OnFrame, viewVars
  <1> HIDE DEF f
  \* Nothing happens to the message.
  <1>13. ASSUME shown'[m] = shown[m], m \in ToSet(view), ~Carries(f, m) \/ Left, Left' => Left
         PROVE  Tracks(m)'
    BY <1>1, <1>10, <1>13 DEF Tracks, Over
  <1>14. CASE phase = "crashed"
    BY <1>1, <1>14 DEF Tracks
  <1>15. CASE f.kind = "message" /\ (adopted \/ Adopts) /\ ApplyMessage(f) /\ adopted' = TRUE
    <2>1. /\ shown'[f.id] = f.text /\ (m # f.id => shown'[m] = shown[m])
          /\ ToSet(view') \subseteq ToSet(view) \cup {f.id}
      BY <1>2, <1>15, Applied, AppliedSet
    <2>2. ~Left'
      BY <1>15 DEF Left
    <2>3. CASE Carries(f, m)
      <3>1. shown'[m] = w
        BY <1>8, <2>1, <2>3 DEF Carries
      <3>2. QED  BY <1>1, <1>11, <2>2, <3>1 DEF Tracks
    <2>4. CASE ~Carries(f, m)
      <3>1. m \in ToSet(view) /\ shown'[m] = shown[m]
        BY <1>15, <2>1, <2>4 DEF Carries
      <3>2. QED  BY <1>13, <2>2, <2>4, <3>1
    <2>5. QED  BY <2>3, <2>4
  <1>16. CASE /\ f.kind = "delta" /\ adopted
              /\ shown' = [shown EXCEPT ![f.id] = @ + f.n] /\ UNCHANGED <<view, adopted>>
    <2>1. ~Left /\ ~Left' /\ ~Carries(f, m) /\ m \in ToSet(view)
      BY <1>16 DEF Left, Carries
    <2>2. CASE f.id # m
      BY <1>4, <1>13, <1>16, <2>1, <2>2
    <2>3. CASE f.id = m /\ phase # "crashed"
      <3>1. w = v + f.n /\ shown'[m] = shown[m] + f.n /\ f.n \in Nat /\ shown[m] \in Nat
        BY <1>3, <1>4, <1>8, <1>16, <2>3 DEF Adds
      <3>2. CASE m \in DOMAIN live \/ Coming(m)'
        BY <1>1, <2>1, <3>2 DEF Tracks
      <3>3. CASE ~(m \in DOMAIN live \/ Coming(m)')
        <4>1. w = flushed[m] /\ v = flushed[m] /\ ~Coming(m)
          BY <1>9, <1>10, <1>11, <2>1, <3>3
        <4>2. shown[m] = flushed[m]
          BY <2>1, <2>3, <3>3, <4>1 DEF Tracks
        <4>3. shown'[m] = flushed[m]
          BY <1>4, <3>1, <4>1, <4>2
        <4>4. QED  BY <1>1, <2>1, <4>3 DEF Tracks
      <3>4. QED  BY <3>2, <3>3
    <2>4. QED  BY <1>14, <2>2, <2>3
  <1>17. CASE f.kind = "end" /\ UNCHANGED <<view, shown>> /\ phase # "crashed"
    <2>1. m \notin DOMAIN live /\ Over /\ ~Coming(m)
      BY <1>5, <1>17, InvImplies DEF NothingLost, Over
    <2>2. shown[m] = flushed[m]
      BY <1>17, <2>1 DEF Tracks
    <2>3. QED  BY <1>1, <1>17, <2>1, <2>2 DEF Tracks, Over
  <1>18. CASE /\ f.kind = "deleted" /\ view' = RemoveFirst(view, f.id)
              /\ UNCHANGED <<shown, adopted>>
    <2>1. Left' = Left /\ ~Carries(f, m)
      BY <1>1, <1>18 DEF Left, Carries
    <2>2. m \in ToSet(view)
      BY <1>4, <1>18, RemovedSet
    <2>3. QED  BY <1>13, <1>18, <2>1, <2>2
  <1>19. CASE f.kind = "delta" /\ UNCHANGED <<view, shown, adopted>>
    <2>1. Left' = Left /\ ~Carries(f, m)
      BY <1>1, <1>19 DEF Left, Carries
    <2>2. QED  BY <1>13, <1>19, <2>1
  <1>20. CASE /\ f.kind = "message" /\ ~adopted /\ ~Adopts
              /\ UNCHANGED <<view, shown, adopted>>
    <2>1. Left /\ (Left' => Left)
      BY <1>4, <1>20 DEF Left, Adopts
    <2>2. QED  BY <1>13, <1>20, <2>1
  <1>21. QED
    BY <1>12, <1>14, <1>15, <1>16, <1>17, <1>18, <1>19, <1>20

\* Where all that was created is stored and on screen, it leaves what is on screen.
LEMMA FrameCurrent ==
  ASSUME IInv, ClientTypes, Placed, Heard, OnFrame, view = doc, created = Stored
  PROVE  view' = view
  <1> DEFINE f == Head(toClient)
  <1>1. toClient \in Seq(Frames) /\ toClient # <<>> /\ view \in Seq(Msgs)
    BY DEF OnFrame, ClientTypes
  <1>2. /\ f \in Frames /\ f = toClient[1] /\ 1 \in 1..Len(toClient)
    BY <1>1, TakenOff
  <1>3. /\ f.kind = "message" => f.id \in New /\ f.id <= created
        /\ f.kind = "deleted" => f.id = OldReply
    BY <1>2, FrameKinds DEF Heard
  <1>4. OldReply \notin ToSet(view)
    <2>1. PICK p \in 1..2 : Seated(p)
      BY <1>1 DEF Placed
    <2>2. /\ Ground(StoredOthers) /\ p \in 1..Len(StoredOthers)
          /\ OldReply \notin ToSet(StoredOthers) /\ OldReply \notin New
      BY <2>1, SeatedPlace, PlaceElements
    <2>3. doc = Spliced(StoredOthers, p, Stored) /\ Stored \in 0..MaxMessages
      BY <2>1, StoredCreated DEF Seated
    <2>4. OldReply \notin ToSet(Spliced(StoredOthers, p, Stored))
      BY <2>2, <2>3, SplicedSet
    <2>5. QED  BY <2>3, <2>4
  <1>5. /\ f.kind = "message" => view' = view \/ ApplyMessage(f)
        /\ f.kind = "deleted" => view' = RemoveFirst(view, f.id)
        /\ f.kind \notin {"message", "deleted"} => view' = view
    BY DEF OnFrame, viewVars
  <1> HIDE DEF f
  <1>6. CASE f.kind = "message"
    <2>1. f.id \in ToSet(view)
      BY <1>3, <1>6, StoredCreated
    <2>2. QED  BY <1>5, <1>6, <2>1 DEF ApplyMessage
  <1>7. CASE f.kind = "deleted"
    BY <1>1, <1>3, <1>4, <1>5, <1>7, Removed
  <1>8. QED  BY <1>5, <1>6, <1>7

\* So a client that reloaded is kept up to date by the frames.
LEMMA FrameReloaded ==
  ASSUME IInv, ScreenInv, ReloadInv, OnFrame
  PROVE  ReloadInv'
  <1>1. /\ ClientTypes /\ Linked /\ Told /\ \A m \in New : Watched(m)
        /\ Replied /\ Placed /\ Heard /\ Reloaded
    BY DEF ScreenInv, ReloadInv
  <1>2. /\ toClient \in Seq(Frames) /\ toClient # <<>> /\ toClient' = Tail(toClient)
        /\ UNCHANGED <<vars, up, drops, loads, post>>
    BY <1>1 DEF OnFrame, ClientTypes, linkVars
  <1>3. UNCHANGED <<doc, phase, created, cursor, liveCursor, persisted>>
    BY <1>2 DEF vars, coreVars, writerVars
  <1>4. Replied'
    BY <1>1, <1>2, <1>3 DEF Replied
  <1>5. Placed'
    <2>1. Begun
      BY <1>1, <1>2 DEF Placed
    <2>2. PICK p \in 1..2 : Seated(p)
      BY <1>1, <2>1 DEF Placed
    <2>3. Begun' /\ Seated(p)'
      BY <1>3, <2>1, <2>2 DEF Begun, Seated, StoredOthers, Others, Regenerate, Stored,
         Announced,
         Base, Known
    <2>4. QED  BY <2>3 DEF Placed
  <1>6. Heard'
    <2>1. \A i \in 1..Len(Tail(toClient)) :
            Tail(toClient)[i] = toClient[i + 1] /\ i + 1 \in 1..Len(toClient)
      BY <1>2, TakenOff
    <2>2. QED  BY <1>1, <1>2, <1>3, <2>1 DEF Heard
  <1>7. Reloaded'
    <2>1. Loading' = Loading
      BY <1>2 DEF Loading
    <2>2. SUFFICES ASSUME drops > 0, up, ~Loading
                   PROVE  /\ \A m \in New : m \in ToSet(view') => Tracks(m)'
                          /\ \E i \in 1..drops :
                               loads'[i].stage = "done" /\ Current(loads[i].doc)'
      BY <1>2, <2>1 DEF Reloaded
    <2>3. PICK i \in 1..drops : loads[i].stage = "done" /\ Current(loads[i].doc)
      BY <1>1, <2>2 DEF Reloaded
    <2>4. PICK d : d = loads[i].doc
      OBVIOUS
    <2>5. Current(d)
      BY <2>3, <2>4
    <2>6. ASSUME NEW m \in New, m \in ToSet(view') PROVE Tracks(m)'
      <3>1. m \in ToSet(view) => Tracks(m)
        BY <1>1, <2>2, <2>6 DEF Reloaded
      <3>2. QED  BY <1>1, <2>6, <3>1, FrameTracks
    <2>7. ASSUME d = doc, created = Stored, post # "sent" PROVE view' = d
      <3>1. view = d
        BY <2>5, <2>7 DEF Current
      <3>2. QED  BY <1>1, <2>7, <3>1, FrameCurrent
    <2>8. Stored' = Stored
      BY <1>3 DEF Stored, Announced
    <2>9. Current(d)'
      BY <1>2, <1>3, <2>7, <2>8 DEF Current
    <2>10. QED  BY <1>2, <2>3, <2>4, <2>6, <2>9
  <1>8. QED  BY <1>4, <1>5, <1>6, <1>7 DEF ReloadInv

\* At first nothing was loaded.
LEMMA ReloadInit == ASSUME ClientInit PROVE ReloadInv
  <1>1. /\ phase = "idle" /\ drops = 0 /\ toClient = <<>>
        /\ loads = [i \in Loads |-> [stage |-> "none"]]
    BY DEF ClientInit, Init
  <1>2. Placed
    BY <1>1 DEF Placed, Begun, Unseated
  <1>3. QED  BY <1>1, <1>2 DEF ReloadInv, Replied, Heard, Reloaded

\* The client alone leaves the turn in its place, ...
LEMMA StillPlaced ==
  ASSUME Placed, Heard, UNCHANGED vars, toClient' \in {toClient, <<>>}
  PROVE  Placed' /\ Heard'
  <1>1. UNCHANGED <<doc, phase, created, cursor, liveCursor, persisted>>
    BY DEF vars, coreVars, writerVars
  <1>2. Begun' = Begun /\ (Unseated => Unseated')
    BY <1>1 DEF Begun, Unseated, StoredOthers, Others, Regenerate
  <1>3. \A p \in 1..2 : Seated(p) => Seated(p)'
    BY <1>1 DEF Seated, StoredOthers, Others, Regenerate, Stored, Announced, Base, Known
  <1>4. Placed'
    BY <1>2, <1>3 DEF Placed
  <1>5. Heard'
    BY <1>1 DEF Heard
  <1>6. QED  BY <1>4, <1>5

\* ... and what was served, where it loads nothing.
LEMMA StillReplied ==
  ASSUME Replied, ClientTypes, UNCHANGED <<doc, loads>>, drops' \in {drops, drops + 1}
  PROVE  Replied'
  <1>1. 1..drops \subseteq 1..drops'
    BY DEF ClientTypes
  <1>2. QED  BY <1>1 DEF Replied

\* A load that is asked for, and one that is served.
LEMMA LoadReplied ==
  ASSUME ClientTypes, Replied, NEW i \in Loads, i \in 1..drops, UNCHANGED <<doc, drops>>,
         NEW l, loads' = [loads EXCEPT ![i] = l],
         l = [stage |-> "asked"] \/ l = [stage |-> "replied", doc |-> doc]
  PROVE  Replied'
  <1>1. loads'[i] = l /\ \A j \in Loads : j # i => loads'[j] = loads[j]
    BY DEF ClientTypes
  <1>2. l.stage = "asked" \/ (l.stage = "replied" /\ l.doc = doc)
    OBVIOUS
  <1>3. ASSUME NEW j \in Loads
        PROVE  /\ loads'[j].stage # "none" => j \in 1..drops
               /\ loads'[j].stage \in {"replied", "done"} =>
                    /\ \A m \in New \cup {LateUser} : m \in ToSet(loads'[j].doc) => m \in ToSet(doc)
                    /\ OldReply \in ToSet(doc) => OldReply \in ToSet(loads'[j].doc)
    <2>1. CASE j = i
      BY <1>1, <1>2, <2>1
    <2>2. CASE j # i
      BY <1>1, <2>2 DEF Replied
    <2>3. QED  BY <2>1, <2>2
  <1>4. QED  BY <1>3 DEF Replied

\* Every step keeps the invariant.
LEMMA ReloadKept ==
  ASSUME IInv, ScreenInv, ReloadInv, [ClientNext]_allVars
  PROVE  ReloadInv'
  <1>1. /\ ClientTypes /\ Linked /\ Told /\ Replied /\ Placed /\ Heard /\ Reloaded
        /\ (UNCHANGED vars => UNCHANGED doc)
    BY DEF ScreenInv, ReloadInv, vars, coreVars
  <1>2. CASE CoreSteps
    <2>1. Replied' /\ Placed' /\ Heard' /\ Reloaded'
      BY <1>1, <1>2, CoreReplied, CorePlaced, CoreHeard, CoreReloaded
    <2>2. QED  BY <2>1 DEF ReloadInv
  <1>3. CASE OnFrame
    BY <1>3, FrameReloaded
  <1>4. CASE UserStops
    <2>1. /\ UNCHANGED <<vars, up, drops, toClient, view, shown, adopted, loads, post>>
          /\ abandoned' = adopted
      BY <1>4 DEF UserStops, linkVars, viewVars
    <2>2. ~Left'
      BY <1>1, <2>1 DEF Left, ClientTypes
    <2>3. Replied' /\ Placed' /\ Heard'
      BY <1>1, <2>1, StillReplied, StillPlaced
    <2>4. Reloaded'
      BY <1>1, <2>1, <2>2, StillReloaded
    <2>5. QED  BY <2>3, <2>4 DEF ReloadInv
  <1>5. CASE UserPosts
    <2>1. /\ UNCHANGED <<vars, up, drops, toClient, shown, adopted, abandoned, loads>>
          /\ post' = "sent" /\ view' = Append(view, LateUser)
      BY <1>5 DEF UserPosts, linkVars, streamState
    <2>2. Replied' /\ Placed' /\ Heard'
      BY <1>1, <2>1, StillReplied, StillPlaced
    <2>3. \A m \in New : m \in ToSet(view') => m \in ToSet(view)
      <3>1. view \in Seq(Msgs) /\ LateUser \in Msgs /\ LateUser \notin New
        BY <1>1, MessageAssumption DEF ClientTypes, Msgs, Users
      <3>2. QED  BY <2>1, <3>1, AppendedSet
    <2>4. Reloaded'
      BY <1>1, <2>1, <2>3, StillReloaded DEF Left
    <2>5. QED  BY <2>2, <2>4 DEF ReloadInv
  <1>6. CASE Disconnect
    <2>1. UNCHANGED <<vars, loads>> /\ drops' = drops + 1 /\ toClient' = <<>> /\ up' = FALSE
      BY <1>6 DEF Disconnect
    <2>2. Replied' /\ Placed' /\ Heard'
      BY <1>1, <2>1, StillReplied, StillPlaced
    <2>3. QED  BY <2>1, <2>2 DEF ReloadInv, Reloaded
  <1>7. CASE Reconnect
    <2>1. /\ UNCHANGED <<vars, drops, toClient>>
          /\ loads' = [loads EXCEPT ![drops] = [stage |-> "asked"]]
      BY <1>7 DEF Reconnect
    <2>2. drops \in Loads /\ drops \in 1..drops
      BY <1>1, <1>7, DropsAssumption DEF Reconnect, Linked, ClientTypes, Loads
    <2>3. Replied' /\ Placed' /\ Heard'
      BY <1>1, <2>1, <2>2, LoadReplied, StillPlaced
    <2>4. Loading'
      BY <1>1, <1>7, ReconnectTyped
    <2>5. QED  BY <2>3, <2>4 DEF ReloadInv, Reloaded
  <1>8. ASSUME NEW i \in Loads, ServeGet(i) PROVE ReloadInv'
    <2>1. /\ UNCHANGED <<vars, drops, toClient>>
          /\ loads' = [loads EXCEPT ![i] = [stage |-> "replied", doc |-> doc]]
      BY <1>8 DEF ServeGet, linkVars
    <2>2. Loading' /\ i \in 1..drops
      BY <1>1, <1>8, ServeTyped DEF Replied
    <2>3. Replied' /\ Placed' /\ Heard'
      BY <1>1, <2>1, <2>2, LoadReplied, StillPlaced
    <2>4. QED  BY <2>2, <2>3 DEF ReloadInv, Reloaded
  <1>9. ASSUME NEW i \in Loads, Hydrate(i) PROVE ReloadInv'
    <2>1. UNCHANGED <<vars, toClient>>
      BY <1>9 DEF Hydrate
    <2>2. Replied' /\ Placed' /\ Heard' /\ Reloaded'
      BY <1>1, <1>9, <2>1, HydrateReloaded, StillPlaced
    <2>3. QED  BY <2>2 DEF ReloadInv
  <1>10. CASE UNCHANGED allVars
    <2>1. UNCHANGED <<vars, up, drops, toClient, view, shown, adopted, abandoned, loads, post>>
      BY <1>10 DEF allVars, clientVars
    <2>2. Replied' /\ Placed' /\ Heard' /\ Reloaded'
      BY <1>1, <2>1, StillReplied, StillPlaced, StillReloaded DEF Left
    <2>3. QED  BY <2>2 DEF ReloadInv
  <1>11. QED
    BY <1>2, <1>3, <1>4, <1>5, <1>6, <1>7, <1>8, <1>9, <1>10 DEF ClientNext, CoreSteps

\* So it holds of every reachable state, with the two others.
LEMMA ReloadInvariance == ClientSpec => [](IInv /\ ScreenInv /\ ReloadInv)
  <1>1. ClientInit => ReloadInv
    BY ReloadInit
  <1>2. IInv /\ ScreenInv /\ ReloadInv /\ [ClientNext]_allVars => ReloadInv'
    BY ReloadKept
  <1>3. QED  BY <1>1, <1>2, ScreenInvariance, PTL DEF ClientSpec

-----------------------------------------------------------------------------
(* What the client is promised                                             *)

\* When nothing is on its way.
LEMMA WhenSettled ==
  ASSUME IInv, ScreenInv, Settled, NEW m \in New
  PROVE  /\ shown[m] <= flushed[m]
         /\ Active /\ ~abandoned /\ m \in DOMAIN live => m \in ToSet(view) /\ shown[m] = flushed[m]
         /\ drops = 0 => shown[m] = flushed[m]
  <1>1. up /\ toClient = <<>> /\ toCore = <<>> /\ ~Loading
    BY DEF Settled
  <1>2. ~Coming(m) /\ ~Subscribing
    BY <1>1 DEF Coming, Subscribing
  <1>3. PICK v \in 0..MaxText : Watches(m, v)
    BY DEF ScreenInv, Watched
  <1>4. v = flushed[m]
    BY <1>1, <1>3, FlowEmpty DEF Watches
  <1>5. NotAhead(m, v) /\ OnScreen(m, v) /\ (drops = 0 => shown[m] = v)
    BY <1>3 DEF Watches
  <1>6. QED  BY <1>1, <1>2, <1>4, <1>5 DEF NotAhead, OnScreen, Attached

\* A turn that ended stored and announced all that it created.
LEMMA WhenEnded ==
  ASSUME IInv, Told, phase = "ended"
  PROVE  Begun /\ Known = Stored /\ created = Stored /\ flushed = text
  <1>1. ~Streaming /\ ~Appending /\ ~Calling /\ ~Busy /\ Begun
    BY DEF IInv, Stages, Streaming, Appending, Calling, Begun
  <1>2. created = Claimed /\ ~persisted
    BY <1>1 DEF IInv, InHand, Stages
  <1>3. /\ Announced \in Nat /\ created \in Nat /\ Claimed = Announced /\ Stored = Announced
    <2>1. Len(finalizing) \in Nat /\ ~(Len(finalizing) > 0)
      BY <1>1, Counts DEF IInv
    <2>2. QED  BY <1>2, <2>1, Counts DEF IInv
  <1>4. Known \in Announced..created
    BY DEF Told
  <1>5. flushed = text
    BY <1>1, AllFlushed DEF IInv
  <1>6. QED  BY <1>1, <1>2, <1>3, <1>4, <1>5

\* So the screen is the document once the turn is over.
LEMMA Converged ==
  ASSUME IInv, ScreenInv
  PROVE  drops = 0 => ViewConverges
  <1>1. SUFFICES ASSUME drops = 0, Settled, phase = "ended"
                 PROVE  view = doc /\ \A m \in New : shown[m] = text[m]
    BY DEF ViewConverges
  <1>2. Begun /\ Known = Stored /\ flushed = text
    BY <1>1, WhenEnded DEF ScreenInv
  <1>3. PICK p \in 1..2, k \in 0..MaxMessages : Shows(p, k)
    BY <1>1, <1>2 DEF ScreenInv, Held
  <1>4. Seated(p) /\ Arrives(<<>>, p, k, Known) /\ view = Spliced(ShownOthers, p, k)
    BY <1>1, <1>3 DEF Shows, Settled
  <1>5. k = Stored
    BY <1>2, <1>4, NoneArrives
  <1>6. ShownOthers = StoredOthers
    BY <1>1 DEF ShownOthers, StoredOthers, ScreenInv, ClientTypes, Settled
  <1>7. view = doc
    BY <1>4, <1>5, <1>6 DEF Seated
  <1>8. \A m \in New : shown[m] = flushed[m]
    BY <1>1, WhenSettled
  <1>9. QED  BY <1>2, <1>7, <1>8

\* Nothing is shown twice, though the document, the catch-up and the deltas around
\* them carry the same text: once nothing is on its way the client shows of a message
\* no more than was flushed (flushDeltas() of StreamMuxer, load() and resubscribe()).
THEOREM NothingTwice == ClientSpec => []NoTextTwice
  <1>1. IInv /\ ScreenInv => NoTextTwice
    <2>1. SUFFICES ASSUME IInv, ScreenInv, Settled, NEW m \in New PROVE shown[m] <= text[m]
      BY DEF NoTextTwice
    <2>2. shown[m] <= flushed[m]
      BY <2>1, WhenSettled
    <2>3. /\ shown[m] \in Nat /\ flushed[m] \in Nat /\ text[m] \in Nat /\ flushed[m] <= text[m]
      BY <2>1 DEF ScreenInv, ClientTypes, IInv, Types, Texts
    <2>4. QED  BY <2>2, <2>3
  <1>2. QED  BY <1>1, ScreenInvariance, PTL

\* A client that is attached again, and did not walk away, has the live bubbles on
\* screen, up to what was flushed (resubscribe(), applyServerMessage()).
THEOREM LiveTailIsShown == ClientSpec => []LiveTailShown
  <1>1. IInv /\ ScreenInv => LiveTailShown
    <2>1. SUFFICES ASSUME IInv, ScreenInv, Settled, Active, ~abandoned, NEW m \in DOMAIN live
                   PROVE  m \in ToSet(view) /\ shown[m] = flushed[m]
      BY DEF LiveTailShown
    <2>2. m \in New
      BY <2>1, LiveSegment DEF ScreenInv
    <2>3. QED  BY <2>1, <2>2, WhenSettled
  <1>2. QED  BY <1>1, ScreenInvariance, PTL

\* So is what a client that reloaded has on screen all that was produced of it, and all
\* of the document is, where the loads read what that is in the end.
LEMMA ConvergedReloaded ==
  ASSUME IInv, ScreenInv, ReloadInv, drops > 0
  PROVE  ConvergesUnlessStale
  <1>1. SUFFICES ASSUME Settled, phase = "ended"
                 PROVE  /\ \A m \in New : m \in ToSet(view) => shown[m] = text[m]
                        /\ (\A i \in 1..drops : loads[i].stage = "done" => loads[i].doc = doc)
                              => view = doc
    BY DEF ConvergesUnlessStale
  <1>2. up /\ toClient = <<>> /\ ~Loading /\ post # "sent"
    BY <1>1 DEF Settled
  <1>3. flushed = text /\ created = Stored /\ DOMAIN live = {}
    BY <1>1, WhenEnded, InvImplies DEF NothingLost, ScreenInv
  <1>4. ASSUME NEW m \in New, m \in ToSet(view) PROVE shown[m] = text[m]
    <2>1. Tracks(m) /\ ~Coming(m)
      BY <1>2, <1>4 DEF ReloadInv, Reloaded, Coming
    <2>2. QED  BY <1>1, <1>3, <2>1 DEF Tracks
  <1>5. ASSUME \A i \in 1..drops : loads[i].stage = "done" => loads[i].doc = doc
        PROVE  view = doc
    <2>1. PICK i \in 1..drops : loads[i].stage = "done" /\ Current(loads[i].doc)
      BY <1>2 DEF ReloadInv, Reloaded
    <2>2. Current(doc)
      BY <1>5, <2>1
    <2>3. QED  BY <1>2, <1>3, <2>2 DEF Current
  <1>6. QED  BY <1>4, <1>5

\* When a turn is over every message the client shows is there with all its text,
\* however often the connection dropped, and the transcript is the stored document, in
\* the same order: of a connection that held, whatever the user did meanwhile; of one
\* that dropped, when its loads read the document as it is in the end (TurnWriter keeps
\* the live order and the durable one the same; load() and resubscribe()).
THEOREM ConvergesWhenUpToDate == ClientSpec => []ConvergesUnlessStale
  <1>1. IInv /\ ScreenInv /\ ReloadInv => ConvergesUnlessStale
    <2>1. SUFFICES ASSUME IInv, ScreenInv, ReloadInv PROVE ConvergesUnlessStale
      OBVIOUS
    <2>2. CASE drops = 0
      <3>1. ViewConverges
        BY <2>1, <2>2, Converged
      <3>2. QED  BY <3>1 DEF ViewConverges, ConvergesUnlessStale
    <2>3. CASE drops > 0
      BY <2>1, <2>3, ConvergedReloaded
    <2>4. QED  BY <2>1, <2>2, <2>3 DEF ScreenInv, ClientTypes
  <1>2. QED  BY <1>1, ReloadInvariance, PTL

=============================================================================
