------------------------ MODULE SlotSchedulerProofs ------------------------
EXTENDS SlotScheduler, FiniteSetTheorems, SequenceTheorems, TLAPS

-----------------------------------------------------------------------------
(* Sequences without repetitions                                           *)

\* A sequence without its i-th element.
LEMMA RemoveAtElements ==
    ASSUME NEW S, NEW s \in Seq(S), NEW i \in 1..Len(s)
    PROVE  /\ RemoveAt(s, i) \in Seq(S)
           /\ Len(RemoveAt(s, i)) = Len(s) - 1
           /\ \A j \in 1..(Len(s) - 1) :
                 RemoveAt(s, i)[j] = IF j < i THEN s[j] ELSE s[j + 1]
<1> DEFINE front == SubSeq(s, 1, i - 1)
           back  == SubSeq(s, i + 1, Len(s))
<1>1. front \in Seq(S) /\ Len(front) = i - 1 /\ \A j \in 1..(i - 1) : front[j] = s[j]
  OBVIOUS
<1>2. /\ back \in Seq(S) /\ Len(back) = Len(s) - i
      /\ \A j \in 1..(Len(s) - i) : back[j] = s[i + j]
  OBVIOUS
<1> HIDE DEF front, back
<1>3. /\ front \o back \in Seq(S)
      /\ Len(front \o back) = Len(s) - 1
      /\ \A j \in 1..(Len(s) - 1) :
            (front \o back)[j] = IF j < i THEN s[j] ELSE s[j + 1]
  <2>1. /\ front \o back \in Seq(S)
        /\ Len(front \o back) = Len(s) - 1
        /\ \A j \in 1..(Len(s) - 1) :
              (front \o back)[j] = IF j <= i - 1 THEN front[j] ELSE back[j - (i - 1)]
    BY <1>1, <1>2, ConcatProperties
  <2>2. ASSUME NEW j \in 1..(Len(s) - 1), ~(j < i)
        PROVE  back[j - (i - 1)] = s[j + 1]
    <3>1. j - (i - 1) \in 1..(Len(s) - i) /\ i + (j - (i - 1)) = j + 1
      BY <2>2
    <3>2. QED
      BY <1>2, <3>1
  <2>3. QED
    BY <1>1, <2>1, <2>2
<1>4. QED
  BY <1>3 DEF RemoveAt, front, back

\* Without repetitions it loses that element and no other.
LEMMA RemoveAtOnce ==
    ASSUME NEW S, NEW s \in Seq(S), NEW i \in 1..Len(s), IsInjective(s)
    PROVE  /\ RemoveAt(s, i) \in Seq(S)
           /\ IsInjective(RemoveAt(s, i))
           /\ ToSet(RemoveAt(s, i)) = ToSet(s) \ {s[i]}
<1> DEFINE t == RemoveAt(s, i)
<1>1. /\ t \in Seq(S) /\ Len(t) = Len(s) - 1
      /\ \A j \in 1..(Len(s) - 1) : t[j] = IF j < i THEN s[j] ELSE s[j + 1]
  BY RemoveAtElements
<1> HIDE DEF t
<1>2. IsInjective(t)
  <2>1. SUFFICES ASSUME NEW a \in 1..(Len(s) - 1), NEW b \in 1..(Len(s) - 1), t[a] = t[b]
                 PROVE  a = b
    BY <1>1 DEF IsInjective
  <2>2. \A x, y \in 1..Len(s) : s[x] = s[y] => x = y
    BY DEF IsInjective
  <2>3. QED
    BY <1>1, <2>1, <2>2
<1>3. ToSet(t) \subseteq ToSet(s) \ {s[i]}
  BY <1>1 DEF IsInjective, ToSet
<1>4. ASSUME NEW x \in ToSet(s) \ {s[i]} PROVE x \in ToSet(t)
  <2>1. PICK k \in 1..Len(s) : s[k] = x /\ k # i
    BY DEF ToSet
  <2>2. CASE k < i
    BY <1>1, <2>1, <2>2 DEF ToSet
  <2>3. CASE k > i
    <3>1. k - 1 \in 1..(Len(s) - 1) /\ t[k - 1] = s[k]
      BY <1>1, <2>1, <2>3
    <3>2. QED
      BY <1>1, <2>1, <3>1 DEF ToSet
  <2>4. QED
    BY <2>1, <2>2, <2>3
<1>5. QED
  BY <1>1, <1>2, <1>3, <1>4 DEF t

\* Appending a new element keeps the sequence free of repetitions.
LEMMA AppendNew ==
    ASSUME NEW S, NEW s \in Seq(S), NEW e \in S, e \notin ToSet(s), IsInjective(s)
    PROVE  /\ Append(s, e) \in Seq(S)
           /\ IsInjective(Append(s, e))
           /\ ToSet(Append(s, e)) = ToSet(s) \cup {e}
           /\ Append(s, e) # <<>>
<1> DEFINE t == Append(s, e)
<1>1. /\ t \in Seq(S) /\ Len(t) = Len(s) + 1
      /\ \A j \in 1..Len(s) : t[j] = s[j]
      /\ t[Len(s) + 1] = e
  OBVIOUS
<1> HIDE DEF t
<1>2. IsInjective(t)
  BY <1>1 DEF IsInjective, ToSet
<1>3. ToSet(t) = ToSet(s) \cup {e}
  BY <1>1 DEF ToSet
<1>4. QED
  BY <1>1, <1>2, <1>3 DEF t

\* The tail of one loses its head.
LEMMA TailOnce ==
    ASSUME NEW S, NEW s \in Seq(S), s # <<>>, IsInjective(s)
    PROVE  /\ Head(s) \in ToSet(s)
           /\ Tail(s) \in Seq(S)
           /\ IsInjective(Tail(s))
           /\ ToSet(Tail(s)) = ToSet(s) \ {Head(s)}
           /\ Len(Tail(s)) = Len(s) - 1
<1> DEFINE t == Tail(s)
<1>1. /\ t \in Seq(S) /\ Len(t) = Len(s) - 1 /\ Len(s) \in Nat \ {0}
      /\ \A j \in 1..(Len(s) - 1) : t[j] = s[j + 1]
      /\ Head(s) = s[1]
  OBVIOUS
<1> HIDE DEF t
<1>2. IsInjective(t)
  <2>1. SUFFICES ASSUME NEW a \in 1..(Len(s) - 1), NEW b \in 1..(Len(s) - 1), t[a] = t[b]
                 PROVE  a = b
    BY <1>1 DEF IsInjective
  <2>2. \A x, y \in 1..Len(s) : s[x] = s[y] => x = y
    BY DEF IsInjective
  <2>3. QED
    BY <1>1, <2>1, <2>2
<1>3. ToSet(t) \subseteq ToSet(s) \ {Head(s)} /\ Head(s) \in ToSet(s)
  BY <1>1 DEF IsInjective, ToSet
<1>4. ASSUME NEW x \in ToSet(s) \ {Head(s)} PROVE x \in ToSet(t)
  <2>1. PICK k \in 1..Len(s) : s[k] = x /\ k # 1
    BY <1>1 DEF ToSet
  <2>2. k - 1 \in 1..(Len(s) - 1) /\ t[k - 1] = s[k]
    BY <1>1, <2>1
  <2>3. QED
    BY <1>1, <2>1, <2>2 DEF ToSet
<1>5. QED
  BY <1>1, <1>2, <1>3, <1>4 DEF t

\* A sequence of one element.
LEMMA SingletonSequence ==
    ASSUME NEW S, NEW e \in S
    PROVE  /\ <<e>> \in Seq(S) /\ <<e>> # <<>>
           /\ IsInjective(<<e>>) /\ ToSet(<<e>>) = {e}
  BY DEF IsInjective, ToSet

\* A sequence of length one holds its head and nothing else.
LEMMA LengthOne ==
    ASSUME NEW S, NEW s \in Seq(S), Len(s) = 1
    PROVE  ToSet(s) = {Head(s)}
  BY DEF ToSet

\* A sequence over S without elements is the empty one.
LEMMA EmptySequence ==
    ASSUME NEW S, NEW s \in Seq(S)
    PROVE  /\ s = <<>> <=> ToSet(s) = {}
           /\ s = <<>> <=> Len(s) = 0
  BY DEF ToSet

-----------------------------------------------------------------------------
(* The inductive invariant                                                 *)

IInv ==
    /\ TypeOK
    /\ SlotsAccounted
    /\ IsFiniteSet(In("active"))
    /\ NoIdleSlot
    /\ RotationConsistent
    /\ GrantsFaithful

QueueTypes ==
    /\ DOMAIN localQueueByClient \subseteq Clients
    /\ \A c \in DOMAIN localQueueByClient : localQueueByClient[c] \in Seq(Requests)
    /\ clientOrder \in Seq(Clients)

\* What removeQueuedGrant and dispatch have in common: the grant of h leaves
\* its client's queue, and an emptied queue leaves the Map and the rotation.
LEMMA Dequeue ==
    ASSUME IInv, NEW h \in In("queued"),
           NEW k \in 1..Len(clientOrder), clientOrder[k] = ClientOf[h],
           In("queued")' = In("queued") \ {h},
           \/ /\ ToSet(localQueueByClient[ClientOf[h]]) = {h}
              /\ localQueueByClient' = WithoutQueue(ClientOf[h])
              /\ clientOrder' = RemoveAt(clientOrder, k)
           \/ /\ \E t \in Seq(Requests) :
                    /\ t # <<>>
                    /\ IsInjective(t)
                    /\ ToSet(t) = ToSet(localQueueByClient[ClientOf[h]]) \ {h}
                    /\ localQueueByClient' = WithQueue(ClientOf[h], t)
              /\ UNCHANGED clientOrder
    PROVE  QueueTypes' /\ RotationConsistent' /\ GrantsFaithful'
<1> DEFINE c == ClientOf[h]
<1>1. /\ h \in Requests /\ c \in Clients
      /\ c \in DOMAIN localQueueByClient
      /\ clientOrder \in Seq(Clients)
      /\ h \in ToSet(localQueueByClient[c])
  BY ClientsAssumption DEF IInv, GrantsFaithful, In, TypeOK
<1>2. CASE /\ ToSet(localQueueByClient[c]) = {h}
           /\ localQueueByClient' = WithoutQueue(c)
           /\ clientOrder' = RemoveAt(clientOrder, k)
  <2>1. /\ clientOrder' \in Seq(Clients)
        /\ IsInjective(clientOrder')
        /\ ToSet(clientOrder') = ToSet(clientOrder) \ {c}
    BY <1>1, <1>2, RemoveAtOnce DEF IInv, RotationConsistent
  <2>2. /\ DOMAIN localQueueByClient' = DOMAIN localQueueByClient \ {c}
        /\ \A d \in DOMAIN localQueueByClient' : localQueueByClient'[d] = localQueueByClient[d]
    BY <1>2 DEF WithoutQueue
  <2>3. QueueTypes'
    BY <2>1, <2>2 DEF IInv, TypeOK, QueueTypes
  <2>4. RotationConsistent'
    BY <2>1, <2>2 DEF IInv, RotationConsistent
  <2>5. \A d \in DOMAIN localQueueByClient' :
           {r \in In("queued")' : ClientOf[r] = d} = {r \in In("queued") : ClientOf[r] = d}
    BY <2>2
  <2>6. \A r \in In("queued")' : ClientOf[r] # c
    BY <1>1, <1>2 DEF IInv, GrantsFaithful
  <2>7. GrantsFaithful'
    BY <2>2, <2>5, <2>6 DEF IInv, GrantsFaithful
  <2>8. QED
    BY <2>3, <2>4, <2>7
<1>3. CASE /\ \E t \in Seq(Requests) :
                 /\ t # <<>>
                 /\ IsInjective(t)
                 /\ ToSet(t) = ToSet(localQueueByClient[c]) \ {h}
                 /\ localQueueByClient' = WithQueue(c, t)
           /\ UNCHANGED clientOrder
  <2>1. PICK t \in Seq(Requests) :
           /\ t # <<>>
           /\ IsInjective(t)
           /\ ToSet(t) = ToSet(localQueueByClient[c]) \ {h}
           /\ localQueueByClient' = WithQueue(c, t)
    BY <1>3
  <2>2. /\ DOMAIN localQueueByClient' = DOMAIN localQueueByClient
        /\ localQueueByClient'[c] = t
        /\ \A d \in DOMAIN localQueueByClient \ {c} :
              localQueueByClient'[d] = localQueueByClient[d]
    BY <1>1, <2>1 DEF WithQueue
  <2>3. QueueTypes'
    BY <1>1, <1>3, <2>2 DEF IInv, TypeOK, QueueTypes
  <2>4. RotationConsistent'
    BY <1>3, <2>1, <2>2 DEF IInv, RotationConsistent
  <2>5. \A d \in DOMAIN localQueueByClient \ {c} :
           {r \in In("queued")' : ClientOf[r] = d} = {r \in In("queued") : ClientOf[r] = d}
    BY <2>2
  <2>6. {r \in In("queued")' : ClientOf[r] = c} = {r \in In("queued") : ClientOf[r] = c} \ {h}
    OBVIOUS
  <2>7. GrantsFaithful'
    BY <1>1, <2>1, <2>2, <2>5, <2>6 DEF IInv, GrantsFaithful
  <2>8. QED
    BY <2>3, <2>4, <2>7
<1>4. QED
  BY <1>2, <1>3

-----------------------------------------------------------------------------
(* One lemma per action (Refuse and RejectAborted, Complete and Watchdog,  *)
(* and the rest change the queues alike).                                  *)

\* A request that enters phase p leaves the set of its old phase.
LEMMA EnterMoves ==
    ASSUME TypeOK, NEW r \in Requests, NEW p \in Phase, Enter(r, p)
    PROVE  /\ phase' \in [Requests -> Phase]
           /\ \A x \in Phase : In(x)' = IF x = p THEN In(x) \cup {r} ELSE In(x) \ {r}
  BY DEF TypeOK, Enter, In

\* A step that leaves queues and slots alone.
LEMMA QuietStep ==
    ASSUME IInv, NEW r \in Requests,
           phase' \in [Requests -> Phase],
           In("queued")' = In("queued"), In("active")' = In("active"),
           wedged' \subseteq In("active"),
           UNCHANGED <<localActive, queueVars>>
    PROVE  IInv'
<1> USE DEF queueVars
<1>1. TypeOK'
  BY DEF IInv, TypeOK
<1>2. SlotsAccounted' /\ IsFiniteSet(In("active"))' /\ NoIdleSlot'
  BY DEF IInv, SlotsAccounted, NoIdleSlot
<1>3. RotationConsistent'
  BY DEF IInv, RotationConsistent
<1>4. GrantsFaithful'
  BY DEF IInv, GrantsFaithful
<1>5. QED
  BY <1>1, <1>2, <1>3, <1>4 DEF IInv

\* A request that takes a free slot keeps the invariant: nobody was queued.
LEMMA TakeSlotStep ==
    ASSUME IInv, NEW r \in Requests, TakeSlot(r)
    PROVE  /\ IInv'
           /\ In("queued") = {} /\ In("queued")' = {}
           /\ In("active")' = In("active") \cup {r}
           /\ r \notin In("active")
<1> USE DEF TakeSlot, queueVars
<1>1. /\ phase' \in [Requests -> Phase]
      /\ In("queued")' = In("queued")
      /\ In("active")' = In("active") \cup {r}
      /\ r \notin In("active")
  BY EnterMoves DEF IInv, Phase, In
<1>2. In("queued") = {}
  BY SlotsAssumption DEF IInv, NoIdleSlot
<1>3. TypeOK'
  BY <1>1 DEF IInv, TypeOK
<1>4. SlotsAccounted' /\ IsFiniteSet(In("active"))'
  BY <1>1, FS_AddElement, SlotsAssumption DEF IInv, TypeOK, SlotsAccounted
<1>5. NoIdleSlot' /\ RotationConsistent' /\ GrantsFaithful'
  BY <1>1, <1>2 DEF IInv, NoIdleSlot, RotationConsistent, GrantsFaithful
<1>6. QED
  BY <1>1, <1>2, <1>3, <1>4, <1>5 DEF IInv

\* A request that queues while every slot is taken keeps the invariant: its
\* client enters Map and rotation together.
LEMMA EnqueueStep ==
    ASSUME IInv, NEW r \in Requests, Enqueue(r)
    PROVE  /\ IInv'
           /\ In("queued")' = In("queued") \cup {r}
           /\ In("active")' = In("active")
           /\ r \notin In("queued") \cup In("active")
           /\ Cardinality(In("active")) = Slots
<1> DEFINE c == ClientOf[r]
<1>1. /\ phase' \in [Requests -> Phase]
      /\ In("queued")' = In("queued") \cup {r}
      /\ In("active")' = In("active")
      /\ r \notin In("queued") \cup In("active")
  BY EnterMoves DEF IInv, Phase, In, Enqueue
<1>2. localActive = Slots /\ Cardinality(In("active")) = Slots
  BY SlotsAssumption DEF IInv, TypeOK, SlotsAccounted, Enqueue
<1>3. /\ c \in Clients
      /\ {x \in In("queued")' : ClientOf[x] = c} = {x \in In("queued") : ClientOf[x] = c} \cup {r}
      /\ \A d \in Clients \ {c} :
            {x \in In("queued")' : ClientOf[x] = d} = {x \in In("queued") : ClientOf[x] = d}
  BY <1>1, ClientsAssumption
<1>4. QueueTypes' /\ RotationConsistent' /\ GrantsFaithful'
  <2>1. CASE /\ c \in DOMAIN localQueueByClient
             /\ localQueueByClient' = WithQueue(c, Append(localQueueByClient[c], r))
             /\ UNCHANGED clientOrder
    <3> DEFINE q == Append(localQueueByClient[c], r)
    <3>1. /\ q \in Seq(Requests) /\ q # <<>> /\ IsInjective(q)
          /\ ToSet(q) = ToSet(localQueueByClient[c]) \cup {r}
      <4>1. r \notin ToSet(localQueueByClient[c])
        BY <1>1, <2>1 DEF IInv, GrantsFaithful
      <4>2. localQueueByClient[c] \in Seq(Requests) /\ IsInjective(localQueueByClient[c])
        BY <2>1 DEF IInv, TypeOK, GrantsFaithful
      <4>3. QED
        BY <4>1, <4>2, AppendNew
    <3> HIDE DEF q
    <3>2. /\ DOMAIN localQueueByClient' = DOMAIN localQueueByClient
          /\ localQueueByClient'[c] = q
          /\ \A d \in DOMAIN localQueueByClient \ {c} :
                localQueueByClient'[d] = localQueueByClient[d]
      BY <2>1 DEF WithQueue, q
    <3>3. QueueTypes'
      BY <2>1, <3>1, <3>2 DEF IInv, TypeOK, QueueTypes
    <3>4. RotationConsistent'
      BY <2>1, <3>1, <3>2 DEF IInv, RotationConsistent
    <3>5. GrantsFaithful'
      <4>1. /\ IsInjective(localQueueByClient'[c])
            /\ ToSet(localQueueByClient'[c]) = {x \in In("queued")' : ClientOf[x] = c}
        BY <1>3, <2>1, <3>1, <3>2 DEF IInv, GrantsFaithful
      <4>2. \A d \in DOMAIN localQueueByClient \ {c} :
               /\ IsInjective(localQueueByClient'[d])
               /\ ToSet(localQueueByClient'[d]) = {x \in In("queued")' : ClientOf[x] = d}
        BY <1>3, <3>2 DEF IInv, TypeOK, GrantsFaithful
      <4>3. \A x \in In("queued")' : ClientOf[x] \in DOMAIN localQueueByClient'
        BY <1>1, <2>1, <3>2 DEF IInv, GrantsFaithful
      <4>4. QED
        BY <3>2, <4>1, <4>2, <4>3 DEF GrantsFaithful
    <3>6. QED
      BY <3>3, <3>4, <3>5
  <2>2. CASE /\ c \notin DOMAIN localQueueByClient
             /\ localQueueByClient' = WithQueue(c, <<r>>)
             /\ clientOrder' = Append(clientOrder, c)
    <3>1. <<r>> \in Seq(Requests) /\ <<r>> # <<>> /\ IsInjective(<<r>>) /\ ToSet(<<r>>) = {r}
      BY SingletonSequence
    <3>2. /\ clientOrder' \in Seq(Clients) /\ IsInjective(clientOrder')
          /\ ToSet(clientOrder') = ToSet(clientOrder) \cup {c}
      <4>1. clientOrder \in Seq(Clients) /\ IsInjective(clientOrder) /\ c \notin ToSet(clientOrder)
        BY <2>2 DEF IInv, TypeOK, RotationConsistent
      <4>2. QED
        BY <1>3, <2>2, <4>1, AppendNew
    <3>3. /\ DOMAIN localQueueByClient' = DOMAIN localQueueByClient \cup {c}
          /\ localQueueByClient'[c] = <<r>>
          /\ \A d \in DOMAIN localQueueByClient :
                d # c /\ localQueueByClient'[d] = localQueueByClient[d]
      BY <2>2 DEF WithQueue
    <3>4. QueueTypes'
      BY <1>3, <3>1, <3>2, <3>3 DEF IInv, TypeOK, QueueTypes
    <3>5. RotationConsistent'
      BY <3>1, <3>2, <3>3 DEF IInv, RotationConsistent
    <3>6. {x \in In("queued") : ClientOf[x] = c} = {}
      BY <2>2 DEF IInv, GrantsFaithful
    <3>7. GrantsFaithful'
      BY <1>1, <1>3, <3>1, <3>3, <3>6 DEF IInv, TypeOK, GrantsFaithful
    <3>8. QED
      BY <3>4, <3>5, <3>7
  <2>3. QED
    BY <2>1, <2>2 DEF Enqueue
<1>5. TypeOK'
  BY <1>1, <1>4 DEF IInv, TypeOK, QueueTypes, Enqueue
<1>6. SlotsAccounted' /\ IsFiniteSet(In("active"))' /\ NoIdleSlot'
  BY <1>1, <1>2 DEF IInv, SlotsAccounted, NoIdleSlot, Enqueue
<1>7. QED
  BY <1>1, <1>2, <1>4, <1>5, <1>6 DEF IInv

\* An aborted request leaves its queue, and with the last one its client leaves
\* Map and rotation together.
LEMMA AbortQueuedStep ==
    ASSUME IInv, NEW r \in Requests, AbortQueued(r)
    PROVE  /\ IInv'
           /\ In("queued")' = In("queued") \ {r}
           /\ In("active")' = In("active")
           /\ r \in In("queued")
<1> DEFINE c == ClientOf[r]
           q == localQueueByClient[c]
<1>1. /\ phase' \in [Requests -> Phase]
      /\ In("queued")' = In("queued") \ {r}
      /\ In("active")' = In("active")
      /\ r \in In("queued")
  BY EnterMoves DEF IInv, Phase, In, AbortQueued
<1>2. /\ c \in DOMAIN localQueueByClient
      /\ q \in Seq(Requests) /\ IsInjective(q)
      /\ clientOrder \in Seq(Clients)
      /\ c \in ToSet(clientOrder)
  BY <1>1 DEF IInv, TypeOK, RotationConsistent, GrantsFaithful
<1>3. PICK i \in 1..Len(q) :
         /\ q[i] = r
         /\ \/ /\ Len(q) > 1
               /\ localQueueByClient' = WithQueue(c, RemoveAt(q, i))
               /\ UNCHANGED <<clientOrder, nextClientIdx>>
            \/ /\ Len(q) = 1
               /\ localQueueByClient' = WithoutQueue(c)
               /\ \E k \in 1..Len(clientOrder) :
                     /\ clientOrder[k] = c
                     /\ clientOrder' = RemoveAt(clientOrder, k)
                     /\ nextClientIdx' = IF nextClientIdx > k - 1
                                         THEN nextClientIdx - 1 ELSE nextClientIdx
  BY DEF AbortQueued, RemoveQueuedGrant
<1>4. QueueTypes' /\ RotationConsistent' /\ GrantsFaithful'
  <2>1. CASE /\ Len(q) > 1
             /\ localQueueByClient' = WithQueue(c, RemoveAt(q, i))
             /\ UNCHANGED <<clientOrder, nextClientIdx>>
    <3> DEFINE t == RemoveAt(q, i)
    <3>1. t \in Seq(Requests) /\ IsInjective(t) /\ ToSet(t) = ToSet(q) \ {r} /\ t # <<>>
      <4>1. t \in Seq(Requests) /\ IsInjective(t) /\ ToSet(t) = ToSet(q) \ {q[i]}
        BY <1>2, RemoveAtOnce
      <4>2. Len(t) = Len(q) - 1
        BY <1>2, RemoveAtElements
      <4>3. QED
        BY <1>2, <1>3, <2>1, <4>1, <4>2, EmptySequence
    <3>2. PICK k \in 1..Len(clientOrder) : clientOrder[k] = c
      BY <1>2 DEF ToSet
    <3> HIDE DEF t
    <3>3. \E u \in Seq(Requests) : /\ u # <<>>
                                   /\ IsInjective(u)
                                   /\ ToSet(u) = ToSet(q) \ {r}
                                   /\ localQueueByClient' = WithQueue(c, u)
      BY <2>1, <3>1 DEF t
    <3>4. QED
      BY <1>1, <2>1, <3>2, <3>3, Dequeue
  <2>2. CASE /\ Len(q) = 1
             /\ localQueueByClient' = WithoutQueue(c)
             /\ \E k \in 1..Len(clientOrder) :
                   /\ clientOrder[k] = c
                   /\ clientOrder' = RemoveAt(clientOrder, k)
    <3>1. ToSet(q) = {r}
      BY <1>2, <1>3, <2>2, LengthOne DEF ToSet
    <3>2. QED
      BY <1>1, <2>2, <3>1, Dequeue
  <2>3. QED
    BY <1>3, <2>1, <2>2
<1>5. nextClientIdx' \in Nat
  BY <1>2, <1>3 DEF IInv, TypeOK
<1>6. TypeOK'
  BY <1>1, <1>4, <1>5 DEF IInv, TypeOK, QueueTypes, AbortQueued
<1>7. SlotsAccounted' /\ IsFiniteSet(In("active"))' /\ NoIdleSlot'
  BY <1>1 DEF IInv, SlotsAccounted, NoIdleSlot, AbortQueued
<1>8. QED
  BY <1>1, <1>4, <1>6, <1>7 DEF IInv

\* A freed slot is taken by the head of the next queue, or nobody is queued.
LEMMA ReleaseStep ==
    ASSUME IInv, NEW r \in In("active"), wedged' = wedged \ {r}, ReleaseLocal(r)
    PROVE  /\ IInv'
           /\ \/ /\ In("queued") = {}
                 /\ In("active")' = In("active") \ {r}
                 /\ In("queued")' = In("queued")
              \/ \E s \in In("queued") :
                    /\ In("active")' = (In("active") \ {r}) \cup {s}
                    /\ In("queued")' = In("queued") \ {s}
<1>1. CASE /\ \E k \in 1..Len(clientOrder) : IsNextPosition(k) /\ Grant(r, k)
           /\ UNCHANGED localActive
  <2>1. PICK k \in 1..Len(clientOrder) : HasWork(k) /\ Grant(r, k)
    BY <1>1 DEF IsNextPosition
  <2> DEFINE c == clientOrder[k]
             q == localQueueByClient[c]
             h == Head(q)
  <2>2. /\ clientOrder \in Seq(Clients)
        /\ c \in DOMAIN localQueueByClient
        /\ q \in Seq(Requests) /\ q # <<>> /\ IsInjective(q)
    BY <2>1 DEF HasWork, IInv, TypeOK, GrantsFaithful
  <2>3. h \in In("queued") /\ ClientOf[h] = c
    BY <2>2, TailOnce DEF IInv, GrantsFaithful
  <2>4. /\ phase' \in [Requests -> Phase]
        /\ In("queued")' = In("queued") \ {h}
        /\ In("active")' = (In("active") \ {r}) \cup {h}
    <3>1. /\ phase' = [phase EXCEPT ![r] = "done", ![h] = "active"]
          /\ phase \in [Requests -> Phase]
      BY <2>1 DEF Grant, IInv, TypeOK
    <3>2. r \in Requests /\ phase[r] = "active" /\ h \in Requests /\ phase[h] = "queued"
      BY <2>3 DEF In
    <3> HIDE DEF h
    <3>3. phase' = [x \in Requests |-> IF x = h THEN "active"
                                       ELSE IF x = r THEN "done" ELSE phase[x]]
      BY <3>1, <3>2
    <3>4. QED
      BY <3>1, <3>2, <3>3 DEF In, Phase
  <2>5. QueueTypes' /\ RotationConsistent' /\ GrantsFaithful' /\ nextClientIdx' \in Nat
    <3>1. CASE /\ Len(q) = 1
               /\ localQueueByClient' = WithoutQueue(c)
               /\ clientOrder' = RemoveAt(clientOrder, k)
               /\ nextClientIdx' = k - 1
      <4>1. ToSet(q) = {h}
        BY <2>2, <3>1, LengthOne
      <4>2. QED
        BY <2>3, <2>4, <3>1, <4>1, Dequeue
    <3>2. CASE /\ Len(q) > 1
               /\ localQueueByClient' = WithQueue(c, Tail(q))
               /\ nextClientIdx' = k
               /\ UNCHANGED clientOrder
      <4>1. /\ Tail(q) \in Seq(Requests) /\ IsInjective(Tail(q))
            /\ ToSet(Tail(q)) = ToSet(q) \ {h}
            /\ Tail(q) # <<>>
        <5> DEFINE t == Tail(q)
        <5>1. t \in Seq(Requests) /\ IsInjective(t) /\ ToSet(t) = ToSet(q) \ {h}
          BY <2>2, TailOnce
        <5>2. Len(t) = Len(q) - 1
          BY <2>2, TailOnce
        <5> HIDE DEF t
        <5>3. t # <<>>
          BY <3>2, <5>1, <5>2, EmptySequence
        <5>4. QED
          BY <5>1, <5>3 DEF t
      <4>2. \E t \in Seq(Requests) : /\ t # <<>>
                                     /\ IsInjective(t)
                                     /\ ToSet(t) = ToSet(q) \ {h}
                                     /\ localQueueByClient' = WithQueue(c, t)
        BY <3>2, <4>1
      <4>3. QED
        BY <2>3, <2>4, <3>2, <4>2, Dequeue
    <3>3. QED
      BY <2>1, <3>1, <3>2 DEF Grant
  <2>6. IsFiniteSet(In("active"))' /\ SlotsAccounted'
    <3>1. h \notin In("active") \ {r}
      BY <2>3 DEF In
    <3>2. /\ IsFiniteSet(In("active") \ {r})
          /\ Cardinality(In("active") \ {r}) = Cardinality(In("active")) - 1
          /\ Cardinality(In("active")) \in Nat
      BY FS_RemoveElement, FS_CardinalityType DEF IInv
    <3> DEFINE rest == In("active") \ {r}
    <3> HIDE DEF h, rest
    <3>3. IsFiniteSet(rest \cup {h}) /\ Cardinality(rest \cup {h}) = Cardinality(rest) + 1
      BY <3>1, <3>2, FS_AddElement DEF rest
    <3>4. Cardinality(rest \cup {h}) = Cardinality(In("active"))
      BY <3>2, <3>3 DEF rest
    <3>5. QED
      BY <1>1, <2>4, <3>3, <3>4 DEF rest, IInv, SlotsAccounted
  <2>7. NoIdleSlot'
    BY <1>1, <2>3 DEF IInv, NoIdleSlot
  <2>8. TypeOK'
    BY <1>1, <2>4, <2>5 DEF IInv, TypeOK, QueueTypes
  <2>9. QED
    BY <2>3, <2>4, <2>5, <2>6, <2>7, <2>8 DEF IInv
<1>2. CASE /\ \/ localActive - 1 >= Slots
              \/ \A k \in 1..Len(clientOrder) : ~HasWork(k)
           /\ localActive' = localActive - 1
           /\ Enter(r, "done")
           /\ UNCHANGED queueVars
  <2>1. /\ r \in Requests
        /\ phase' \in [Requests -> Phase]
        /\ In("queued")' = In("queued")
        /\ In("active")' = In("active") \ {r}
    BY <1>2, EnterMoves DEF IInv, Phase, In
  <2>2. \A k \in 1..Len(clientOrder) : HasWork(k)
    BY DEF HasWork, IInv, RotationConsistent, ToSet, TypeOK
  <2>3. ~(localActive - 1 >= Slots)
    BY SlotsAssumption DEF IInv, TypeOK, SlotsAccounted
  <2>4. ToSet(clientOrder) = {}
    BY <1>2, <2>2, <2>3 DEF ToSet, IInv, TypeOK
  <2>5. In("queued") = {}
    BY <2>4 DEF IInv, RotationConsistent, GrantsFaithful
  <2>6. IsFiniteSet(In("active"))' /\ SlotsAccounted'
    BY <1>2, <2>1, FS_RemoveElement, FS_CardinalityType, SlotsAssumption
      DEF IInv, SlotsAccounted, TypeOK
  <2>7. TypeOK'
    BY <1>2, <2>1 DEF IInv, TypeOK, queueVars
  <2>8. NoIdleSlot' /\ RotationConsistent' /\ GrantsFaithful'
    BY <1>2, <2>1, <2>5 DEF IInv, NoIdleSlot, RotationConsistent, GrantsFaithful, queueVars
  <2>9. QED
    BY <2>1, <2>5, <2>6, <2>7, <2>8 DEF IInv
<1>3. QED
  BY <1>1, <1>2 DEF ReleaseLocal

-----------------------------------------------------------------------------
(* The theorems                                                            *)

\* The scheduler starts in the invariant.
LEMMA InitInvariant == Init => IInv
<1> SUFFICES ASSUME Init PROVE IInv
  OBVIOUS
<1> USE DEF Init
<1>1. In("queued") = {} /\ In("active") = {}
  BY DEF In
<1>2. TypeOK
  BY <1>1 DEF TypeOK, Phase
<1>3. SlotsAccounted /\ IsFiniteSet(In("active"))
  BY <1>1, FS_EmptySet, SlotsAssumption DEF SlotsAccounted
<1>4. NoIdleSlot /\ RotationConsistent /\ GrantsFaithful
  BY <1>1 DEF NoIdleSlot, RotationConsistent, GrantsFaithful, IsInjective, ToSet
<1>5. QED
  BY <1>2, <1>3, <1>4 DEF IInv

\* SlotPool counts with the same operator.
LEMMA SameCardinality == \A S : Pool!Cardinality(S) = Cardinality(S)
  BY DEF Pool!Cardinality, Cardinality

\* What every step does to the slot pool, and that it keeps the invariant.
LEMMA StepInvariant ==
    ASSUME IInv, Next
    PROVE  IInv' /\ (Pool!Next \/ UNCHANGED Pool!vars)
<1> USE DEF Pool!vars
<1>1. PICK r \in Requests : Step(r)
  BY DEF Next
<1>2. CASE Refuse(r) \/ RejectAborted(r) \/ Wedge(r) \/ AskAgain(r)
  <2>1. /\ phase' \in [Requests -> Phase]
        /\ In("queued")' = In("queued") /\ In("active")' = In("active")
        /\ wedged' \subseteq In("active")
        /\ UNCHANGED <<localActive, queueVars>>
    <3>1. CASE Refuse(r) \/ RejectAborted(r)
      BY <3>1, EnterMoves DEF IInv, TypeOK, Refuse, RejectAborted, Phase, In
    <3>2. CASE Wedge(r)
      BY <3>2 DEF IInv, TypeOK, Wedge, In
    <3>3. CASE AskAgain(r)
      BY <3>3, EnterMoves DEF IInv, TypeOK, AskAgain, Phase, In
    <3>4. QED
      BY <1>2, <3>1, <3>2, <3>3
  <2>2. QED
    BY <2>1, QuietStep
<1>3. CASE TakeSlot(r)
  <2>1. Pool!Start(r)
    BY <1>3, TakeSlotStep, SameCardinality DEF Pool!Start, IInv, SlotsAccounted, TakeSlot
  <2>2. IInv'
    BY <1>3, TakeSlotStep
  <2>3. QED
    BY <2>1, <2>2 DEF Pool!Next
<1>4. CASE Enqueue(r)
  <2>1. Pool!Wait(r)
    BY <1>4, EnqueueStep, SameCardinality DEF Pool!Wait
  <2>2. IInv'
    BY <1>4, EnqueueStep
  <2>3. QED
    BY <2>1, <2>2 DEF Pool!Next
<1>5. CASE AbortQueued(r)
  <2>1. Pool!GiveUp(r)
    BY <1>5, AbortQueuedStep DEF Pool!GiveUp
  <2>2. IInv'
    BY <1>5, AbortQueuedStep
  <2>3. QED
    BY <2>1, <2>2 DEF Pool!Next
<1>6. CASE Complete(r) \/ Watchdog(r)
  <2>1. r \in In("active") /\ wedged' = wedged \ {r} /\ ReleaseLocal(r)
    BY <1>6 DEF Complete, Watchdog, In
  <2>2. IInv'
    BY <2>1, ReleaseStep
  <2>3. Pool!Leave(r)
    BY <2>1, ReleaseStep DEF Pool!Leave
  <2>4. QED
    BY <2>2, <2>3 DEF Pool!Next
<1>7. QED
  BY <1>1, <1>2, <1>3, <1>4, <1>5, <1>6 DEF Step

\* The invariant holds in every reachable state.
LEMMA Invariance == Spec => []IInv
<1>1. IInv /\ [Next]_vars => IInv'
  <2> SUFFICES ASSUME IInv, [Next]_vars PROVE IInv'
    OBVIOUS
  <2>1. CASE Next
    BY <2>1, StepInvariant
  <2>2. CASE UNCHANGED vars
    <3>1. In("active")' = In("active") /\ In("queued")' = In("queued")
      BY <2>2 DEF vars, In
    <3>2. TypeOK'
      BY <2>2, <3>1 DEF IInv, TypeOK, vars
    <3>3. SlotsAccounted' /\ IsFiniteSet(In("active"))' /\ NoIdleSlot'
      BY <2>2, <3>1 DEF IInv, SlotsAccounted, NoIdleSlot, vars
    <3>4. RotationConsistent' /\ GrantsFaithful'
      BY <2>2, <3>1 DEF IInv, RotationConsistent, GrantsFaithful, vars
    <3>5. QED
      BY <3>2, <3>3, <3>4 DEF IInv
  <2>3. QED
    BY <2>1, <2>2
<1>2. QED
  BY InitInvariant, <1>1, PTL DEF Spec

\* The variables of LlmScheduler keep their types.
THEOREM TypeCorrect == Spec => []TypeOK
<1>1. IInv => TypeOK
  BY DEF IInv
<1>2. QED
  BY Invariance, <1>1, PTL

\* localActive is the number of completions that hold a slot and never exceeds
\* parallelSlots, for any number of clients, requests and slots.
THEOREM SlotsNeverExceeded == Spec => []SlotsAccounted
<1>1. IInv => SlotsAccounted
  BY DEF IInv
<1>2. QED
  BY Invariance, <1>1, PTL

\* A request queues only while every slot is taken: releaseLocal loses no wakeup.
THEOREM WorkConserving == Spec => []NoIdleSlot
<1>1. IInv => NoIdleSlot
  BY DEF IInv
<1>2. QED
  BY Invariance, <1>1, PTL

\* The Map, its queues and the rotation agree with each other, and hold the
\* grant of every queued request and no other.
THEOREM QueuesConsistent == Spec => [](RotationConsistent /\ GrantsFaithful)
<1>1. IInv => RotationConsistent /\ GrantsFaithful
  BY DEF IInv
<1>2. QED
  BY Invariance, <1>1, PTL

\* The scheduler implements the slot pool: whatever the rotation does, a slot
\* given up passes to a waiting request in the same step when there is one.
THEOREM Refinement == Spec => ImplementsPool
<1>1. Init => Pool!Init
  BY DEF Init, Pool!Init, In
<1>2. IInv /\ [Next]_vars => [Pool!Next]_(Pool!vars)
  <2> SUFFICES ASSUME IInv, [Next]_vars PROVE [Pool!Next]_(Pool!vars)
    OBVIOUS
  <2>1. CASE Next
    BY <2>1, StepInvariant
  <2>2. CASE UNCHANGED vars
    BY <2>2 DEF vars, In, Pool!vars
  <2>3. QED
    BY <2>1, <2>2
<1>3. QED
  BY Invariance, <1>1, <1>2, PTL DEF Spec, ImplementsPool, Pool!Spec

\* A request that was refused or aborted is not given a slot afterwards.
THEOREM NoGrantAfterEnd == Spec => EndedStaysEnded
<1>1. IInv /\ [Next]_vars => (\A r \in Requests : phase[r] = "done" => phase'[r] # "active")
  <2> SUFFICES ASSUME IInv, [Next]_vars, NEW r \in Requests, phase[r] = "done"
               PROVE  phase'[r] # "active"
    OBVIOUS
  <2>1. CASE Next
    <3>1. r \notin In("queued") \cup In("active")
      BY DEF In
    <3>2. r \notin In("active")'
      <4>1. PICK s \in Requests : Step(s)
        BY <2>1 DEF Next
      <4>2. CASE TakeSlot(s)
        BY <3>1, <4>2, TakeSlotStep DEF TakeSlot, In
      <4>3. CASE Refuse(s) \/ RejectAborted(s) \/ Wedge(s) \/ AskAgain(s)
        <5>1. In("active")' \subseteq In("active")
          BY <4>3, EnterMoves DEF IInv, Refuse, RejectAborted, Wedge, AskAgain, Phase, In
        <5>2. QED
          BY <3>1, <5>1
      <4>4. CASE Enqueue(s)
        BY <3>1, <4>4, EnqueueStep
      <4>5. CASE AbortQueued(s)
        BY <3>1, <4>5, AbortQueuedStep
      <4>6. CASE Complete(s) \/ Watchdog(s)
        <5>1. s \in In("active") /\ wedged' = wedged \ {s} /\ ReleaseLocal(s)
          BY <4>6 DEF IInv, TypeOK, Complete, Watchdog, In
        <5>2. QED
          BY <3>1, <5>1, ReleaseStep
      <4>7. QED
        BY <4>1, <4>2, <4>3, <4>4, <4>5, <4>6 DEF Step
    <3>3. QED
      BY <3>2 DEF In
  <2>2. CASE UNCHANGED vars
    BY <2>2 DEF vars
  <2>3. QED
    BY <2>1, <2>2
<1>2. QED
  BY Invariance, <1>1, PTL DEF Spec, EndedStaysEnded
=============================================================================
