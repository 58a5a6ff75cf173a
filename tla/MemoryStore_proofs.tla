-------------------------- MODULE MemoryStore_proofs -------------------------
(***************************************************************************)
(* Proofs about MemoryStore, for any set of agents, channels and patterns, *)
(* any pattern relation, any number of messages and any clock.             *)
(*                                                                         *)
(* Only three kinds of step touch the log and its readers: a message is    *)
(* filed, an agent drains its inbox, an agent unsubscribes (NextCases).    *)
(* The lemmas up to BatchIsSorted say what each of them does; the          *)
(* invariant Inv is then preserved conjunct by conjunct.                   *)
(***************************************************************************)
EXTENDS MemoryStore, FiniteSetTheorems, FunctionTheorems, TLAPS

-----------------------------------------------------------------------------
(* What the steps do to the log.                                           *)

Bodies == Event \cup {Opaque}

Scopes == {None} \cup (SUBSET Channels \ {{}})

\* The messages are those before, some of them marked as delivered.
SameLog ==
    /\ Len(messages') = Len(messages)
    /\ \A i \in DOMAIN messages :
          /\ messages'[i].id = messages[i].id
          /\ messages'[i].channel = messages[i].channel
          /\ messages'[i].sent_at = messages[i].sent_at
          /\ messages'[i].seq = messages[i].seq

\* The log ends with one more message, the envelope built by NewMessage.
LongerLog(c, body) ==
    /\ Len(messages') = Len(messages) + 1
    /\ \A i \in DOMAIN messages : messages'[i] = messages[i]
    /\ messages'[Len(messages) + 1] = NewMessage(c, body)

\* Filing a message appends it and keeps the log well-typed.
LEMMA StoreEffect ==
    ASSUME TypeOK, NEW c \in Channels, NEW body \in Bodies, Store(c, body)
    PROVE  /\ messages' \in Seq(Message)
           /\ LongerLog(c, body)
           /\ DOMAIN messages' = DOMAIN messages \cup {Len(messages) + 1}
           /\ next_id' = next_id + 1
           /\ channel_seq' \in [Channels -> Nat]
           /\ channel_seq' = [channel_seq EXCEPT ![c] = @ + 1]
<1> USE DEF TypeOK
<1>1. NewMessage(c, body) \in Message
  BY DEF NewMessage, Message, Bodies
<1>2. /\ messages' = Append(messages, NewMessage(c, body))
      /\ next_id' = next_id + 1
      /\ channel_seq' = [channel_seq EXCEPT ![c] = @ + 1]
  BY DEF Store
<1>3. channel_seq' \in [Channels -> Nat]
  BY <1>2
<1>4. messages' \in Seq(Message) /\ LongerLog(c, body)
  BY <1>1, <1>2 DEF LongerLog
<1>5. DOMAIN messages' = DOMAIN messages \cup {Len(messages) + 1}
  BY <1>4 DEF LongerLog
<1> QED
  BY <1>2, <1>3, <1>4, <1>5

\* Marking positions as delivered to an agent changes nothing else.
LEMMA MarkEffect ==
    ASSUME TypeOK, NEW a \in Agents, NEW S, Mark(a, S)
    PROVE  /\ messages' \in Seq(Message)
           /\ SameLog
           /\ DOMAIN messages' = DOMAIN messages
           /\ \A i \in DOMAIN messages, b \in Agents :
                 b \in messages'[i].delivered_to
                    <=> b \in messages[i].delivered_to \/ (b = a /\ i \in S)
<1>1. messages \in Seq(Message)
  BY DEF TypeOK
<1>2. DOMAIN messages = 1 .. Len(messages) /\ Len(messages) \in Nat
  BY <1>1
<1>3. ASSUME NEW i \in DOMAIN messages
      PROVE  /\ messages[i] \in Message
             /\ [messages[i] EXCEPT !.delivered_to = @ \cup {a}] \in Message
  <2>1. messages[i] \in Message
    BY <1>1
  <2>2. messages[i].delivered_to \cup {a} \in SUBSET Agents
    BY <2>1 DEF Message
  <2> QED
    BY <2>1, <2>2 DEF Message
<1>4. messages' \in [1 .. Len(messages) -> Message]
  BY <1>3, <1>2 DEF Mark
<1>5. /\ messages' \in Seq(Message)
      /\ Len(messages') = Len(messages)
      /\ DOMAIN messages' = DOMAIN messages
  BY <1>2, <1>4
<1>6. ASSUME NEW i \in DOMAIN messages
      PROVE  /\ messages'[i].id = messages[i].id
             /\ messages'[i].channel = messages[i].channel
             /\ messages'[i].sent_at = messages[i].sent_at
             /\ messages'[i].seq = messages[i].seq
             /\ \A b \in Agents :
                   b \in messages'[i].delivered_to
                      <=> b \in messages[i].delivered_to \/ (b = a /\ i \in S)
  BY <1>3 DEF Mark, Message
<1> QED
  BY <1>5, <1>6 DEF SameLog

\* A drain takes a finite set of undelivered messages, and with a message every
\* older undelivered one of the same channel.
LEMMA TakenIsOldest ==
    ASSUME TypeOK, NEW a \in Agents, NEW cs \in Scopes, NEW k \in Limits
    PROVE  /\ Taken(a, cs, k) \subseteq DOMAIN messages
           /\ IsFiniteSet(Taken(a, cs, k))
           /\ \A i \in Taken(a, cs, k) : a \notin messages[i].delivered_to
           /\ \A i, j \in DOMAIN messages :
                 (/\ i < j
                  /\ messages[i].channel = messages[j].channel
                  /\ j \in Taken(a, cs, k)
                  /\ a \notin messages[i].delivered_to) => i \in Taken(a, cs, k)
<1> DEFINE E == Eligible(a, cs)
           UpTo(i) == {m \in E : m <= i}
<1> USE DEF TypeOK
<1>1. Limits \subseteq Nat
  BY StoreAssumption
<1>2. DOMAIN messages = 1 .. Len(messages) /\ Len(messages) \in Nat
  OBVIOUS
<1>3. E \subseteq DOMAIN messages
  BY DEF Eligible
<1>4. IsFiniteSet(DOMAIN messages)
  BY <1>2, FS_Interval
<1>5. IsFiniteSet(E) /\ Taken(a, cs, k) \subseteq E
  BY <1>3, <1>4, FS_Subset DEF Taken
<1>6. ASSUME NEW i \in DOMAIN messages, NEW j \in DOMAIN messages, i < j,
             messages[i].channel = messages[j].channel,
             j \in Taken(a, cs, k), a \notin messages[i].delivered_to
      PROVE  i \in Taken(a, cs, k)
  <2>1. i \in E
    BY <1>5, <1>6 DEF Eligible
  <2>2. UpTo(i) \subseteq UpTo(j)
    BY <1>2, <1>3, <1>6
  <2>3. IsFiniteSet(UpTo(i)) /\ IsFiniteSet(UpTo(j))
    BY <1>5, FS_Subset
  <2>4. Cardinality(UpTo(i)) <= Cardinality(UpTo(j))
    BY <2>2, <2>3, FS_Subset
  <2>5. Cardinality(UpTo(i)) \in Nat /\ Cardinality(UpTo(j)) \in Nat
    BY <2>3, FS_CardinalityType
  <2>6. Cardinality(UpTo(j)) <= k
    BY <1>6 DEF Taken
  <2>7. Cardinality(UpTo(i)) <= k
    BY <1>1, <2>4, <2>5, <2>6
  <2> QED
    BY <2>1, <2>7 DEF Taken
<1>7. IsFiniteSet(Taken(a, cs, k))
  BY <1>5, FS_Subset
<1> QED
  BY <1>3, <1>5, <1>6, <1>7 DEF Eligible

\* A sorted listing of positions names each of them once, in the order Before.
LEMMA BatchIsSorted ==
    ASSUME TypeOK, NEW S, S \subseteq DOMAIN messages, IsFiniteSet(S),
           NEW batch \in Sorted(S)
    PROVE  /\ batch \in Seq(S)
           /\ \A i \in S : \E x \in DOMAIN batch : batch[x] = i
           /\ \A x, y \in DOMAIN batch : x < y => Before(batch[x], batch[y])
           /\ \A x, y \in DOMAIN batch : batch[x] = batch[y] => x = y
<1>1. Cardinality(S) \in Nat
  BY FS_CardinalityType
<1>2. /\ batch \in [1 .. Cardinality(S) -> S]
      /\ \A i \in S : \E x \in DOMAIN batch : batch[x] = i
      /\ \A x, y \in DOMAIN batch : x < y => Before(batch[x], batch[y])
  BY DEF Sorted
<1>3. batch \in Seq(S) /\ DOMAIN batch = 1 .. Cardinality(S)
  BY <1>1, <1>2
<1>4. ASSUME NEW i \in S
      PROVE  ~Before(i, i)
  <2>1. messages[i] \in Message
    BY DEF TypeOK
  <2>2. /\ Rank[messages[i].channel] \in Nat
        /\ messages[i].sent_at \in Nat
        /\ messages[i].id \in Nat
    BY <2>1, StoreAssumption DEF Message
  <2> QED
    BY <2>2 DEF Before
<1>5. ASSUME NEW x \in DOMAIN batch, NEW y \in DOMAIN batch, batch[x] = batch[y]
      PROVE  x = y
  <2>1. batch[x] \in S /\ ~Before(batch[x], batch[x])
    BY <1>2, <1>4
  <2>2. ~(x < y) /\ ~(y < x)
    BY <1>2, <1>5, <2>1
  <2> QED
    BY <1>1, <1>3, <2>2
<1> QED
  BY <1>2, <1>3, <1>5

\* The state the properties of delivery are about.
core == <<messages, next_id, channel_seq, now, returned, discarded>>

\* Every step files a message, drains, unsubscribes, ticks or touches only the
\* bookkeeping of subscriptions, acks, liveness and groups.
LEMMA NextCases ==
    ASSUME [Next]_vars
    PROVE  \/ \E c \in Channels, body \in Bodies :
                 Store(c, body) /\ UNCHANGED <<now, returned, discarded>>
           \/ \E a \in Agents, cs \in Scopes, k \in Limits : Recv(a, cs, k)
           \/ \E a \in Agents, ps \in SUBSET Patterns : Unsubscribe(a, ps)
           \/ Tick
           \/ UNCHANGED core
<1>1. CASE \E c \in Channels : Send(c)
  BY <1>1 DEF Send, Bodies
<1>2. CASE \E a \in Agents, cs \in Scopes, k \in Limits : Recv(a, cs, k)
  BY <1>2
<1>3. CASE \E a \in Agents, p \in Patterns : Subscribe(a, p)
  BY <1>3 DEF Subscribe, core
<1>4. CASE \E a \in Agents, ps \in SUBSET Patterns \ {{}} : Unsubscribe(a, ps)
  BY <1>4
<1>5. CASE \E a \in Agents, m \in AckIds, s \in AckStatuses : Ack(a, m, s)
  BY <1>5 DEF Ack, core
<1>6. CASE \E a \in Agents, s \in Statuses, t \in TTLs : Heartbeat(a, s, t)
  <2>1. PICK a \in Agents, s \in Statuses, t \in TTLs : Heartbeat(a, s, t)
    BY <1>6
  <2>2. Presence \in Channels /\ [agent |-> a, status |-> s] \in Bodies
    BY StoreAssumption DEF Bodies, Event
  <2> QED
    BY <2>1, <2>2 DEF Heartbeat
<1>7. CASE \E a \in Agents, g \in Groups : GroupCreate(a, g)
  BY <1>7 DEF GroupCreate, core
<1>8. CASE \E a, b \in Agents, g \in Groups : GroupInvite(a, g, b)
  BY <1>8 DEF GroupInvite, core
<1>9. CASE \E a \in Agents, g \in Groups : GroupJoin(a, g)
  BY <1>9 DEF GroupJoin, core
<1>10. CASE \E a \in Agents, g \in Groups : GroupLeave(a, g)
  BY <1>10 DEF GroupLeave, core
<1>11. CASE UNCHANGED vars
  BY <1>11 DEF vars, core
<1> QED
  BY <1>1, <1>2, <1>3, <1>4, <1>5, <1>6, <1>7, <1>8, <1>9, <1>10, <1>11
     DEF Next, Scopes

-----------------------------------------------------------------------------
(* Type correctness.                                                       *)

\* The initial state is well-typed.
LEMMA TypeInit == Init => TypeOK
<1> SUFFICES ASSUME Init
             PROVE  TypeOK
  OBVIOUS
<1> USE DEF Init
<1>1. /\ messages \in Seq(Message)
      /\ next_id \in Nat
      /\ channel_seq \in [Channels -> Nat]
      /\ subscriptions \in [Agents -> SUBSET Patterns]
      /\ ack_records \in [AckIds -> AckRecord \cup {None}]
      /\ liveness \in [Agents -> LiveRecord \cup {None}]
  OBVIOUS
<1>2. groups \in [Groups -> [Agents -> {"none", "invited", "active"}]]
  OBVIOUS
<1>3. now \in Nat /\ returned \in [Agents -> Seq(Nat)]
  OBVIOUS
<1>4. discarded \in [Agents -> SUBSET Nat]
  OBVIOUS
<1> QED
  BY <1>1, <1>2, <1>3, <1>4 DEF TypeOK

\* What an agent is handed and what it discards stay sets and sequences of
\* positions in the log.
LEMMA TypeOfHistory ==
    ASSUME TypeOK, [Next]_vars
    PROVE  /\ messages' \in Seq(Message)
           /\ channel_seq' \in [Channels -> Nat]
           /\ next_id' \in Nat
           /\ now' \in Nat
           /\ returned' \in [Agents -> Seq(Nat)]
           /\ discarded' \in [Agents -> SUBSET Nat]
<1>1. /\ messages \in Seq(Message)
      /\ channel_seq \in [Channels -> Nat]
      /\ next_id \in Nat
      /\ now \in Nat
      /\ returned \in [Agents -> Seq(Nat)]
      /\ discarded \in [Agents -> SUBSET Nat]
  BY DEF TypeOK
<1>2. DOMAIN messages \subseteq Nat
  BY <1>1
<1>3. CASE \E c \in Channels, body \in Bodies :
              Store(c, body) /\ UNCHANGED <<now, returned, discarded>>
  <2>1. PICK c \in Channels, body \in Bodies :
           Store(c, body) /\ UNCHANGED <<now, returned, discarded>>
    BY <1>3
  <2>2. /\ messages' \in Seq(Message)
        /\ channel_seq' \in [Channels -> Nat]
        /\ next_id' = next_id + 1
    BY <2>1, StoreEffect
  <2> QED
    BY <1>1, <2>1, <2>2
<1>4. CASE \E a \in Agents, cs \in Scopes, k \in Limits : Recv(a, cs, k)
  <2>1. PICK a \in Agents, cs \in Scopes, k \in Limits : Recv(a, cs, k)
    BY <1>4
  <2> DEFINE S == Taken(a, cs, k)
  <2>2. PICK batch \in Sorted(S) : returned' = [returned EXCEPT ![a] = @ \o batch]
    BY <2>1 DEF Recv
  <2>3. Mark(a, S) /\ UNCHANGED <<next_id, channel_seq, now, discarded>>
    BY <2>1 DEF Recv
  <2>4. messages' \in Seq(Message)
    BY <2>3, MarkEffect
  <2>5. batch \in Seq(S) /\ S \subseteq Nat
    BY <1>2, BatchIsSorted, TakenIsOldest
  <2>6. returned[a] \o batch \in Seq(Nat)
    BY <1>1, <2>5
  <2> QED
    BY <1>1, <2>2, <2>3, <2>4, <2>6
<1>5. CASE \E a \in Agents, ps \in SUBSET Patterns : Unsubscribe(a, ps)
  <2>1. PICK a \in Agents, ps \in SUBSET Patterns : Unsubscribe(a, ps)
    BY <1>5
  <2> DEFINE S == Cleared(a, subscriptions[a] \cap ps)
  <2>2. /\ Mark(a, S)
        /\ discarded' = [discarded EXCEPT ![a] = @ \cup S]
        /\ UNCHANGED <<next_id, channel_seq, now, returned>>
    BY <2>1 DEF Unsubscribe
  <2>3. messages' \in Seq(Message)
    BY <2>2, MarkEffect
  <2>4. S \subseteq Nat
    BY <1>2 DEF Cleared
  <2> QED
    BY <1>1, <2>2, <2>3, <2>4
<1>6. CASE Tick
  BY <1>1, <1>6 DEF Tick
<1>7. CASE UNCHANGED core
  BY <1>1, <1>7 DEF core
<1> QED
  BY <1>3, <1>4, <1>5, <1>6, <1>7, NextCases

\* The bookkeeping of subscriptions, acks, liveness and groups stays well-typed.
LEMMA TypeOfBookkeeping ==
    ASSUME TypeOK, [Next]_vars
    PROVE  /\ subscriptions' \in [Agents -> SUBSET Patterns]
           /\ ack_records' \in [AckIds -> AckRecord \cup {None}]
           /\ liveness' \in [Agents -> LiveRecord \cup {None}]
           /\ groups' \in [Groups -> [Agents -> {"none", "invited", "active"}]]
<1>1. /\ subscriptions \in [Agents -> SUBSET Patterns]
      /\ ack_records \in [AckIds -> AckRecord \cup {None}]
      /\ liveness \in [Agents -> LiveRecord \cup {None}]
      /\ groups \in [Groups -> [Agents -> {"none", "invited", "active"}]]
  BY DEF TypeOK
<1>2. Groups \subseteq Patterns
  BY StoreAssumption
<1>3. CASE \E c \in Channels : Send(c)
  BY <1>1, <1>3 DEF Send
<1>4. CASE \E a \in Agents, cs \in Scopes, k \in Limits : Recv(a, cs, k)
  BY <1>1, <1>4 DEF Recv
<1>5. CASE \E a \in Agents, p \in Patterns : Subscribe(a, p)
  BY <1>1, <1>5 DEF Subscribe
<1>6. CASE \E a \in Agents, ps \in SUBSET Patterns \ {{}} : Unsubscribe(a, ps)
  BY <1>1, <1>6 DEF Unsubscribe
<1>7. CASE \E a \in Agents, m \in AckIds, s \in AckStatuses : Ack(a, m, s)
  BY <1>1, <1>7 DEF Ack, AckRecord
<1>8. CASE \E a \in Agents, s \in Statuses, t \in TTLs : Heartbeat(a, s, t)
  <2>1. PICK a \in Agents, s \in Statuses, t \in TTLs : Heartbeat(a, s, t)
    BY <1>8
  <2>2. now \in Nat /\ ExpiresAt(t) \in Nat
    BY StoreAssumption DEF TypeOK, ExpiresAt
  <2>3. [status |-> s, recorded_at |-> now, expires_at |-> ExpiresAt(t)] \in LiveRecord
    BY <2>2 DEF LiveRecord
  <2> QED
    BY <1>1, <2>1, <2>3 DEF Heartbeat
<1>9. CASE \E a \in Agents, g \in Groups : GroupCreate(a, g)
  BY <1>1, <1>2, <1>9 DEF GroupCreate
<1>10. CASE \E a, b \in Agents, g \in Groups : GroupInvite(a, g, b)
  BY <1>1, <1>10 DEF GroupInvite
<1>11. CASE \E a \in Agents, g \in Groups : GroupJoin(a, g)
  BY <1>1, <1>2, <1>11 DEF GroupJoin
<1>12. CASE \E a \in Agents, g \in Groups : GroupLeave(a, g)
  BY <1>1, <1>12 DEF GroupLeave
<1>13. CASE Tick
  BY <1>1, <1>13 DEF Tick
<1>14. CASE UNCHANGED vars
  BY <1>1, <1>14 DEF vars
<1> QED
  BY <1>3, <1>4, <1>5, <1>6, <1>7, <1>8, <1>9, <1>10, <1>11, <1>12, <1>13,
     <1>14 DEF Next, Scopes

\* Every reachable state of the store is well-typed.
THEOREM TypeCorrect == Spec => []TypeOK
<1>1. Init => TypeOK
  BY TypeInit
<1>2. TypeOK /\ [Next]_vars => TypeOK'
  BY TypeOfHistory, TypeOfBookkeeping DEF TypeOK
<1> QED
  BY <1>1, <1>2, PTL DEF Spec

-----------------------------------------------------------------------------
(* The inductive invariant.  The properties the runs check are inductive   *)
(* together with two facts the runs do not name: the log is in the order   *)
(* of the clock, and the histories name messages of the log.               *)

\* Messages are stamped in the order in which they are filed.
ClockOrdered ==
    /\ \A i \in DOMAIN messages : messages[i].sent_at <= now
    /\ \A i, j \in DOMAIN messages : i < j => messages[i].sent_at <= messages[j].sent_at

\* What agents were handed or discarded are messages of the log.
HistoryIsOfLog ==
    \A a \in Agents :
        /\ \A x \in DOMAIN returned[a] : returned[a][x] \in DOMAIN messages
        /\ discarded[a] \subseteq DOMAIN messages

\* The part of the invariant that speaks of the log alone.
LogInv == TypeOK /\ IdsAreDense /\ SeqGapFree /\ ClockOrdered

Inv == LogInv /\ SettledIsPrefix /\ HistoryIsOfLog /\ DeliveredOnce /\ ReadInOrder

\* The empty store satisfies the invariant.
LEMMA InvInit == Init => Inv
<1> SUFFICES ASSUME Init
             PROVE  Inv
  OBVIOUS
<1>1. TypeOK
  BY TypeInit
<1>2. /\ messages = <<>> /\ DOMAIN messages = {}
      /\ next_id = 1
      /\ \A c \in Channels : channel_seq[c] = 0
      /\ \A a \in Agents : DOMAIN returned[a] = {} /\ discarded[a] = {}
  BY DEF Init
<1>3. IdsAreDense /\ ClockOrdered
  BY <1>2 DEF IdsAreDense, ClockOrdered
<1>4. SeqGapFree
  BY <1>2 DEF SeqGapFree
<1>5. SettledIsPrefix /\ HistoryIsOfLog /\ DeliveredOnce /\ ReadInOrder
  BY <1>2 DEF SettledIsPrefix, HistoryIsOfLog, DeliveredOnce, ReadInOrder
<1> QED
  BY <1>1, <1>3, <1>4, <1>5 DEF Inv, LogInv

\* Filing a message keeps the log in order: the id, the sequence number and
\* the clock reading of the new message are the greatest so far.
LEMMA LogInvStore ==
    ASSUME LogInv, NEW c \in Channels, NEW body \in Bodies, Store(c, body),
           now' = now
    PROVE  (IdsAreDense /\ SeqGapFree /\ ClockOrdered)'
<1> DEFINE n == Len(messages) + 1
<1>1. /\ messages' \in Seq(Message)
      /\ LongerLog(c, body)
      /\ DOMAIN messages' = DOMAIN messages \cup {n}
      /\ next_id' = next_id + 1
      /\ channel_seq' = [channel_seq EXCEPT ![c] = @ + 1]
  BY StoreEffect DEF LogInv
<1>2. /\ messages \in Seq(Message)
      /\ channel_seq \in [Channels -> Nat]
      /\ now \in Nat
      /\ next_id \in Nat
  BY DEF LogInv, TypeOK
<1>3. /\ Len(messages) \in Nat
      /\ DOMAIN messages = 1 .. Len(messages)
      /\ \A i \in DOMAIN messages : i < n /\ ~(n < i) /\ messages'[i] = messages[i]
  BY <1>1, <1>2 DEF LongerLog
<1>4. /\ messages'[n].id = next_id
      /\ messages'[n].channel = c
      /\ messages'[n].sent_at = now
      /\ messages'[n].seq = channel_seq[c] + 1
  BY <1>1 DEF LongerLog, NewMessage
<1>5. ASSUME NEW i \in DOMAIN messages
      PROVE  /\ messages[i].channel \in Channels
             /\ messages[i].sent_at \in Nat
             /\ messages[i].seq \in Nat
             /\ messages[i].sent_at <= now
             /\ messages[i].channel = c => messages[i].seq <= channel_seq[c]
  <2>1. messages[i] \in Message
    BY <1>2
  <2>2. messages[i].channel = c => messages[i].seq \in 1 .. channel_seq[c]
    BY DEF LogInv, SeqGapFree
  <2> QED
    BY <1>2, <2>1, <2>2 DEF Message, LogInv, ClockOrdered
<1>6. IdsAreDense'
  BY <1>1, <1>2, <1>3, <1>4 DEF LogInv, IdsAreDense, LongerLog
<1>7. ClockOrdered'
  BY <1>1, <1>2, <1>3, <1>4, <1>5 DEF LogInv, ClockOrdered
<1>8. ASSUME NEW d \in Channels,
             NEW i \in DOMAIN messages', NEW j \in DOMAIN messages',
             messages'[i].channel = d, messages'[j].channel = d, i < j
      PROVE  messages'[i].seq < messages'[j].seq
  <2>1. i \in DOMAIN messages
    BY <1>1, <1>3, <1>8
  <2>2. CASE j \in DOMAIN messages
    BY <1>3, <1>8, <2>1, <2>2 DEF LogInv, SeqGapFree
  <2>3. CASE j = n
    BY <1>2, <1>3, <1>4, <1>5, <1>8, <2>1, <2>3
  <2> QED
    BY <1>1, <2>2, <2>3
<1>9. ASSUME NEW d \in Channels
      PROVE  {messages'[i].seq : i \in {j \in DOMAIN messages' : messages'[j].channel = d}}
                = 1 .. channel_seq'[d]
  <2> DEFINE Old == {messages[i].seq : i \in {j \in DOMAIN messages : messages[j].channel = d}}
             New == {messages'[i].seq : i \in {j \in DOMAIN messages' : messages'[j].channel = d}}
  <2>1. Old = 1 .. channel_seq[d]
    BY DEF LogInv, SeqGapFree
  <2>2. CASE d = c
    <3>1. New = Old \cup {channel_seq[c] + 1}
      BY <1>1, <1>3, <1>4, <2>2
    <3>2. channel_seq'[d] = channel_seq[d] + 1 /\ channel_seq[d] \in Nat
      BY <1>1, <1>2, <2>2
    <3> QED
      BY <2>1, <2>2, <3>1, <3>2
  <2>3. CASE d # c
    <3>1. New = Old
      BY <1>1, <1>3, <1>4, <2>3
    <3>2. channel_seq'[d] = channel_seq[d]
      BY <1>1, <1>2, <2>3
    <3> QED
      BY <2>1, <3>1, <3>2
  <2> QED
    BY <2>2, <2>3
<1>10. SeqGapFree'
  BY <1>8, <1>9 DEF SeqGapFree
<1> QED
  BY <1>6, <1>7, <1>10

\* Marking messages as delivered leaves ids, sequence numbers and stamps alone.
LEMMA LogInvSame ==
    ASSUME LogInv, SameLog, DOMAIN messages' = DOMAIN messages,
           UNCHANGED <<next_id, channel_seq>>, now' \in Nat, now <= now'
    PROVE  (IdsAreDense /\ SeqGapFree /\ ClockOrdered)'
<1>1. IdsAreDense'
  BY DEF LogInv, SameLog, IdsAreDense
<1>2. SeqGapFree'
  BY DEF LogInv, SameLog, SeqGapFree
<1>3. ASSUME NEW i \in DOMAIN messages
      PROVE  messages[i].sent_at \in Nat /\ messages[i].sent_at <= now'
  <2>1. messages \in Seq(Message) /\ now \in Nat
    BY DEF LogInv, TypeOK
  <2>2. messages[i] \in Message
    BY <2>1
  <2>3. messages[i].sent_at \in Nat
    BY <2>2 DEF Message
  <2>4. messages[i].sent_at <= now
    BY DEF LogInv, ClockOrdered
  <2> QED
    BY <2>1, <2>3, <2>4
<1>4. ClockOrdered'
  BY <1>3 DEF LogInv, SameLog, ClockOrdered
<1> QED
  BY <1>1, <1>2, <1>4

\* A message that has just been filed is unread and unknown to every history.
LEMMA DeliveryStore ==
    ASSUME Inv, NEW c \in Channels, NEW body \in Bodies, Store(c, body),
           UNCHANGED <<returned, discarded>>
    PROVE  (SettledIsPrefix /\ HistoryIsOfLog /\ DeliveredOnce /\ ReadInOrder)'
<1> DEFINE n == Len(messages) + 1
<1>1. /\ messages \in Seq(Message)
      /\ LongerLog(c, body)
      /\ DOMAIN messages' = DOMAIN messages \cup {n}
  BY StoreEffect DEF Inv, LogInv, TypeOK
<1>2. /\ Len(messages) \in Nat
      /\ \A i \in DOMAIN messages : ~(n < i) /\ i # n /\ messages'[i] = messages[i]
      /\ messages'[n].delivered_to = {}
      /\ ~(n < n)
  BY <1>1 DEF LongerLog, NewMessage
<1>3. SettledIsPrefix'
  BY <1>1, <1>2 DEF Inv, SettledIsPrefix
<1>4. HistoryIsOfLog'
  BY <1>1 DEF Inv, HistoryIsOfLog
<1>5. DeliveredOnce'
  <2>1. ASSUME NEW a \in Agents, NEW i \in DOMAIN messages'
        PROVE  a \in messages'[i].delivered_to
                  <=> \/ i \in discarded[a]
                      \/ \E x \in DOMAIN returned[a] : returned[a][x] = i
    <3>1. CASE i \in DOMAIN messages
      BY <1>2, <3>1 DEF Inv, DeliveredOnce
    <3>2. CASE i = n
      BY <1>2, <3>2 DEF Inv, HistoryIsOfLog
    <3> QED
      BY <1>1, <3>1, <3>2
  <2> QED
    BY <2>1 DEF Inv, DeliveredOnce
<1>6. ReadInOrder'
  BY <1>2 DEF Inv, HistoryIsOfLog, ReadInOrder
<1> QED
  BY <1>3, <1>4, <1>5, <1>6

\* The positions of a concatenation are those of its two parts.
LEMMA Concatenation ==
    ASSUME NEW T, NEW s \in Seq(T), NEW t \in Seq(T)
    PROVE  /\ \A x \in DOMAIN s : (s \o t)[x] = s[x]
           /\ \A x \in DOMAIN s : x \in DOMAIN (s \o t)
           /\ \A x \in DOMAIN t : /\ Len(s) + x \in DOMAIN (s \o t)
                                  /\ (s \o t)[Len(s) + x] = t[x]
           /\ \A x \in DOMAIN (s \o t) :
                 x \in DOMAIN s \/ \E y \in DOMAIN t : x = Len(s) + y
<1>1. /\ Len(s) \in Nat /\ Len(t) \in Nat
      /\ DOMAIN s = 1 .. Len(s) /\ DOMAIN t = 1 .. Len(t)
      /\ DOMAIN (s \o t) = 1 .. Len(s) + Len(t)
  OBVIOUS
<1>2. \A x \in DOMAIN s : x \in DOMAIN (s \o t) /\ (s \o t)[x] = s[x]
  BY <1>1
<1>3. \A x \in DOMAIN t : /\ Len(s) + x \in DOMAIN (s \o t)
                          /\ (s \o t)[Len(s) + x] = t[x]
  BY <1>1
<1>4. ASSUME NEW x \in DOMAIN (s \o t), x \notin DOMAIN s
      PROVE  \E y \in DOMAIN t : x = Len(s) + y
  <2>1. x - Len(s) \in DOMAIN t /\ x = Len(s) + (x - Len(s))
    BY <1>1, <1>4
  <2> QED
    BY <2>1
<1> QED
  BY <1>2, <1>3, <1>4

\* On one channel, the order of a batch is the order of the log.
LEMMA BeforeIsOlder ==
    ASSUME LogInv, NEW i \in DOMAIN messages, NEW j \in DOMAIN messages,
           messages[i].channel = messages[j].channel, Before(i, j)
    PROVE  messages[i].seq < messages[j].seq
<1>1. messages \in Seq(Message) /\ i \in Nat /\ j \in Nat
  BY DEF LogInv, TypeOK
<1>2. messages[i] \in Message /\ messages[j] \in Message
  BY <1>1
<1>3. /\ messages[i].channel \in Channels
      /\ messages[i].sent_at \in Nat
      /\ messages[j].sent_at \in Nat
  BY <1>2 DEF Message
<1>4. messages[i].id = i /\ messages[j].id = j
  BY DEF LogInv, IdsAreDense
<1>5. ~(Rank[messages[i].channel] < Rank[messages[j].channel])
  BY <1>3, StoreAssumption
<1>6. \/ messages[i].sent_at < messages[j].sent_at
      \/ messages[i].sent_at = messages[j].sent_at /\ i < j
  BY <1>4, <1>5 DEF Before
<1>7. j < i => messages[j].sent_at <= messages[i].sent_at
  BY DEF LogInv, ClockOrdered
<1>8. i < j
  BY <1>1, <1>3, <1>6, <1>7
<1> QED
  BY <1>3, <1>8 DEF LogInv, SeqGapFree

\* A drain hands over what was unread, oldest first, and marks exactly that.
LEMMA DeliveryRecv ==
    ASSUME Inv, NEW a \in Agents, NEW cs \in Scopes, NEW k \in Limits,
           Recv(a, cs, k)
    PROVE  (SettledIsPrefix /\ HistoryIsOfLog /\ DeliveredOnce /\ ReadInOrder)'
<1> DEFINE S == Taken(a, cs, k)
<1>1. /\ TypeOK
      /\ messages \in Seq(Message)
      /\ returned \in [Agents -> Seq(Nat)]
  BY DEF Inv, LogInv, TypeOK
<1>2. Mark(a, S) /\ UNCHANGED discarded
  BY DEF Recv
<1>3. PICK batch \in Sorted(S) : returned' = [returned EXCEPT ![a] = @ \o batch]
  BY DEF Recv
<1>4. /\ S \subseteq DOMAIN messages
      /\ IsFiniteSet(S)
      /\ \A i \in S : a \notin messages[i].delivered_to
      /\ \A i, j \in DOMAIN messages :
            (/\ i < j
             /\ messages[i].channel = messages[j].channel
             /\ j \in S
             /\ a \notin messages[i].delivered_to) => i \in S
  BY <1>1, TakenIsOldest
<1>5. /\ batch \in Seq(S)
      /\ \A i \in S : \E x \in DOMAIN batch : batch[x] = i
      /\ \A x, y \in DOMAIN batch : x < y => Before(batch[x], batch[y])
      /\ \A x, y \in DOMAIN batch : batch[x] = batch[y] => x = y
  BY <1>1, <1>4, BatchIsSorted
<1>6. /\ SameLog
      /\ DOMAIN messages' = DOMAIN messages
      /\ \A i \in DOMAIN messages, b \in Agents :
            b \in messages'[i].delivered_to
               <=> b \in messages[i].delivered_to \/ (b = a /\ i \in S)
  BY <1>1, <1>2, MarkEffect
<1> DEFINE old == returned[a]
           new == returned'[a]
<1>7. /\ new = old \o batch
      /\ \A b \in Agents : b # a => returned'[b] = returned[b]
  BY <1>1, <1>3
<1>8. DOMAIN messages \subseteq Nat /\ S \subseteq Nat
  BY <1>1, <1>4
<1>9. old \in Seq(Nat) /\ batch \in Seq(Nat)
  BY <1>1, <1>5, <1>8
<1>10. /\ \A x \in DOMAIN old : new[x] = old[x]
       /\ \A x \in DOMAIN old : x \in DOMAIN new
       /\ \A x \in DOMAIN batch : /\ Len(old) + x \in DOMAIN new
                                  /\ new[Len(old) + x] = batch[x]
       /\ \A x \in DOMAIN new :
             x \in DOMAIN old \/ \E y \in DOMAIN batch : x = Len(old) + y
  <2> HIDE DEF old, new
  <2> QED
    BY <1>7, <1>9, Concatenation
<1>11. /\ Len(old) \in Nat
       /\ DOMAIN old = 1 .. Len(old)
       /\ DOMAIN batch \subseteq Nat \ {0}
       /\ \A x \in DOMAIN batch : batch[x] \in S
  BY <1>5, <1>9
<1>12. /\ \A x \in DOMAIN old : /\ old[x] \in DOMAIN messages
                                /\ old[x] \notin discarded[a]
                                /\ a \in messages[old[x]].delivered_to
       /\ \A x, y \in DOMAIN old : old[x] = old[y] => x = y
       /\ discarded[a] \subseteq DOMAIN messages
       /\ \A i \in discarded[a] : a \in messages[i].delivered_to
  BY DEF Inv, HistoryIsOfLog, DeliveredOnce
<1>13. SettledIsPrefix'
  BY <1>4, <1>6 DEF Inv, SettledIsPrefix, SameLog
<1>14. HistoryIsOfLog'
  <2>1. \A x \in DOMAIN new : new[x] \in DOMAIN messages
    BY <1>4, <1>10, <1>11, <1>12
  <2> QED
    BY <1>2, <1>6, <1>7, <2>1 DEF Inv, HistoryIsOfLog
<1>15. DeliveredOnce'
  <2>1. ASSUME NEW x \in DOMAIN new, NEW y \in DOMAIN new, new[x] = new[y]
        PROVE  x = y
    <3>1. CASE x \in DOMAIN old /\ y \in DOMAIN old
      BY <1>10, <1>12, <2>1, <3>1
    <3>2. CASE x \in DOMAIN old /\ y \notin DOMAIN old
      BY <1>4, <1>10, <1>11, <1>12, <2>1, <3>2
    <3>3. CASE x \notin DOMAIN old /\ y \in DOMAIN old
      BY <1>4, <1>10, <1>11, <1>12, <2>1, <3>3
    <3>4. CASE x \notin DOMAIN old /\ y \notin DOMAIN old
      BY <1>5, <1>10, <2>1, <3>4
    <3> QED
      BY <3>1, <3>2, <3>3, <3>4
  <2>2. ASSUME NEW x \in DOMAIN new
        PROVE  new[x] \notin discarded[a]
    BY <1>4, <1>10, <1>11, <1>12
  <2>3. ASSUME NEW i \in DOMAIN messages
        PROVE  a \in messages'[i].delivered_to
                  <=> i \in discarded[a] \/ \E x \in DOMAIN new : new[x] = i
    <3>1. CASE i \in S
      BY <1>5, <1>6, <1>10, <3>1
    <3>2. CASE i \notin S
      <4>1. a \in messages'[i].delivered_to <=> a \in messages[i].delivered_to
        BY <1>6, <3>2
      <4>2. (\E x \in DOMAIN new : new[x] = i) <=> (\E x \in DOMAIN old : old[x] = i)
        BY <1>10, <1>11, <3>2
      <4> QED
        BY <4>1, <4>2 DEF Inv, DeliveredOnce
    <3> QED
      BY <3>1, <3>2
  <2>4. ASSUME NEW b \in Agents, b # a, NEW i \in DOMAIN messages
        PROVE  b \in messages'[i].delivered_to <=> b \in messages[i].delivered_to
    BY <1>6, <2>4
  <2>5. ASSUME NEW b \in Agents, b # a
        PROVE  /\ \A x, y \in DOMAIN returned'[b] :
                     returned'[b][x] = returned'[b][y] => x = y
               /\ \A x \in DOMAIN returned'[b] : returned'[b][x] \notin discarded'[b]
               /\ \A i \in DOMAIN messages' :
                     b \in messages'[i].delivered_to
                        <=> \/ i \in discarded'[b]
                            \/ \E x \in DOMAIN returned'[b] : returned'[b][x] = i
    BY <1>2, <1>6, <1>7, <2>4, <2>5 DEF Inv, DeliveredOnce
  <2> QED
    BY <1>2, <1>6, <2>1, <2>2, <2>3, <2>5 DEF DeliveredOnce
<1>16. ReadInOrder'
  <2>1. ASSUME NEW x \in DOMAIN new, NEW y \in DOMAIN new, x < y,
               messages[new[x]].channel = messages[new[y]].channel
        PROVE  messages[new[x]].seq < messages[new[y]].seq
    <3>1. CASE x \in DOMAIN old /\ y \in DOMAIN old
      BY <1>10, <2>1, <3>1 DEF Inv, ReadInOrder
    <3>2. CASE x \in DOMAIN old /\ y \notin DOMAIN old
      <4>1. PICK z \in DOMAIN batch : y = Len(old) + z
        BY <1>10, <3>2
      <4> DEFINE i == old[x]
                 j == batch[z]
      <4>2. new[x] = i /\ new[y] = j
        BY <1>10, <3>2, <4>1
      <4>3. /\ i \in DOMAIN messages /\ j \in DOMAIN messages
            /\ a \in messages[i].delivered_to /\ a \notin messages[j].delivered_to
        BY <1>4, <1>11, <1>12, <3>2, <4>1
      <4>4. ~(j < i) /\ i # j
        BY <2>1, <4>2, <4>3 DEF Inv, SettledIsPrefix
      <4>5. i < j
        BY <1>8, <4>3, <4>4
      <4>6. messages[i].channel \in Channels
        <5>1. messages[i] \in Message
          BY <1>1, <4>3
        <5> QED
          BY <5>1 DEF Message
      <4> QED
        BY <2>1, <4>2, <4>3, <4>5, <4>6 DEF Inv, LogInv, SeqGapFree
    <3>3. CASE x \notin DOMAIN old /\ y \in DOMAIN old
      BY <1>10, <1>11, <2>1, <3>3
    <3>4. CASE x \notin DOMAIN old /\ y \notin DOMAIN old
      <4>1. PICK u \in DOMAIN batch : x = Len(old) + u
        BY <1>10, <3>4
      <4>2. PICK v \in DOMAIN batch : y = Len(old) + v
        BY <1>10, <3>4
      <4>3. new[x] = batch[u] /\ new[y] = batch[v]
        BY <1>10, <4>1, <4>2
      <4>4. u < v
        BY <1>11, <2>1, <4>1, <4>2
      <4>5. Before(batch[u], batch[v])
        BY <1>5, <4>4
      <4>6. batch[u] \in DOMAIN messages /\ batch[v] \in DOMAIN messages
        BY <1>4, <1>11
      <4> QED
        BY <2>1, <4>3, <4>5, <4>6, BeforeIsOlder DEF Inv
    <3> QED
      BY <3>1, <3>2, <3>3, <3>4
  <2>2. ASSUME NEW b \in Agents, b # a,
               NEW x \in DOMAIN returned[b], NEW y \in DOMAIN returned[b], x < y,
               messages[returned[b][x]].channel = messages[returned[b][y]].channel
        PROVE  messages[returned[b][x]].seq < messages[returned[b][y]].seq
    BY <2>2 DEF Inv, ReadInOrder
  <2>3. ASSUME NEW b \in Agents, NEW x \in DOMAIN returned'[b]
        PROVE  /\ messages'[returned'[b][x]].channel = messages[returned'[b][x]].channel
               /\ messages'[returned'[b][x]].seq = messages[returned'[b][x]].seq
    BY <1>6, <1>14 DEF HistoryIsOfLog, SameLog
  <2>4. ASSUME NEW b \in Agents,
               NEW x \in DOMAIN returned'[b], NEW y \in DOMAIN returned'[b], x < y,
               messages'[returned'[b][x]].channel = messages'[returned'[b][y]].channel
        PROVE  messages'[returned'[b][x]].seq < messages'[returned'[b][y]].seq
    <3>1. messages[returned'[b][x]].channel = messages[returned'[b][y]].channel
      BY <2>3, <2>4
    <3>2. messages[returned'[b][x]].seq < messages[returned'[b][y]].seq
      BY <1>7, <2>1, <2>2, <2>4, <3>1
    <3> QED
      BY <2>3, <3>2
  <2> QED
    BY <2>4 DEF ReadInOrder
<1> QED
  BY <1>13, <1>14, <1>15, <1>16

\* Unsubscribing settles whole channels, and nothing an agent was handed.
LEMMA DeliveryUnsubscribe ==
    ASSUME Inv, NEW a \in Agents, NEW ps, Unsubscribe(a, ps)
    PROVE  (SettledIsPrefix /\ HistoryIsOfLog /\ DeliveredOnce /\ ReadInOrder)'
<1> DEFINE S == Cleared(a, subscriptions[a] \cap ps)
<1>1. /\ TypeOK
      /\ messages \in Seq(Message)
      /\ discarded \in [Agents -> SUBSET Nat]
  BY DEF Inv, LogInv, TypeOK
<1>2. /\ Mark(a, S)
      /\ discarded' = [discarded EXCEPT ![a] = @ \cup S]
      /\ UNCHANGED returned
  BY DEF Unsubscribe
<1>3. /\ SameLog
      /\ DOMAIN messages' = DOMAIN messages
      /\ \A i \in DOMAIN messages, b \in Agents :
            b \in messages'[i].delivered_to
               <=> b \in messages[i].delivered_to \/ (b = a /\ i \in S)
  BY <1>1, <1>2, MarkEffect
<1>4. /\ S \subseteq DOMAIN messages
      /\ \A i \in S : a \notin messages[i].delivered_to
      /\ \A i, j \in DOMAIN messages :
            (/\ messages[i].channel = messages[j].channel
             /\ j \in S
             /\ a \notin messages[i].delivered_to) => i \in S
  BY DEF Cleared
<1>5. \A b \in Agents : \A i :
         i \in discarded'[b] <=> i \in discarded[b] \/ (b = a /\ i \in S)
  BY <1>1, <1>2
<1> HIDE DEF S
<1>6. SettledIsPrefix'
  BY <1>3, <1>4 DEF Inv, SettledIsPrefix, SameLog
<1>7. HistoryIsOfLog'
  BY <1>2, <1>3, <1>4, <1>5 DEF Inv, HistoryIsOfLog
<1>8. DeliveredOnce'
  <2>1. ASSUME NEW x \in DOMAIN returned[a]
        PROVE  returned[a][x] \notin discarded'[a]
    <3>1. a \in messages[returned[a][x]].delivered_to /\ returned[a][x] \notin discarded[a]
      BY DEF Inv, HistoryIsOfLog, DeliveredOnce
    <3> QED
      BY <1>4, <1>5, <3>1
  <2>2. ASSUME NEW b \in Agents, NEW i \in DOMAIN messages
        PROVE  b \in messages'[i].delivered_to
                  <=> \/ i \in discarded'[b]
                      \/ \E x \in DOMAIN returned[b] : returned[b][x] = i
    BY <1>3, <1>5 DEF Inv, DeliveredOnce
  <2>3. ASSUME NEW b \in Agents, NEW x \in DOMAIN returned[b]
        PROVE  returned[b][x] \notin discarded'[b]
    BY <1>5, <2>1 DEF Inv, DeliveredOnce
  <2>4. ASSUME NEW b \in Agents, NEW x \in DOMAIN returned[b], NEW y \in DOMAIN returned[b],
               returned[b][x] = returned[b][y]
        PROVE  x = y
    BY <2>4 DEF Inv, DeliveredOnce
  <2> QED
    BY <1>2, <1>3, <2>2, <2>3, <2>4 DEF DeliveredOnce
<1>9. ReadInOrder'
  <2>1. ASSUME NEW b \in Agents, NEW x \in DOMAIN returned[b]
        PROVE  /\ messages'[returned[b][x]].channel = messages[returned[b][x]].channel
               /\ messages'[returned[b][x]].seq = messages[returned[b][x]].seq
    BY <1>3 DEF Inv, HistoryIsOfLog, SameLog
  <2> QED
    BY <1>2, <2>1 DEF Inv, ReadInOrder
<1> QED
  BY <1>6, <1>7, <1>8, <1>9

\* Every step of the store preserves the invariant.
LEMMA InvNext == Inv /\ [Next]_vars => Inv'
<1> SUFFICES ASSUME Inv, [Next]_vars
             PROVE  Inv'
  OBVIOUS
<1>1. TypeOK /\ TypeOK'
  BY TypeOfHistory, TypeOfBookkeeping DEF Inv, LogInv, TypeOK
<1>2. now \in Nat /\ messages \in Seq(Message)
  BY <1>1 DEF TypeOK
<1>3. CASE \E c \in Channels, body \in Bodies :
              Store(c, body) /\ UNCHANGED <<now, returned, discarded>>
  BY <1>1, <1>3, LogInvStore, DeliveryStore DEF Inv, LogInv
<1>4. CASE \E a \in Agents, cs \in Scopes, k \in Limits : Recv(a, cs, k)
  <2>1. PICK a \in Agents, cs \in Scopes, k \in Limits : Recv(a, cs, k)
    BY <1>4
  <2>2. (SettledIsPrefix /\ HistoryIsOfLog /\ DeliveredOnce /\ ReadInOrder)'
    BY <2>1, DeliveryRecv
  <2>3. /\ Mark(a, Taken(a, cs, k))
        /\ UNCHANGED <<next_id, channel_seq, now>>
    BY <2>1 DEF Recv
  <2>4. SameLog /\ DOMAIN messages' = DOMAIN messages
    BY <1>1, <2>3, MarkEffect
  <2>5. (IdsAreDense /\ SeqGapFree /\ ClockOrdered)'
    BY <1>2, <2>3, <2>4, LogInvSame DEF Inv
  <2> QED
    BY <1>1, <2>2, <2>5 DEF Inv, LogInv
<1>5. CASE \E a \in Agents, ps \in SUBSET Patterns : Unsubscribe(a, ps)
  <2>1. PICK a \in Agents, ps \in SUBSET Patterns : Unsubscribe(a, ps)
    BY <1>5
  <2>2. (SettledIsPrefix /\ HistoryIsOfLog /\ DeliveredOnce /\ ReadInOrder)'
    BY <2>1, DeliveryUnsubscribe
  <2>3. /\ Mark(a, Cleared(a, subscriptions[a] \cap ps))
        /\ UNCHANGED <<next_id, channel_seq, now>>
    BY <2>1 DEF Unsubscribe
  <2>4. SameLog /\ DOMAIN messages' = DOMAIN messages
    BY <1>1, <2>3, MarkEffect
  <2>5. (IdsAreDense /\ SeqGapFree /\ ClockOrdered)'
    BY <1>2, <2>3, <2>4, LogInvSame DEF Inv
  <2> QED
    BY <1>1, <2>2, <2>5 DEF Inv, LogInv
<1>6. CASE Tick
  <2>1. /\ UNCHANGED <<messages, next_id, channel_seq, returned, discarded>>
        /\ now' = now + 1
    BY <1>6 DEF Tick
  <2>2. SameLog
    BY <2>1 DEF SameLog
  <2>3. (IdsAreDense /\ SeqGapFree /\ ClockOrdered)'
    BY <1>2, <2>1, <2>2, LogInvSame DEF Inv
  <2>4. (SettledIsPrefix /\ HistoryIsOfLog /\ DeliveredOnce /\ ReadInOrder)'
    BY <2>1 DEF Inv, SettledIsPrefix, HistoryIsOfLog, DeliveredOnce, ReadInOrder
  <2> QED
    BY <1>1, <2>3, <2>4 DEF Inv, LogInv
<1>7. CASE UNCHANGED core
  BY <1>1, <1>7 DEF core, Inv, LogInv, IdsAreDense, SeqGapFree, ClockOrdered,
                    SettledIsPrefix, HistoryIsOfLog, DeliveredOnce, ReadInOrder
<1> QED
  BY <1>3, <1>4, <1>5, <1>6, <1>7, NextCases

-----------------------------------------------------------------------------
(* The properties of the runs, for every value of the constants.           *)

\* The invariant holds in every reachable state.
THEOREM Invariance == Spec => []Inv
<1>1. Init => Inv
  BY InvInit
<1>2. Inv /\ [Next]_vars => Inv'
  BY InvNext
<1> QED
  BY <1>1, <1>2, PTL DEF Spec

\* Ids are never reused: send and heartbeat draw 1, 2, 3, ... from one counter.
THEOREM IdsCorrect == Spec => []IdsAreDense
<1>1. Inv => IdsAreDense
  BY DEF Inv, LogInv
<1> QED
  BY <1>1, Invariance, PTL

\* Sequence numbers of a channel are gap-free and without duplicates.
THEOREM SeqCorrect == Spec => []SeqGapFree
<1>1. Inv => SeqGapFree
  BY DEF Inv, LogInv
<1> QED
  BY <1>1, Invariance, PTL

\* What is settled for an agent on a channel is a prefix of the channel.
THEOREM PrefixCorrect == Spec => []SettledIsPrefix
<1>1. Inv => SettledIsPrefix
  BY DEF Inv
<1> QED
  BY <1>1, Invariance, PTL

\* recv hands each message to each agent at most once, and delivered_to is the
\* exact record of it.
THEOREM DeliveryCorrect == Spec => []DeliveredOnce
<1>1. Inv => DeliveredOnce
  BY DEF Inv
<1> QED
  BY <1>1, Invariance, PTL

\* Each agent reads each channel in the order of its sequence numbers.
THEOREM OrderCorrect == Spec => []ReadInOrder
<1>1. Inv => ReadInOrder
  BY DEF Inv
<1> QED
  BY <1>1, Invariance, PTL

-----------------------------------------------------------------------------
(* The store implements its port.  What the refinement mapping Port shows  *)
(* of an agent and a channel are two sets of sequence numbers; filing      *)
(* changes neither, a drain adds the same numbers to both, an unsubscribe  *)
(* adds to the first only.                                                 *)

\* The positions settled for an agent, and those handed to it.
SettledFor(a) == {i \in DOMAIN messages : a \in messages[i].delivered_to}
HandedTo(a) == {returned[a][x] : x \in DOMAIN returned[a]}

\* What the port sees of a message: where it is and under which number.
LEMMA MessageOK ==
    ASSUME LogInv, NEW i \in DOMAIN messages
    PROVE  /\ i \in Nat
           /\ messages[i].channel \in Channels
           /\ messages[i].seq \in 1 .. channel_seq[messages[i].channel]
<1>1. messages \in Seq(Message)
  BY DEF LogInv, TypeOK
<1>2. messages[i] \in Message /\ i \in Nat
  BY <1>1
<1>3. messages[i].channel \in Channels
  BY <1>2 DEF Message
<1> QED
  BY <1>2, <1>3 DEF LogInv, SeqGapFree

\* The sequence numbers of two disjoint sets of messages of a channel are disjoint.
LEMMA SeqsDisjoint ==
    ASSUME LogInv, NEW c \in Channels, NEW S, NEW T,
           S \subseteq DOMAIN messages, T \subseteq DOMAIN messages, S \cap T = {}
    PROVE  SeqsOf(c, S \cup T) \ SeqsOf(c, S) = SeqsOf(c, T)
<1>1. ASSUME NEW i \in S, NEW j \in T, messages[i].channel = c, messages[j].channel = c
      PROVE  messages[i].seq # messages[j].seq
  <2>1. i \in DOMAIN messages /\ j \in DOMAIN messages /\ i # j
    OBVIOUS
  <2>2. /\ i \in Nat /\ j \in Nat
        /\ messages[i].seq \in Nat /\ messages[j].seq \in Nat
    <3>1. messages[i].seq \in 1 .. channel_seq[c] /\ messages[j].seq \in 1 .. channel_seq[c]
      BY <1>1, <2>1, MessageOK
    <3>2. channel_seq[c] \in Nat
      BY DEF LogInv, TypeOK
    <3> QED
      BY <2>1, <3>1, <3>2, MessageOK
  <2>3. i < j \/ j < i
    BY <2>1, <2>2
  <2>4. messages[i].seq < messages[j].seq \/ messages[j].seq < messages[i].seq
    BY <1>1, <2>1, <2>3 DEF LogInv, SeqGapFree
  <2> QED
    BY <2>2, <2>4
<1>2. SeqsOf(c, S \cup T) = SeqsOf(c, S) \cup SeqsOf(c, T)
  BY DEF SeqsOf
<1>3. SeqsOf(c, S) \cap SeqsOf(c, T) = {}
  BY <1>1 DEF SeqsOf
<1> QED
  BY <1>2, <1>3

\* The numbers settled for an agent on a channel are a cursor into the channel.
LEMMA SettledIsCursor ==
    ASSUME LogInv, SettledIsPrefix, NEW a \in Agents, NEW c \in Channels
    PROVE  /\ SeqsOf(c, SettledFor(a)) \subseteq 1 .. channel_seq[c]
           /\ Port!IsCursor(SeqsOf(c, SettledFor(a)))
<1>1. channel_seq[c] \in Nat
  BY DEF LogInv, TypeOK
<1>2. SeqsOf(c, SettledFor(a)) \subseteq 1 .. channel_seq[c]
  BY MessageOK DEF SeqsOf, SettledFor
<1>3. ASSUME NEW n \in SeqsOf(c, SettledFor(a)), NEW m \in 1 .. n
      PROVE  m \in SeqsOf(c, SettledFor(a))
  <2>1. PICK i \in DOMAIN messages : /\ messages[i].channel = c /\ messages[i].seq = n
                                     /\ a \in messages[i].delivered_to
    BY <1>3 DEF SeqsOf, SettledFor
  <2>2. m \in 1 .. channel_seq[c] /\ m <= n /\ n \in Nat
    BY <1>1, <1>2
  <2>3. PICK j \in DOMAIN messages : messages[j].channel = c /\ messages[j].seq = m
    BY <2>2 DEF LogInv, SeqGapFree
  <2>4. ~(i < j)
    BY <2>1, <2>2, <2>3 DEF LogInv, SeqGapFree
  <2>5. a \in messages[j].delivered_to
    <3>1. i \in Nat /\ j \in Nat
      BY MessageOK
    <3>2. i = j \/ j < i
      BY <2>4, <3>1
    <3> QED
      BY <2>1, <2>3, <3>2 DEF SettledIsPrefix
  <2> QED
    BY <2>3, <2>5 DEF SeqsOf, SettledFor
<1> QED
  BY <1>2, <1>3 DEF Port!IsCursor

CursorsOK ==
    \A a \in Agents, c \in Channels :
        /\ SeqsOf(c, SettledFor(a)) \subseteq 1 .. channel_seq[c]
        /\ Port!IsCursor(SeqsOf(c, SettledFor(a)))

\* The same in the next state.
LEMMA SettledIsCursorNext == (LogInv /\ SettledIsPrefix => CursorsOK)'
<1>1. LogInv /\ SettledIsPrefix => CursorsOK
  BY SettledIsCursor DEF CursorsOK
<1> QED
  BY <1>1, PTL

\* The port's variables, as the refinement mapping computes them.
SeenMap == [a \in Agents |-> [c \in Channels |-> SeqsOf(c, SettledFor(a))]]
GotMap == [a \in Agents |-> [c \in Channels |-> SeqsOf(c, HandedTo(a))]]

\* A message that is filed is appended to its channel in the port.
LEMMA StoreAppends ==
    ASSUME Inv, NEW c \in Channels, NEW body \in Bodies, Store(c, body),
           UNCHANGED <<now, returned, discarded>>
    PROVE  Port!Append(c)
<1>1. /\ LongerLog(c, body)
      /\ DOMAIN messages' = DOMAIN messages \cup {Len(messages) + 1}
      /\ channel_seq' = [channel_seq EXCEPT ![c] = @ + 1]
  BY StoreEffect DEF Inv, LogInv
<1>2. ASSUME NEW a \in Agents
      PROVE  /\ SettledFor(a)' = SettledFor(a)
             /\ HandedTo(a)' = HandedTo(a)
             /\ SettledFor(a) \subseteq DOMAIN messages
             /\ HandedTo(a) \subseteq DOMAIN messages
  <2>1. messages'[Len(messages) + 1].delivered_to = {}
    BY <1>1 DEF LongerLog, NewMessage
  <2>2. SettledFor(a)' = SettledFor(a)
    BY <1>1, <2>1 DEF SettledFor, LongerLog
  <2>3. HandedTo(a) \subseteq DOMAIN messages
    BY DEF HandedTo, Inv, HistoryIsOfLog
  <2> QED
    BY <2>2, <2>3 DEF HandedTo, SettledFor
<1> DEFINE NumbersNext(d, S) == {messages'[i].seq : i \in {j \in S : messages'[j].channel = d}}
<1>3. ASSUME NEW S, S \subseteq DOMAIN messages, NEW d
      PROVE  NumbersNext(d, S) = SeqsOf(d, S)
  BY <1>1, <1>3 DEF SeqsOf, LongerLog
<1>4. ASSUME NEW a \in Agents, NEW d \in Channels
      PROVE  SeenMap'[a][d] = SeenMap[a][d] /\ GotMap'[a][d] = GotMap[a][d]
  <2>1. /\ SeenMap'[a][d] = NumbersNext(d, SettledFor(a)')
        /\ GotMap'[a][d] = NumbersNext(d, HandedTo(a)')
    BY DEF SeenMap, GotMap, SeqsOf
  <2> HIDE DEF NumbersNext
  <2>2. /\ NumbersNext(d, SettledFor(a)) = SeqsOf(d, SettledFor(a))
        /\ NumbersNext(d, HandedTo(a)) = SeqsOf(d, HandedTo(a))
    BY <1>2, <1>3
  <2> QED
    BY <1>2, <2>1, <2>2 DEF SeenMap, GotMap
<1>5. SeenMap' = SeenMap /\ GotMap' = GotMap
  BY <1>4 DEF SeenMap, GotMap
<1> QED
  BY <1>1, <1>5 DEF Port!Append, SeenMap, GotMap, SettledFor, HandedTo

\* Marking undelivered positions for an agent moves its cursors in the port, and
\* only those.
LEMMA MarkAdvances ==
    ASSUME Inv, LogInv', SettledIsPrefix', NEW a \in Agents, NEW S, Mark(a, S),
           S \subseteq DOMAIN messages, \A i \in S : a \notin messages[i].delivered_to,
           UNCHANGED channel_seq
    PROVE  /\ Port!Advance(a)
           /\ \A c \in Channels :
                 SeenMap'[a][c] \ SeenMap[a][c] = SeqsOf(c, S)
<1>1. /\ SameLog /\ DOMAIN messages' = DOMAIN messages
      /\ \A i \in DOMAIN messages, b \in Agents :
            b \in messages'[i].delivered_to
               <=> b \in messages[i].delivered_to \/ (b = a /\ i \in S)
  BY MarkEffect DEF Inv, LogInv
<1>2. ASSUME NEW b \in Agents
      PROVE  SettledFor(b)' = IF b = a THEN SettledFor(a) \cup S ELSE SettledFor(b)
  BY <1>1 DEF SettledFor
<1>3. ASSUME NEW T, T \subseteq DOMAIN messages, NEW c
      PROVE  {messages'[i].seq : i \in {j \in T : messages'[j].channel = c}} = SeqsOf(c, T)
  BY <1>1, <1>3 DEF SeqsOf, SameLog
<1>4. ASSUME NEW b \in Agents, NEW c \in Channels
      PROVE  SeenMap'[b][c] = SeqsOf(c, IF b = a THEN SettledFor(a) \cup S ELSE SettledFor(b))
  <2>1. SeenMap'[b][c] = {messages'[i].seq : i \in {j \in SettledFor(b)' : messages'[j].channel = c}}
    BY DEF SeenMap, SeqsOf
  <2>2. SettledFor(b)' \subseteq DOMAIN messages
    BY <1>1 DEF SettledFor
  <2> QED
    BY <1>2, <1>3, <2>1, <2>2
<1>5. ASSUME NEW b \in Agents, NEW c \in Channels
      PROVE  SeenMap[b][c] = SeqsOf(c, SettledFor(b))
  BY DEF SeenMap
<1>6. ASSUME NEW c \in Channels
      PROVE  /\ SeenMap'[a][c] \ SeenMap[a][c] = SeqsOf(c, S)
             /\ SeenMap[a][c] \subseteq SeenMap'[a][c]
  <2>1. SettledFor(a) \cap S = {} /\ SettledFor(a) \subseteq DOMAIN messages
    BY DEF SettledFor
  <2>2. SeqsOf(c, SettledFor(a) \cup S) \ SeqsOf(c, SettledFor(a)) = SeqsOf(c, S)
    BY <2>1, SeqsDisjoint DEF Inv
  <2>3. SeqsOf(c, SettledFor(a)) \subseteq SeqsOf(c, SettledFor(a) \cup S)
    BY DEF SeqsOf
  <2> QED
    BY <1>4, <1>5, <2>2, <2>3
<1>7. ASSUME NEW c \in Channels
      PROVE  /\ SeenMap'[a][c] \subseteq 1 .. channel_seq[c]
             /\ Port!IsCursor(SeenMap'[a][c])
  <2>1. CursorsOK'
    BY SettledIsCursorNext
  <2> QED
    BY <2>1 DEF CursorsOK, SeenMap, SeqsOf, Port!IsCursor
<1>8. SeenMap' = [SeenMap EXCEPT ![a] = SeenMap'[a]]
  <2>1. ASSUME NEW b \in Agents, b # a
        PROVE  SeenMap'[b] = SeenMap[b]
    BY <1>4, <1>5, <2>1 DEF SeenMap
  <2> QED
    BY <2>1 DEF SeenMap
<1>9. Port!Advance(a)
  BY <1>6, <1>7, <1>8 DEF Port!Advance, SeenMap, SettledFor, Port!IsCursor
<1> QED
  BY <1>6, <1>9

\* A drain delivers in the port exactly what its cursors pass over.
LEMMA RecvDelivers ==
    ASSUME Inv, Inv', NEW a \in Agents, NEW cs \in Scopes, NEW k \in Limits,
           Recv(a, cs, k)
    PROVE  Port!Deliver(a)
<1> DEFINE S == Taken(a, cs, k)
<1>1. /\ TypeOK
      /\ Mark(a, S) /\ UNCHANGED channel_seq
  BY DEF Recv, Inv, LogInv
<1>2. PICK batch \in Sorted(S) : returned' = [returned EXCEPT ![a] = @ \o batch]
  BY DEF Recv
<1>3. /\ S \subseteq DOMAIN messages /\ IsFiniteSet(S)
      /\ \A i \in S : a \notin messages[i].delivered_to
  BY <1>1, TakenIsOldest
<1> HIDE DEF S
<1>4. /\ batch \in Seq(S)
      /\ \A i \in S : \E x \in DOMAIN batch : batch[x] = i
  BY <1>1, <1>3, BatchIsSorted
<1>5. /\ Port!Advance(a)
      /\ \A c \in Channels : SeenMap'[a][c] \ SeenMap[a][c] = SeqsOf(c, S)
  BY <1>1, <1>3, MarkAdvances DEF Inv
<1>6. SameLog /\ DOMAIN messages' = DOMAIN messages
  BY <1>1, MarkEffect
<1>7. \A b \in Agents : HandedTo(b) \subseteq DOMAIN messages
  BY DEF HandedTo, Inv, HistoryIsOfLog
<1>8. HandedTo(a)' = HandedTo(a) \cup S
  <2>1. returned \in [Agents -> Seq(Nat)] /\ DOMAIN messages \subseteq Nat
    BY <1>1 DEF TypeOK
  <2>2. returned[a] \in Seq(Nat) /\ batch \in Seq(Nat)
    BY <1>3, <1>4, <2>1
  <2>3. returned'[a] = returned[a] \o batch
    BY <1>2, <2>1
  <2>4. \A x \in DOMAIN batch : batch[x] \in S
    BY <1>4
  <2> DEFINE old == returned[a]
             new == returned'[a]
  <2>5. /\ \A x \in DOMAIN old : x \in DOMAIN new /\ new[x] = old[x]
        /\ \A x \in DOMAIN batch : \E y \in DOMAIN new : new[y] = batch[x]
        /\ \A y \in DOMAIN new : \/ y \in DOMAIN old
                                 \/ \E x \in DOMAIN batch : new[y] = batch[x]
    <3> HIDE DEF old, new
    <3>1. /\ \A x \in DOMAIN old : new[x] = old[x]
          /\ \A x \in DOMAIN old : x \in DOMAIN new
          /\ \A x \in DOMAIN batch : /\ Len(old) + x \in DOMAIN new
                                     /\ new[Len(old) + x] = batch[x]
          /\ \A x \in DOMAIN new :
                x \in DOMAIN old \/ \E y \in DOMAIN batch : x = Len(old) + y
      <4>1. old \in Seq(Nat) /\ batch \in Seq(Nat) /\ new = old \o batch
        BY <2>2, <2>3 DEF old, new
      <4> QED
        BY <4>1, Concatenation
    <3> QED
      BY <3>1
  <2> HIDE DEF old, new
  <2>6. {new[x] : x \in DOMAIN new} = {old[x] : x \in DOMAIN old} \cup S
    BY <1>4, <2>4, <2>5
  <2> QED
    BY <2>6 DEF HandedTo, old, new
<1>9. \A b \in Agents \ {a} : HandedTo(b)' = HandedTo(b)
  BY <1>1, <1>2 DEF HandedTo, TypeOK
<1> DEFINE NumbersNext(c, T) == {messages'[i].seq : i \in {j \in T : messages'[j].channel = c}}
<1>10. ASSUME NEW T, T \subseteq DOMAIN messages, NEW c
       PROVE  NumbersNext(c, T) = SeqsOf(c, T)
  BY <1>6, <1>10 DEF SeqsOf, SameLog
<1>11. ASSUME NEW b \in Agents, NEW c \in Channels
       PROVE  GotMap'[b][c] = IF b = a THEN GotMap[a][c] \cup SeqsOf(c, S) ELSE GotMap[b][c]
  <2>1. GotMap'[b][c] = NumbersNext(c, HandedTo(b)')
    BY DEF GotMap, SeqsOf
  <2> HIDE DEF NumbersNext
  <2>2. HandedTo(b) \subseteq DOMAIN messages /\ HandedTo(a) \cup S \subseteq DOMAIN messages
    BY <1>3, <1>7
  <2>3. GotMap'[b][c] = SeqsOf(c, IF b = a THEN HandedTo(a) \cup S ELSE HandedTo(b))
    BY <1>8, <1>9, <1>10, <2>1, <2>2
  <2>4. SeqsOf(c, HandedTo(a) \cup S) = SeqsOf(c, HandedTo(a)) \cup SeqsOf(c, S)
    BY DEF SeqsOf
  <2> QED
    BY <2>3, <2>4 DEF GotMap
<1>12. GotMap' = [GotMap EXCEPT ![a] =
                     [c \in Channels |-> GotMap[a][c] \cup (SeenMap'[a][c] \ SeenMap[a][c])]]
  <2>1. ASSUME NEW b \in Agents
        PROVE  GotMap'[b] = IF b = a
                            THEN [c \in Channels |-> GotMap[a][c] \cup (SeenMap'[a][c] \ SeenMap[a][c])]
                            ELSE GotMap[b]
    BY <1>5, <1>11 DEF GotMap
  <2> QED
    BY <2>1 DEF GotMap
<1> QED
  BY <1>5, <1>12 DEF Port!Deliver, GotMap, SeenMap, HandedTo, SettledFor

\* An unsubscribe moves cursors in the port without handing anything out.
LEMMA UnsubscribeDiscards ==
    ASSUME Inv, Inv', NEW a \in Agents, NEW ps, Unsubscribe(a, ps)
    PROVE  Port!Discard(a)
<1> DEFINE S == Cleared(a, subscriptions[a] \cap ps)
<1>1. Mark(a, S) /\ UNCHANGED <<channel_seq, returned>>
  BY DEF Unsubscribe
<1>2. S \subseteq DOMAIN messages /\ \A i \in S : a \notin messages[i].delivered_to
  BY DEF Cleared
<1> HIDE DEF S
<1>3. Port!Advance(a)
  BY <1>1, <1>2, MarkAdvances DEF Inv
<1>4. SameLog /\ DOMAIN messages' = DOMAIN messages
  BY <1>1, MarkEffect DEF Inv, LogInv
<1>5. ASSUME NEW b \in Agents, NEW c \in Channels
      PROVE  GotMap'[b][c] = GotMap[b][c]
  <2>1. HandedTo(b)' = HandedTo(b) /\ HandedTo(b) \subseteq DOMAIN messages
    BY <1>1 DEF HandedTo, Inv, HistoryIsOfLog
  <2>2. GotMap'[b][c] = {messages'[i].seq : i \in {j \in HandedTo(b) : messages'[j].channel = c}}
    BY <2>1 DEF GotMap, SeqsOf
  <2>3. GotMap[b][c] = {messages[i].seq : i \in {j \in HandedTo(b) : messages[j].channel = c}}
    BY DEF GotMap, SeqsOf
  <2> QED
    BY <1>4, <2>1, <2>2, <2>3 DEF SameLog
<1>6. GotMap' = GotMap
  BY <1>5 DEF GotMap
<1> QED
  BY <1>3, <1>6 DEF Port!Discard, GotMap, HandedTo

\* The memory store implements the backing-store port: to its callers every channel is
\* a gapless log that each agent consumes from the front, once, whatever mix of sends,
\* drains, filters, limits and unsubscribes they call (MemoryBackingStore).
THEOREM PortCorrect == Spec => ImplementsPort
<1>1. Init => Port!Init
  <2> SUFFICES ASSUME Init
               PROVE  Port!Init
    OBVIOUS
  <2>1. DOMAIN messages = {} /\ \A a \in Agents : DOMAIN returned[a] = {}
    BY DEF Init
  <2>2. channel_seq = [c \in Channels |-> 0]
    BY DEF Init
  <2>3. \A a \in Agents, c \in Channels : SeqsOf(c, SettledFor(a)) = {} /\ SeqsOf(c, HandedTo(a)) = {}
    BY <2>1 DEF SeqsOf, SettledFor, HandedTo
  <2> QED
    BY <2>2, <2>3 DEF Port!Init, SettledFor, HandedTo
<1>2. Inv /\ Inv' /\ [Next]_vars => [Port!Next]_Port!vars
  <2> SUFFICES ASSUME Inv, Inv', [Next]_vars
               PROVE  Port!Next \/ UNCHANGED Port!vars
    OBVIOUS
  <2>1. CASE \E c \in Channels, body \in Bodies :
                Store(c, body) /\ UNCHANGED <<now, returned, discarded>>
    BY <2>1, StoreAppends DEF Port!Next
  <2>2. CASE \E a \in Agents, cs \in Scopes, k \in Limits : Recv(a, cs, k)
    BY <2>2, RecvDelivers DEF Port!Next
  <2>3. CASE \E a \in Agents, ps \in SUBSET Patterns : Unsubscribe(a, ps)
    BY <2>3, UnsubscribeDiscards DEF Port!Next
  <2>4. CASE UNCHANGED <<messages, channel_seq, returned>>
    BY <2>4 DEF Port!vars, SeqsOf
  <2> QED
    BY <2>1, <2>2, <2>3, <2>4, NextCases DEF Tick, core
<1> QED
  BY <1>1, <1>2, Invariance, PTL DEF Spec, ImplementsPort, Port!Spec

-----------------------------------------------------------------------------
(* Replay.  On a channel the sequence numbers are a bijection between its  *)
(* messages and an interval, so counting messages is counting numbers.     *)

\* The messages of a channel whose numbers lie between two bounds.
Between(c, lo, hi) ==
    {i \in DOMAIN messages :
        messages[i].channel = c /\ lo <= messages[i].seq /\ messages[i].seq <= hi}

\* There are as many of them as there are numbers.
LEMMA CountBetween ==
    ASSUME LogInv, NEW c \in Channels, NEW lo \in Nat \ {0}, NEW hi \in Nat,
           hi <= channel_seq[c]
    PROVE  Cardinality(Between(c, lo, hi)) = IF lo > hi THEN 0 ELSE hi - lo + 1
<1> DEFINE M == Between(c, lo, hi)
           seqOf == [i \in M |-> messages[i].seq]
<1>1. messages \in Seq(Message) /\ channel_seq[c] \in Nat
  BY DEF LogInv, TypeOK
<1>2. IsFiniteSet(M)
  <2>1. DOMAIN messages = 1 .. Len(messages) /\ Len(messages) \in Nat
    BY <1>1
  <2>2. IsFiniteSet(DOMAIN messages)
    BY <2>1, FS_Interval
  <2> QED
    BY <2>2, FS_Subset DEF Between
<1>3. \A i \in M : /\ i \in DOMAIN messages /\ i \in Nat
                   /\ messages[i].channel = c /\ messages[i].seq \in lo .. hi
  BY <1>1, MessageOK DEF Between
<1>4. seqOf \in [M -> lo .. hi]
  BY <1>3
<1>5. ASSUME NEW i \in M, NEW j \in M, seqOf[i] = seqOf[j]
      PROVE  i = j
  <2>1. /\ i \in Nat /\ j \in Nat
        /\ messages[i].seq = messages[j].seq /\ messages[i].seq \in Nat
    BY <1>3, <1>5
  <2>2. ~(i < j) /\ ~(j < i)
    BY <1>3, <2>1 DEF LogInv, SeqGapFree
  <2> QED
    BY <2>1, <2>2
<1>6. ASSUME NEW n \in lo .. hi
      PROVE  \E i \in M : seqOf[i] = n
  <2>1. n \in 1 .. channel_seq[c]
    BY <1>1
  <2>2. PICK i \in DOMAIN messages : messages[i].channel = c /\ messages[i].seq = n
    BY <2>1 DEF LogInv, SeqGapFree
  <2> QED
    BY <2>2 DEF Between
<1>7. seqOf \in Bijection(M, lo .. hi)
  <2> HIDE DEF M, seqOf
  <2> QED
    BY <1>4, <1>5, <1>6, Fun_IsBij
<1>8. Cardinality(M) = Cardinality(lo .. hi)
  <2>1. ExistsBijection(M, lo .. hi)
    BY <1>7 DEF ExistsBijection
  <2> HIDE DEF M
  <2> QED
    BY <1>2, <2>1, FS_Bijection
<1>9. Cardinality(lo .. hi) = IF lo > hi THEN 0 ELSE hi - lo + 1
  BY FS_Interval
<1> QED
  BY <1>8, <1>9

\* A page is exactly the next numbers of the channel, and has_more is the truth.
LEMMA PageIsNext ==
    ASSUME LogInv, NEW c \in Channels, NEW since \in Nat \ {0}, NEW limit \in Nat
    PROVE  LET page == {messages[i].seq : i \in ReplayPage(c, since, limit)}
           IN  /\ page = {n \in 1 .. channel_seq[c] : since <= n /\ n < since + limit}
               /\ HasMore(c, since, limit) <=> since + limit <= channel_seq[c]
<1> DEFINE last == channel_seq[c]
<1>1. last \in Nat
  BY DEF LogInv, TypeOK
<1>2. ReplayMatches(c, since) = Between(c, since, last)
  BY <1>1, MessageOK DEF ReplayMatches, Between
<1>3. ASSUME NEW i \in DOMAIN messages, messages[i].channel = c, since <= messages[i].seq
      PROVE  i \in ReplayPage(c, since, limit) <=> messages[i].seq < since + limit
  <2> DEFINE n == messages[i].seq
  <2>1. n \in Nat /\ n <= last /\ i \in Nat
    BY <1>1, <1>3, MessageOK
  <2>2. {j \in Between(c, since, last) :
            \/ messages[j].seq < messages[i].seq
            \/ messages[j].seq = messages[i].seq /\ j <= i} = Between(c, since, n)
    <3>1. ASSUME NEW j \in DOMAIN messages, messages[j].channel = c
          PROVE  /\ messages[j].seq \in Nat /\ messages[j].seq <= last
                 /\ messages[j].seq = n => j <= i
      <4>1. /\ j \in Nat /\ messages[j].seq \in Nat /\ messages[j].seq <= last
            /\ i < j => n < messages[j].seq
        BY <1>1, <1>3, <3>1, MessageOK DEF LogInv, SeqGapFree
      <4> QED
        BY <2>1, <4>1
    <3> QED
      BY <2>1, <3>1 DEF Between
  <2>3. Cardinality(Between(c, since, n)) = n - since + 1
    BY <1>3, <2>1, CountBetween
  <2>4. i \in Between(c, since, last)
    BY <1>3, <2>1 DEF Between
  <2>5. i \in ReplayPage(c, since, limit) <=> n - since + 1 <= limit
    BY <1>2, <2>2, <2>3, <2>4 DEF ReplayPage
  <2> QED
    BY <2>1, <2>5
<1>4. ASSUME NEW n
      PROVE  n \in {messages[i].seq : i \in ReplayPage(c, since, limit)}
                <=> n \in 1 .. last /\ since <= n /\ n < since + limit
  <2>1. ASSUME NEW i \in ReplayPage(c, since, limit)
        PROVE  /\ messages[i].seq \in 1 .. last
               /\ since <= messages[i].seq /\ messages[i].seq < since + limit
    <3>1. /\ i \in DOMAIN messages /\ messages[i].channel = c
          /\ since <= messages[i].seq /\ messages[i].seq <= last
      BY <1>2 DEF ReplayPage, Between
    <3> QED
      BY <1>3, <3>1, MessageOK
  <2>2. ASSUME n \in 1 .. last, since <= n, n < since + limit
        PROVE  \E i \in ReplayPage(c, since, limit) : messages[i].seq = n
    <3>1. PICK i \in DOMAIN messages : messages[i].channel = c /\ messages[i].seq = n
      BY <2>2 DEF LogInv, SeqGapFree
    <3> QED
      BY <1>3, <2>2, <3>1
  <2> QED
    BY <2>1, <2>2
<1>5. {messages[i].seq : i \in ReplayPage(c, since, limit)}
         = {n \in 1 .. last : since <= n /\ n < since + limit}
  BY <1>4
<1>6. HasMore(c, since, limit) <=> since + limit <= last
  <2>1. Cardinality(Between(c, since, last)) = IF since > last THEN 0 ELSE last - since + 1
    BY <1>1, CountBetween
  <2> QED
    BY <1>1, <1>2, <2>1 DEF HasMore
<1> QED
  BY <1>5, <1>6

\* A client that pages through a channel with replay() misses nothing and gets nothing
\* twice, and has_more tells it when to stop, for every page size and every start.
THEOREM ReplayCorrect == Spec => []ReplayPagesAreComplete
<1>1. LogInv => ReplayPagesAreComplete
  <2> SUFFICES ASSUME LogInv, NEW c \in Channels, NEW since \in 1 .. MaxMessages + 1,
                      NEW limit \in Limits
               PROVE  LET page == {messages[i].seq : i \in ReplayPage(c, since, limit)}
                      IN  /\ page = {n \in 1 .. channel_seq[c] : since <= n /\ n < since + limit}
                          /\ HasMore(c, since, limit) <=> since + limit <= channel_seq[c]
    BY DEF ReplayPagesAreComplete
  <2>1. since \in Nat \ {0} /\ limit \in Nat
    BY StoreAssumption
  <2> QED
    BY <2>1, PageIsNext
<1>2. Inv => LogInv
  BY DEF Inv
<1> QED
  BY <1>1, <1>2, Invariance, PTL

-----------------------------------------------------------------------------
(* Presence and membership.                                                *)

\* The events about an agent in the log.
EventsOf(a) == {i \in DOMAIN messages : messages[i].body # Opaque /\ messages[i].body.agent = a}

\* What agrees for one agent: it has a record when there is an event, and the newest
\* event reports the status of the record.
Agrees(a) ==
    /\ EventsOf(a) = {} <=> liveness[a] = None
    /\ \A i \in EventsOf(a) :
          (\A j \in EventsOf(a) : j <= i) => messages[i].body.status = liveness[a].status

LEMMA PresenceIsAgreement == PresenceAgrees <=> \A a \in Agents : Agrees(a)
  BY DEF PresenceAgrees, Agrees, EventsOf

\* Where an agent's events and record are left alone, they go on agreeing.
LEMMA AgreesSame ==
    ASSUME NEW a, Agrees(a), EventsOf(a)' = EventsOf(a), liveness'[a] = liveness[a],
           \A i \in EventsOf(a) : messages'[i].body = messages[i].body
    PROVE  Agrees(a)'
  BY DEF Agrees

\* Marking messages as delivered leaves the events alone.
LEMMA AgreesMark ==
    ASSUME TypeOK, PresenceAgrees, NEW a \in Agents, NEW S, Mark(a, S), UNCHANGED liveness
    PROVE  PresenceAgrees'
<1>1. /\ DOMAIN messages' = DOMAIN messages
      /\ \A i \in DOMAIN messages : messages'[i].body = messages[i].body
  <2>1. DOMAIN messages' = DOMAIN messages
    BY MarkEffect
  <2>2. ASSUME NEW i \in DOMAIN messages
        PROVE  messages'[i].body = messages[i].body
    <3>1. messages[i] \in Message
      BY DEF TypeOK
    <3> QED
      BY <3>1 DEF Mark, Message
  <2> QED
    BY <2>1, <2>2
<1>2. ASSUME NEW b \in Agents
      PROVE  EventsOf(b)' = EventsOf(b) /\ \A i \in EventsOf(b) : messages'[i].body = messages[i].body
  BY <1>1 DEF EventsOf
<1>3. \A b \in Agents : Agrees(b)'
  BY <1>2, AgreesSame, PresenceIsAgreement
<1> QED
  BY <1>3 DEF PresenceAgrees, Agrees, EventsOf

\* Filing an ordinary message adds no event.
LEMMA AgreesSend ==
    ASSUME TypeOK, PresenceAgrees, NEW c \in Channels, Send(c)
    PROVE  PresenceAgrees'
<1>1. LongerLog(c, Opaque) /\ DOMAIN messages' = DOMAIN messages \cup {Len(messages) + 1}
  BY StoreEffect DEF Send, Bodies
<1>2. messages'[Len(messages) + 1].body = Opaque /\ UNCHANGED liveness
  BY <1>1 DEF LongerLog, NewMessage, Send
<1>3. ASSUME NEW b \in Agents
      PROVE  EventsOf(b)' = EventsOf(b) /\ \A i \in EventsOf(b) : messages'[i].body = messages[i].body
  BY <1>1, <1>2 DEF EventsOf, LongerLog
<1>4. \A b \in Agents : Agrees(b)'
  BY <1>2, <1>3, AgreesSame, PresenceIsAgreement
<1> QED
  BY <1>4 DEF PresenceAgrees, Agrees, EventsOf

\* A heartbeat files the event and writes the record at once.
LEMMA AgreesHeartbeat ==
    ASSUME TypeOK, PresenceAgrees, NEW a \in Agents, NEW s \in Statuses, NEW t \in TTLs,
           Heartbeat(a, s, t)
    PROVE  PresenceAgrees'
<1> DEFINE n == Len(messages) + 1
           event == [agent |-> a, status |-> s]
           record == [status |-> s, recorded_at |-> now, expires_at |-> ExpiresAt(t)]
<1>1. event \in Bodies /\ Presence \in Channels /\ event # Opaque
  BY StoreAssumption DEF Bodies, Event
<1>2. LongerLog(Presence, event) /\ DOMAIN messages' = DOMAIN messages \cup {n}
  BY <1>1, StoreEffect DEF Heartbeat
<1>3. messages'[n].body = event
  BY <1>2 DEF LongerLog, NewMessage
<1>4. \A i \in DOMAIN messages : i \in Nat /\ i < n /\ messages'[i] = messages[i]
  BY <1>2 DEF LongerLog, TypeOK
<1>5. liveness' = [liveness EXCEPT ![a] = record] /\ liveness \in [Agents -> LiveRecord \cup {None}]
  BY DEF Heartbeat, TypeOK
<1>6. record # None
  <2>1. record \in LiveRecord
    BY StoreAssumption DEF LiveRecord, ExpiresAt, TypeOK
  <2> QED
    BY <2>1, StoreAssumption DEF LiveRecord
<1>7. Agrees(a)'
  <2>1. EventsOf(a)' = EventsOf(a) \cup {n}
    BY <1>1, <1>2, <1>3, <1>4 DEF EventsOf
  <2>2. ASSUME NEW i \in EventsOf(a)', \A j \in EventsOf(a)' : j <= i
        PROVE  i = n
    BY <1>4, <2>1, <2>2 DEF EventsOf
  <2>3. liveness'[a] = record /\ record.status = s /\ messages'[n].body.status = s
    BY <1>3, <1>5
  <2> QED
    BY <1>6, <2>1, <2>2, <2>3 DEF Agrees
<1>8. ASSUME NEW b \in Agents, b # a
      PROVE  Agrees(b)'
  <2>1. EventsOf(b)' = EventsOf(b) /\ \A i \in EventsOf(b) : messages'[i].body = messages[i].body
    BY <1>2, <1>3, <1>4, <1>8 DEF EventsOf
  <2>2. liveness'[b] = liveness[b]
    BY <1>5, <1>8
  <2> QED
    BY <2>1, <2>2, AgreesSame, PresenceIsAgreement
<1>9. \A b \in Agents : Agrees(b)'
  BY <1>7, <1>8
<1> QED
  BY <1>9 DEF PresenceAgrees, Agrees, EventsOf

\* list_agents and a subscriber of sox/presence cannot disagree about what an agent
\* reported last: heartbeat() writes the record and files the event under one lock.
THEOREM PresenceCorrect == Spec => []PresenceAgrees
<1>1. Init => PresenceAgrees
  BY DEF Init, PresenceAgrees
<1>2. TypeOK /\ PresenceAgrees /\ [Next]_vars => PresenceAgrees'
  <2> SUFFICES ASSUME TypeOK, PresenceAgrees, [Next]_vars
               PROVE  PresenceAgrees'
    OBVIOUS
  <2>1. CASE UNCHANGED <<messages, liveness>>
    BY <2>1 DEF PresenceAgrees
  <2>2. CASE \E a \in Agents, cs \in Scopes, k \in Limits : Recv(a, cs, k)
    BY <2>2, AgreesMark DEF Recv
  <2>3. CASE \E a \in Agents, ps \in SUBSET Patterns \ {{}} : Unsubscribe(a, ps)
    BY <2>3, AgreesMark DEF Unsubscribe
  <2>4. CASE \E c \in Channels : Send(c)
    BY <2>4, AgreesSend
  <2>5. CASE \E a \in Agents, s \in Statuses, t \in TTLs : Heartbeat(a, s, t)
    BY <2>5, AgreesHeartbeat
  <2> QED
    BY <2>1, <2>2, <2>3, <2>4, <2>5
       DEF Next, Scopes, vars, Subscribe, Ack, GroupCreate, GroupInvite, GroupJoin, GroupLeave, Tick
<1> QED
  BY <1>1, <1>2, TypeCorrect, PTL DEF Spec

\* Only the creator of a group and agents an active member invited become members
\* (group_create, group_invite and group_join).
THEOREM MembershipCorrect == Spec => MembershipIsEarned
<1> DEFINE Earned ==
        \A g \in Groups, a \in Agents :
          /\ (groups[g][a] # "active" /\ groups'[g][a] = "active")
                => \/ groups[g][a] = "invited"
                   \/ \A b \in Agents \ {a} : groups'[g][b] = "none"
          /\ (groups[g][a] = "none" /\ groups'[g][a] = "invited")
                => \E b \in Agents : groups[g][b] = "active"
<1>1. TypeOK /\ [Next]_vars => Earned \/ UNCHANGED groups
  <2> SUFFICES ASSUME TypeOK, [Next]_vars
               PROVE  Earned \/ UNCHANGED groups
    OBVIOUS
  <2>1. groups \in [Groups -> [Agents -> {"none", "invited", "active"}]]
    BY DEF TypeOK
  <2>2. ASSUME NEW a \in Agents, NEW g \in Groups, GroupCreate(a, g)
        PROVE  Earned
    BY <2>1, <2>2 DEF GroupCreate
  <2>3. ASSUME NEW a \in Agents, NEW b \in Agents, NEW g \in Groups, GroupInvite(a, g, b)
        PROVE  Earned
    BY <2>1, <2>3 DEF GroupInvite
  <2>4. ASSUME NEW a \in Agents, NEW g \in Groups, GroupJoin(a, g)
        PROVE  Earned
    BY <2>1, <2>4 DEF GroupJoin
  <2>5. ASSUME NEW a \in Agents, NEW g \in Groups, GroupLeave(a, g)
        PROVE  Earned
    BY <2>1, <2>5 DEF GroupLeave
  <2> QED
    BY <2>2, <2>3, <2>4, <2>5
       DEF Next, vars, Send, Recv, Subscribe, Unsubscribe, Ack, Heartbeat, Tick
<1> QED
  BY <1>1, TypeCorrect, PTL DEF Spec, MembershipIsEarned

=============================================================================
