---------------------------- MODULE Clients_proofs --------------------------
(***************************************************************************)
(* What is proved of the two programs that use the server: of the saved    *)
(* seq of the reference agent (ReferenceAgent), for any number of messages,*)
(* lives and stops and any size of the replay pages, and of what the chat  *)
(* TUI shows (ChatClient), for any number of channels, commands of the     *)
(* user, calls, messages and faults.                                       *)
(***************************************************************************)
EXTENDS ReferenceAgent, ChatClient, TLAPS, FiniteSetTheorems, SequenceTheorems

-----------------------------------------------------------------------------
(* The reference agent.                                                    *)

Kinds == {"clarification_request", "other"}

\* The starts a behaviour may have: any log, bounds and number of lives.
StartStates == [log : Seq(Kinds), room : Nat, lives : Nat]

Handling == {"busy", "next", "received", "handling", "settle", "save"}

Pausing == {"poll", "mark", "idle", "stop"}

Starting == {"down", "subscribe", "greet", "drain", "discard", "recover", "replay"}

StopStates == [{"signal", "run"} -> {"off", "waiting", "unsubscribing", "done"}]

ChannelStates ==
    [log : Seq(Kinds), delivered : SUBSET Nat, subscribed : BOOLEAN,
     presence : {"unknown", "online", "busy", "offline"}]

MailboxStates == [buffer : Seq(Nat), last_seen : Nat]

AgentStates ==
    [pc : Starting \cup Pausing \cup Handling, once : BOOLEAN, batch : Seq(Nat),
     replaying : BOOLEAN, since : Nat, has_more : BOOLEAN,
     pending : SUBSET Nat, stop_event : BOOLEAN]

RecordStates ==
    [handled : SUBSET Nat, dropped : SUBSET Nat, strays : SUBSET Nat,
     exit : {"none", "failed", "crashed", "once", "clean", "unsettled"},
     lives : Nat, room : Nat]

TypeInv ==
    /\ channel \in ChannelStates
    /\ mailbox \in MailboxStates
    /\ seq_json \in Nat
    /\ self \in AgentStates
    /\ stopping \in StopStates
    /\ record \in RecordStates

Count == Len(channel.log)

\* What need not be handled any more, and what the process holds.
Accounted == record.handled \cup record.dropped \cup record.strays

InFlight == Range(self.batch) \cup Range(mailbox.buffer)

Rising(s) == \A x, y \in DOMAIN s : x < y => s[x] < s[y]

\* The saved seq has passed accounted messages only.
SavedInv == 1 .. seq_json \subseteq Accounted /\ seq_json <= Count

\* In its first life, and in a later one once the last page is being replayed, the
\* agent holds whatever was handed out or buffered and is not accounted for.
Covering ==
    \/ seq_json = 0 /\ self.pc # "down"
    \/ self.pc \notin Starting /\ ~(self.replaying /\ self.has_more)

HeldInv ==
    Covering =>
        channel.delivered \cup 1 .. mailbox.last_seen \subseteq Accounted \cup InFlight

\* Before a seq was saved, nothing handed out is forgotten between two lives.
AtRestInv ==
    (seq_json = 0 /\ self.pc = "down") => channel.delivered \subseteq Accounted

\* Messages are marked from the oldest on.
DeliveredInv ==
    /\ channel.delivered \subseteq 1 .. Count
    /\ \A m \in channel.delivered : 1 .. m \subseteq channel.delivered

\* Batch and buffer are in the order of the log, one behind the other.
OrderInv ==
    /\ mailbox.last_seen <= Count
    /\ Range(mailbox.buffer) \subseteq 1 .. mailbox.last_seen
    /\ Range(self.batch) \subseteq 1 .. Count
    /\ Rising(mailbox.buffer)
    /\ Rising(self.batch)
    /\ ~self.replaying =>
           /\ Range(self.batch) \subseteq 1 .. mailbox.last_seen
           /\ \A m \in Range(self.batch), b \in Range(mailbox.buffer) : m < b

BatchInv ==
    /\ self.pc \notin {"discard", "mark"} \cup Handling => self.batch = <<>>
    /\ self.pc \in Handling => self.batch # <<>>
    /\ self.replaying => self.pc \in Handling
    /\ self.pc = "save" => Head(self.batch) \in record.handled

\* A replay goes through the log from behind the saved seq without a gap.
ReplayInv ==
    /\ self.replaying =>
           /\ \A x, y \in DOMAIN self.batch : self.batch[y] = self.batch[x] + y - x
           /\ 1 .. Head(self.batch) - 1 \subseteq Accounted
    /\ self.pc = "replay" =>
           /\ 1 .. self.since - 1 \subseteq Accounted
           /\ self.since \in 1 .. Count + 1
    /\ self.replaying \/ self.pc = "replay" => seq_json # 0

\* What is pending is the message being handled.
PendingInv ==
    self.pending \subseteq IF self.pc \in {"received", "handling", "settle"}
                           THEN {Head(self.batch)} ELSE {}

\* How an agent stops.
StopInv ==
    /\ record.exit # "none" => self.pc = "down"
    /\ record.exit # "unsettled"
    /\ self.pc = "down" => stopping = NotStopping
    /\ stopping["run"] # "off" => self.pc = "stop"
    /\ stopping["run"] \in {"unsubscribing", "done"} => channel.presence = "offline"
    /\ stopping["run"] = "done" => ~channel.subscribed
    /\ record.exit = "once" => channel.presence = "offline" /\ ~channel.subscribed

ReadingInv ==
    /\ SavedInv
    /\ HeldInv
    /\ AtRestInv
    /\ DeliveredInv
    /\ OrderInv
    /\ BatchInv
    /\ ReplayInv

Inv == TypeInv /\ ReadingInv /\ PendingInv /\ StopInv

-----------------------------------------------------------------------------
(* Sequences of messages.                                                  *)

LEMMA FunctionIsSeq ==
    ASSUME NEW n \in Nat, NEW g \in [1 .. n -> Nat]
    PROVE  g \in Seq(Nat) /\ Len(g) = n
OBVIOUS

LEMMA EmptyIs == <<>> \in Seq(Nat) /\ Range(<<>>) = {} /\ Rising(<<>>) /\ Len(<<>>) = 0
<1>1. <<>> \in Seq(Nat) /\ DOMAIN <<>> = {} /\ Len(<<>>) = 0
  BY EmptySeq, LenProperties
<1> QED BY <1>1 DEF Range, Rising

\* What Buffer yields: the new messages in order, the greatest last.
LEMMA OldestFirstIs ==
    ASSUME NEW n \in Nat, NEW S \in SUBSET (1 .. n), S # {}, NEW l \in OldestFirst(S)
    PROVE  /\ l \in Seq(Nat)
           /\ Range(l) = S
           /\ Rising(l)
           /\ l[Len(l)] \in S
           /\ \A m \in S : m <= l[Len(l)]
<1>0. S \subseteq Nat
  OBVIOUS
<1>1. IsFiniteSet(S) /\ Cardinality(S) \in Nat
  <2>1. IsFiniteSet(1 .. n)
    BY FS_Interval
  <2> QED BY <2>1, FS_Subset, FS_CardinalityType
<1>2. /\ l \in [1 .. Cardinality(S) -> S]
      /\ S \subseteq Range(l)
      /\ \A x, y \in DOMAIN l : x < y => l[x] < l[y]
  BY DEF OldestFirst
<1>3. l \in [1 .. Cardinality(S) -> Nat]
  BY <1>0, <1>2
<1>4. l \in Seq(Nat) /\ Len(l) = Cardinality(S)
  BY <1>1, <1>3, FunctionIsSeq
<1>5. Cardinality(S) # 0
  BY <1>1, FS_EmptySet
<1>6. Range(l) = S
  BY <1>2 DEF Range
<1>7. Len(l) \in DOMAIN l /\ \A x \in DOMAIN l : x = Len(l) \/ x < Len(l)
  BY <1>1, <1>2, <1>4, <1>5
<1>8. l[Len(l)] \in S
  BY <1>2, <1>7
<1>9. ASSUME NEW m \in S PROVE m <= l[Len(l)]
  <2>1. PICK x \in DOMAIN l : m = l[x]
    BY <1>2 DEF Range
  <2>2. l[x] = l[Len(l)] \/ l[x] < l[Len(l)]
    BY <1>2, <1>7
  <2>3. l[x] \in Nat /\ l[Len(l)] \in Nat
    BY <1>0, <1>8, <2>1
  <2> QED BY <2>1, <2>2, <2>3
<1> QED BY <1>2, <1>4, <1>6, <1>8, <1>9 DEF Rising

LEMMA RangeConcat ==
    ASSUME NEW s \in Seq(Nat), NEW t \in Seq(Nat)
    PROVE  /\ s \o t \in Seq(Nat)
           /\ Range(s \o t) = Range(s) \cup Range(t)
<1>1. /\ s \o t \in Seq(Nat)
      /\ Len(s \o t) = Len(s) + Len(t)
      /\ \A i \in 1 .. Len(s) + Len(t) :
            (s \o t)[i] = IF i <= Len(s) THEN s[i] ELSE t[i - Len(s)]
  BY ConcatProperties
<1>2. /\ DOMAIN s = 1 .. Len(s) /\ Len(s) \in Nat
      /\ DOMAIN t = 1 .. Len(t) /\ Len(t) \in Nat
      /\ DOMAIN (s \o t) = 1 .. Len(s) + Len(t)
  BY <1>1, LenProperties
<1>3. ASSUME NEW e \in Range(s \o t) PROVE e \in Range(s) \cup Range(t)
  <2>1. PICK i \in 1 .. Len(s) + Len(t) : e = (s \o t)[i]
    BY <1>2, <1>3 DEF Range
  <2>2. CASE i <= Len(s)
    <3>1. i \in DOMAIN s /\ e = s[i]
      BY <1>1, <1>2, <2>1, <2>2
    <3> QED BY <3>1 DEF Range
  <2>3. CASE i > Len(s)
    <3>1. i - Len(s) \in DOMAIN t /\ e = t[i - Len(s)]
      BY <1>1, <1>2, <2>1, <2>3
    <3> QED BY <3>1 DEF Range
  <2> QED BY <1>2, <2>2, <2>3
<1>4. ASSUME NEW i \in DOMAIN s PROVE s[i] \in Range(s \o t)
  <2>1. i \in DOMAIN (s \o t) /\ (s \o t)[i] = s[i]
    BY <1>1, <1>2
  <2> QED BY <2>1 DEF Range
<1>5. ASSUME NEW i \in DOMAIN t PROVE t[i] \in Range(s \o t)
  <2>1. i + Len(s) \in 1 .. Len(s) + Len(t) /\ ~(i + Len(s) <= Len(s))
    BY <1>2
  <2>2. (i + Len(s)) - Len(s) = i
    BY <1>2
  <2>3. i + Len(s) \in DOMAIN (s \o t) /\ (s \o t)[i + Len(s)] = t[i]
    BY <1>1, <1>2, <2>1, <2>2
  <2> QED BY <2>3 DEF Range
<1> QED BY <1>1, <1>3, <1>4, <1>5 DEF Range

LEMMA RisingConcat ==
    ASSUME NEW s \in Seq(Nat), NEW t \in Seq(Nat), Rising(s), Rising(t),
           \A m \in Range(s), b \in Range(t) : m < b
    PROVE  Rising(s \o t)
<1>1. /\ s \o t \in Seq(Nat)
      /\ Len(s \o t) = Len(s) + Len(t)
      /\ \A i \in 1 .. Len(s) + Len(t) :
            (s \o t)[i] = IF i <= Len(s) THEN s[i] ELSE t[i - Len(s)]
  BY ConcatProperties
<1>2. /\ DOMAIN s = 1 .. Len(s) /\ Len(s) \in Nat
      /\ DOMAIN t = 1 .. Len(t) /\ Len(t) \in Nat
      /\ DOMAIN (s \o t) = 1 .. Len(s) + Len(t)
  BY <1>1, LenProperties
<1> SUFFICES ASSUME NEW x \in 1 .. Len(s) + Len(t), NEW y \in 1 .. Len(s) + Len(t),
                    x < y
             PROVE  (s \o t)[x] < (s \o t)[y]
  BY <1>2 DEF Rising
<1>3. CASE y <= Len(s)
  <2>1. x \in DOMAIN s /\ y \in DOMAIN s
    BY <1>2, <1>3
  <2>2. (s \o t)[x] = s[x] /\ (s \o t)[y] = s[y]
    BY <1>1, <1>2, <2>1
  <2> QED BY <2>1, <2>2 DEF Rising
<1>4. CASE x > Len(s)
  <2>1. /\ x - Len(s) \in DOMAIN t /\ y - Len(s) \in DOMAIN t
        /\ x - Len(s) < y - Len(s)
    BY <1>2, <1>4
  <2>2. (s \o t)[x] = t[x - Len(s)] /\ (s \o t)[y] = t[y - Len(s)]
    BY <1>1, <1>2, <1>4
  <2> QED BY <2>1, <2>2 DEF Rising
<1>5. CASE x <= Len(s) /\ y > Len(s)
  <2>1. x \in DOMAIN s /\ y - Len(s) \in DOMAIN t
    BY <1>2, <1>5
  <2>2. (s \o t)[x] = s[x] /\ (s \o t)[y] = t[y - Len(s)]
    BY <1>1, <1>2, <1>5
  <2>3. s[x] \in Range(s) /\ t[y - Len(s)] \in Range(t)
    BY <2>1 DEF Range
  <2> QED BY <2>2, <2>3
<1>6. y <= Len(s) \/ x > Len(s) \/ (x <= Len(s) /\ y > Len(s))
  BY <1>2
<1> QED BY <1>3, <1>4, <1>5, <1>6

\* The rest of a batch, when its first message has been handled.
LEMMA RisingTail ==
    ASSUME NEW s \in Seq(Nat), s # <<>>
    PROVE  /\ Tail(s) \in Seq(Nat)
           /\ Len(Tail(s)) = Len(s) - 1
           /\ Head(s) \in Range(s)
           /\ Range(s) = {Head(s)} \cup Range(Tail(s))
           /\ Rising(s) => Rising(Tail(s)) /\ \A m \in Range(Tail(s)) : Head(s) < m
<1>1. /\ Head(s) \in Nat /\ Head(s) = s[1]
      /\ Tail(s) \in Seq(Nat)
      /\ Len(Tail(s)) = Len(s) - 1
      /\ \A i \in 1 .. Len(Tail(s)) : Tail(s)[i] = s[i + 1]
  BY HeadTailProperties
<1>2. /\ Len(s) \in Nat /\ Len(s) > 0
      /\ DOMAIN s = 1 .. Len(s)
      /\ DOMAIN Tail(s) = 1 .. Len(s) - 1
  BY <1>1, LenProperties, EmptySeq
<1>3. \A i \in 1 .. Len(s) - 1 : Tail(s)[i] = s[i + 1] /\ i + 1 \in DOMAIN s /\ 1 < i + 1
  BY <1>1, <1>2
<1>4. 1 \in DOMAIN s
  BY <1>2
<1>5. \A i \in DOMAIN s : i = 1 \/ (i - 1 \in DOMAIN Tail(s) /\ Tail(s)[i - 1] = s[i])
  <2> TAKE i \in DOMAIN s
  <2>1. CASE i = 1
    BY <2>1
  <2>2. CASE i # 1
    <3>1. i - 1 \in 1 .. Len(s) - 1 /\ (i - 1) + 1 = i
      BY <1>2, <2>2
    <3>2. Tail(s)[i - 1] = s[(i - 1) + 1]
      BY <1>3, <3>1
    <3> QED BY <1>2, <3>1, <3>2
  <2> QED BY <2>1, <2>2
<1>6. Head(s) \in Range(s)
  BY <1>1, <1>4 DEF Range
<1>7. Range(s) \subseteq {Head(s)} \cup Range(Tail(s))
  <2>1. ASSUME NEW i \in DOMAIN s PROVE s[i] = Head(s) \/ s[i] \in Range(Tail(s))
    <3>1. CASE i = 1
      BY <1>1, <3>1
    <3>2. CASE i - 1 \in DOMAIN Tail(s) /\ Tail(s)[i - 1] = s[i]
      BY <3>2 DEF Range
    <3> QED BY <1>5, <3>1, <3>2
  <2> QED BY <2>1 DEF Range
<1>8. Range(Tail(s)) \subseteq Range(s)
  BY <1>2, <1>3 DEF Range
<1>9. ASSUME Rising(s) PROVE Rising(Tail(s)) /\ \A m \in Range(Tail(s)) : Head(s) < m
  <2>1. ASSUME NEW x \in 1 .. Len(s) - 1, NEW y \in 1 .. Len(s) - 1, x < y
        PROVE  Tail(s)[x] < Tail(s)[y]
    <3>1. x + 1 < y + 1
      BY <1>2, <2>1
    <3> QED BY <1>3, <1>9, <3>1 DEF Rising
  <2>2. \A i \in 1 .. Len(s) - 1 : Head(s) < Tail(s)[i]
    BY <1>1, <1>3, <1>4, <1>9 DEF Rising
  <2> QED BY <1>2, <2>1, <2>2 DEF Rising, Range
<1> QED BY <1>1, <1>6, <1>7, <1>8, <1>9

-----------------------------------------------------------------------------
(* Types.                                                                  *)

LEMMA FieldTypes ==
    TypeInv => /\ channel.log \in Seq(Kinds)
               /\ channel.delivered \subseteq Nat
               /\ mailbox.buffer \in Seq(Nat)
               /\ mailbox.last_seen \in Nat
               /\ seq_json \in Nat
               /\ self.pc \in Starting \cup Pausing \cup Handling
               /\ self.batch \in Seq(Nat)
               /\ self.since \in Nat
               /\ self.pending \subseteq Nat
               /\ record.handled \subseteq Nat
               /\ record.dropped \subseteq Nat
               /\ record.strays \subseteq Nat
               /\ record.lives \in Nat
               /\ record.room \in Nat
BY DEF TypeInv, ChannelStates, MailboxStates, AgentStates, RecordStates

LEMMA FieldTypesNext ==
    (TypeInv => /\ channel.log \in Seq(Kinds)
                /\ channel.delivered \subseteq Nat
                /\ mailbox.buffer \in Seq(Nat)
                /\ mailbox.last_seen \in Nat
                /\ seq_json \in Nat
                /\ self.pc \in Starting \cup Pausing \cup Handling
                /\ self.batch \in Seq(Nat)
                /\ self.since \in Nat
                /\ self.pending \subseteq Nat
                /\ record.handled \subseteq Nat
                /\ record.dropped \subseteq Nat
                /\ record.strays \subseteq Nat
                /\ record.lives \in Nat
                /\ record.room \in Nat)'
BY FieldTypes, PTL

LEMMA InHandIs == TypeInv => InHand \subseteq InFlight /\ InHand \subseteq Nat
<1> SUFFICES ASSUME TypeInv PROVE InHand \subseteq InFlight /\ InFlight \subseteq Nat
  OBVIOUS
<1>1. self.batch \in Seq(Nat) /\ mailbox.buffer \in Seq(Nat)
  BY FieldTypes
<1>2. Range(self.batch) \subseteq Nat /\ Range(mailbox.buffer) \subseteq Nat
  BY <1>1, RangeOfSeq
<1> QED BY <1>2 DEF InHand, InFlight

LEMMA UndeliveredIs ==
    TypeInv => /\ Count \in Nat
               /\ DOMAIN channel.log = 1 .. Count
               /\ Undelivered \subseteq 1 .. Count
               /\ Undelivered \subseteq Nat
<1> SUFFICES ASSUME TypeInv
             PROVE  /\ Count \in Nat
                    /\ DOMAIN channel.log = 1 .. Count
                    /\ Undelivered \subseteq 1 .. Count
  OBVIOUS
<1>1. channel.log \in Seq(Kinds)
  BY FieldTypes
<1>2. Count \in Nat /\ DOMAIN channel.log = 1 .. Count
  BY <1>1, LenProperties DEF Count
<1> QED BY <1>2 DEF Undelivered

LEMMA TypeStart ==
    ASSUME NEW starts \in SUBSET StartStates, AgentInit(starts)
    PROVE  TypeInv
<1>1. PICK s \in starts :
         LET ran == s.log # <<>>
         IN  /\ channel = [log |-> s.log, delivered |-> IF ran THEN {1} ELSE {},
                           subscribed |-> ran, presence |-> IF ran THEN "busy" ELSE "unknown"]
             /\ seq_json = IF ran THEN 1 ELSE 0
             /\ record = [handled |-> IF ran THEN {1} ELSE {}, dropped |-> {}, strays |-> {},
                          exit |-> "none", lives |-> s.lives, room |-> s.room]
  BY DEF AgentInit
<1>2. s.log \in Seq(Kinds) /\ s.lives \in Nat /\ s.room \in Nat
  BY DEF StartStates
<1>3. channel \in ChannelStates /\ seq_json \in Nat
  BY <1>1, <1>2 DEF ChannelStates
<1>4. record \in RecordStates
  BY <1>1, <1>2 DEF RecordStates
<1>5. mailbox \in MailboxStates
  BY EmptyIs DEF AgentInit, MailboxStates
<1>6. self \in AgentStates
  BY EmptyIs DEF AgentInit, AgentStates, Down, Starting
<1>7. stopping \in StopStates
  BY DEF AgentInit, StopStates, NotStopping
<1> QED BY <1>3, <1>4, <1>5, <1>6, <1>7 DEF TypeInv

LEMMA AgentFields ==
    ASSUME NEW s \in AgentStates, NEW p \in Starting \cup Pausing \cup Handling,
           NEW b \in Seq(Nat), NEW h \in BOOLEAN, NEW r \in BOOLEAN, NEW n \in Nat
    PROVE  /\ [s EXCEPT !.pc = p] \in AgentStates
           /\ [s EXCEPT !.pc = p, !.batch = b] \in AgentStates
           /\ [s EXCEPT !.pc = p, !.since = n] \in AgentStates
           /\ [s EXCEPT !.pc = p, !.batch = b, !.has_more = h, !.replaying = r]
                  \in AgentStates
           /\ [s EXCEPT !.batch = b, !.since = n, !.replaying = r, !.pc = p] \in AgentStates
BY DEF AgentStates

\* The message an agent is handling.
LEMMA CurrentIs ==
    ASSUME TypeInv, BatchInv, self.pc \in Handling
    PROVE  /\ self.batch \in Seq(Nat) /\ self.batch # <<>>
           /\ Current \in Nat
           /\ Current \in Range(self.batch)
           /\ Tail(self.batch) \in Seq(Nat)
           /\ Len(Tail(self.batch)) = Len(self.batch) - 1
<1>1. self.batch \in Seq(Nat) /\ self.batch # <<>>
  BY FieldTypes DEF BatchInv
<1> QED BY <1>1, RisingTail, HeadTailProperties DEF Current

LEMMA TypeStep ==
    ASSUME TypeInv, BatchInv, [AgentStep]_agentVars
    PROVE  TypeInv'
<1>0. /\ Count \in Nat /\ DOMAIN channel.log = 1 .. Count
      /\ Undelivered \subseteq Nat
      /\ InHand \subseteq Nat
      /\ Range(self.batch) \subseteq Nat
      /\ <<>> \in Seq(Nat)
      /\ Down \in AgentStates
      /\ NotStopping \in StopStates
      /\ channel \in ChannelStates /\ mailbox \in MailboxStates /\ seq_json \in Nat
      /\ self \in AgentStates /\ stopping \in StopStates /\ record \in RecordStates
  <2>1. self.batch \in Seq(Nat)
    BY FieldTypes
  <2>2. Down \in AgentStates /\ NotStopping \in StopStates
    BY EmptyIs DEF Down, NotStopping, AgentStates, StopStates, Starting
  <2> QED BY <2>1, <2>2, UndeliveredIs, InHandIs, EmptyIs, RangeOfSeq DEF TypeInv
<1>1. CASE UNCHANGED agentVars
  BY <1>1 DEF agentVars, TypeInv
<1>2. CASE SendWork
  <2>1. PICK kind \in Kinds : channel' = [channel EXCEPT !.log = Append(@, kind)]
    BY <1>2 DEF SendWork, Kinds
  <2>2. Append(channel.log, kind) \in Seq(Kinds)
    BY FieldTypes, AppendProperties
  <2>3. channel' \in ChannelStates
    BY <1>0, <2>1, <2>2 DEF ChannelStates
  <2>4. record' \in RecordStates
    BY <1>0, <1>2 DEF SendWork, RecordStates
  <2> QED BY <1>0, <1>2, <2>3, <2>4 DEF SendWork, TypeInv
<1>3. CASE Buffer
  <2>1. {m \in Undelivered : m > mailbox.last_seen} \in SUBSET (1 .. Count)
    BY UndeliveredIs
  <2>2. {m \in Undelivered : m > mailbox.last_seen} # {}
    BY <1>3 DEF Buffer
  <2>3. PICK yielded \in OldestFirst({m \in Undelivered : m > mailbox.last_seen}) :
          mailbox' = [buffer |-> mailbox.buffer \o yielded,
                      last_seen |-> yielded[Len(yielded)]]
    BY <1>3 DEF Buffer
  <2>4. yielded \in Seq(Nat) /\ yielded[Len(yielded)] \in Undelivered
    BY <1>0, <2>1, <2>2, OldestFirstIs
  <2>5. mailbox.buffer \o yielded \in Seq(Nat) /\ yielded[Len(yielded)] \in Nat
    BY <1>0, <2>4, FieldTypes, ConcatProperties
  <2>6. mailbox' \in MailboxStates
    BY <2>3, <2>5 DEF MailboxStates
  <2> QED BY <1>0, <1>3, <2>6 DEF Buffer, TypeInv
<1>4. ASSUME NEW once \in BOOLEAN, StartAgent(once) PROVE TypeInv'
  <2>1. PICK last \in channel.delivered \cup {0} :
            mailbox' = [buffer |-> <<>>, last_seen |-> last]
    BY <1>4 DEF StartAgent
  <2>2. last \in Nat
    BY FieldTypes
  <2>3. mailbox' \in MailboxStates
    BY <1>0, <2>1, <2>2 DEF MailboxStates
  <2>4. self' \in AgentStates
    BY <1>0, <1>4 DEF StartAgent, AgentStates, Starting
  <2>5. record' \in RecordStates
    <3>1. record.lives - 1 \in Nat
      BY <1>4, FieldTypes DEF StartAgent
    <3> QED BY <1>0, <1>4, <3>1 DEF StartAgent, RecordStates
  <2> QED BY <1>0, <1>4, <2>3, <2>4, <2>5 DEF StartAgent, TypeInv
<1>5. CASE Bootstrap
  <2>1. channel' \in ChannelStates
    BY <1>0, <1>5 DEF Bootstrap, ChannelStates
  <2>2. self' \in AgentStates
    BY <1>0, <1>5 DEF Bootstrap, Go, AgentStates, Starting
  <2> QED BY <1>0, <1>5, <2>1, <2>2 DEF Bootstrap, TypeInv
<1>6. ASSUME NEW then \in Starting \cup Pausing \cup Handling, Drain(then)
      PROVE  self' \in AgentStates /\ mailbox' \in MailboxStates
  <2>1. self' \in AgentStates
    BY <1>0, <1>6, FieldTypes DEF Drain, AgentStates
  <2>2. mailbox' \in MailboxStates
    BY <1>0, <1>6 DEF Drain, MailboxStates
  <2> QED BY <2>1, <2>2
<1>7. CASE DiscardBacklog
  <2>1. CASE InStep("drain") /\ Drain("discard") /\ UNCHANGED <<channel, seq_json, stopping, record>>
    <3>1. "discard" \in Starting \cup Pausing \cup Handling
      BY DEF Starting
    <3> QED BY <1>0, <1>6, <2>1, <3>1 DEF TypeInv
  <2>2. ASSUME channel' = [channel EXCEPT !.delivered = @ \cup Undelivered],
               record' = [record EXCEPT
                   !.dropped = @ \cup (Undelivered \ (Range(self.batch)
                                                      \cup Range(mailbox.buffer))),
                   !.strays = @ \cup (IF seq_json = 0 THEN Range(self.batch) ELSE {})],
               self' = [self EXCEPT !.pc = "recover", !.batch = <<>>],
               UNCHANGED <<mailbox, seq_json, stopping>>
        PROVE  TypeInv'
    <3>1. channel' \in ChannelStates
      BY <1>0, <2>2 DEF ChannelStates
    <3>2. record' \in RecordStates
      BY <1>0, <2>2 DEF RecordStates
    <3>3. self' \in AgentStates
      BY <1>0, <2>2 DEF AgentStates, Starting
    <3> QED BY <1>0, <2>2, <3>1, <3>2, <3>3 DEF TypeInv
  <2> QED BY <1>7, <2>1, <2>2 DEF DiscardBacklog
<1>8. CASE Recover
  <2>1. self' \in AgentStates
    <3>1. CASE seq_json = 0
      <4>1. self' = [self EXCEPT !.pc = "poll"]
        BY <1>8, <3>1 DEF Recover
      <4> QED BY <1>0, <4>1 DEF AgentStates, Pausing
    <3>2. CASE seq_json # 0
      <4>1. self' = [self EXCEPT !.pc = "replay", !.since = seq_json + 1]
        BY <1>8, <3>2 DEF Recover
      <4>2. seq_json + 1 \in Nat /\ "replay" \in Starting \cup Pausing \cup Handling
        BY <1>0 DEF Starting
      <4> QED BY <1>0, <4>1, <4>2 DEF AgentStates
    <3> QED BY <3>1, <3>2
  <2> QED BY <1>0, <1>8, <2>1 DEF Recover, TypeInv
<1>9. CASE Replay
  <2>1. PICK found \in Int : found = Len(channel.log) + 1 - self.since
    BY <1>0, FieldTypes DEF Count
  <2>2. PICK n \in Int : n = IF found > PageSize THEN PageSize ELSE found
    BY PagesAdvance
  <2>3. PICK page : page = [i \in 1 .. n |-> self.since + i - 1]
    OBVIOUS
  <2>4. page \in Seq(Nat)
    <3>1. \A i \in 1 .. n : self.since + i - 1 \in Nat
      BY FieldTypes
    <3>2. page \in [1 .. n -> Nat]
      BY <2>3, <3>1
    <3>3. CASE n >= 0
      BY <3>2, <3>3, FunctionIsSeq
    <3>4. CASE n < 0
      <4>1. 1 .. n = 1 .. 0
        BY <3>4
      <4> QED BY <3>2, <4>1, FunctionIsSeq
    <3> QED BY <3>3, <3>4
  <2>5. self' = [self EXCEPT !.pc = IF found = 0 THEN "poll" ELSE "next", !.batch = page,
                             !.has_more = found > PageSize, !.replaying = found # 0]
    BY <1>9, <2>1, <2>2, <2>3 DEF Replay
  <2>6. self' \in AgentStates
    <3>1. /\ (IF found = 0 THEN "poll" ELSE "next") \in Starting \cup Pausing \cup Handling
          /\ (found > PageSize) \in BOOLEAN
          /\ (found # 0) \in BOOLEAN
      BY DEF Pausing, Handling
    <3> QED BY <1>0, <2>4, <2>5, <3>1, AgentFields
  <2> QED BY <1>0, <1>9, <2>6 DEF Replay, TypeInv
<1>10. CASE Poll
  <2>1. "mark" \in Starting \cup Pausing \cup Handling
    BY DEF Pausing
  <2> QED BY <1>0, <1>6, <1>10, <2>1 DEF Poll, TypeInv
<1>11. CASE Polled
  <2>1. channel' \in ChannelStates
    BY <1>0, <1>11 DEF Polled, Mark, ChannelStates
  <2>2. record' \in RecordStates
    BY <1>0, <1>11 DEF Polled, Mark, RecordStates
  <2>3. self' \in AgentStates
    BY <1>0, <1>11 DEF Polled, Go, AgentStates, Pausing, Handling
  <2> QED BY <1>0, <1>11, <2>1, <2>2, <2>3 DEF Polled, TypeInv
<1>12. CASE SetPresence
  <2>1. channel' \in ChannelStates
    BY <1>0, <1>12 DEF SetPresence, ChannelStates
  <2>2. self' \in AgentStates
    BY <1>0, <1>12 DEF SetPresence, Go, AgentStates, Pausing, Handling
  <2> QED BY <1>0, <1>12, <2>1, <2>2 DEF SetPresence, TypeInv
<1>13. CASE Acknowledge
  <2>1. Current \in Nat
    BY <1>13, CurrentIs DEF Acknowledge, InStep, Handling
  <2>2. self' \in AgentStates
    <3>1. PICK c \in Nat : c = Current
      BY <2>1
    <3>2. CASE self' = [self EXCEPT !.pc = "received", !.pending = @ \cup {c}]
      BY <1>0, <3>2 DEF AgentStates, Handling
    <3>3. CASE self' = [self EXCEPT !.pc = "handling", !.pending = @ \cup {c}]
      BY <1>0, <3>3 DEF AgentStates, Handling
    <3> QED BY <1>13, <3>1, <3>2, <3>3 DEF Acknowledge
  <2> QED BY <1>0, <1>13, <2>2 DEF Acknowledge, TypeInv
<1>14. CASE Reply
  <2>1. Append(channel.log, "other") \in Seq(Kinds)
    BY FieldTypes, AppendProperties DEF Kinds
  <2>2. channel' \in ChannelStates
    BY <1>0, <1>14, <2>1 DEF Reply, ChannelStates
  <2>3. self' \in AgentStates
    BY <1>0, <1>14 DEF Reply, Go, AgentStates, Handling
  <2>4. record' \in RecordStates
    BY <1>0, <1>14 DEF Reply, RecordStates
  <2> QED BY <1>0, <1>14, <2>2, <2>3, <2>4 DEF Reply, TypeInv
<1>15. ASSUME self' = Down, stopping' = NotStopping,
              \E e \in {"failed", "crashed", "once", "clean", "unsettled"} :
                 record' = [record EXCEPT !.exit = e, !.strays = @ \cup InHand],
              UNCHANGED <<channel, mailbox, seq_json>>
       PROVE  TypeInv'
  <2>1. record' \in RecordStates
    BY <1>0, <1>15 DEF RecordStates
  <2> QED BY <1>0, <1>15, <2>1 DEF TypeInv
<1>16. CASE ReplyFails
  <2>1. CASE self.replaying \/ self.once
    BY <1>15, <1>16, <2>1 DEF ReplyFails
  <2>2. CASE ~ (self.replaying \/ self.once)
    <3>1. self' \in AgentStates
      BY <1>0, <1>16, <2>2 DEF ReplyFails, Go, AgentStates, Handling
    <3> QED BY <1>0, <1>16, <2>2, <3>1 DEF ReplyFails, TypeInv
  <2> QED BY <2>1, <2>2
<1>17. CASE Settle
  <2>1. Current \in Nat
    BY <1>17, CurrentIs DEF Settle, InStep, Handling
  <2>2. self' \in AgentStates
    BY <1>0, <1>17, <2>1 DEF Settle, AgentStates, Handling
  <2>3. record' \in RecordStates
    BY <1>0, <1>17, <2>1 DEF Settle, RecordStates
  <2> QED BY <1>0, <1>17, <2>2, <2>3 DEF Settle, TypeInv
<1>18. CASE Save
  <2>1. Current \in Nat /\ Tail(self.batch) \in Seq(Nat)
    BY <1>18, CurrentIs DEF Save, InStep, Handling
  <2>2. PICK p \in Starting \cup Pausing \cup Handling :
           p = IF Len(self.batch) > 1 THEN "next"
               ELSE IF self.replaying THEN IF self.has_more THEN "replay" ELSE "poll"
               ELSE IF self.once THEN "stop" ELSE "idle"
    BY DEF Starting, Pausing, Handling
  <2>3. PICK r \in BOOLEAN : r = (self.replaying /\ Len(self.batch) > 1)
    OBVIOUS
  <2>4. self' = [self EXCEPT !.batch = Tail(self.batch), !.since = Current,
                             !.replaying = r, !.pc = p]
    BY <1>18, <2>2, <2>3 DEF Save
  <2>5. self' \in AgentStates
    BY <1>0, <2>1, <2>4, AgentFields
  <2>6. seq_json' \in Nat
    BY <1>18, <2>1 DEF Save
  <2> QED BY <1>0, <1>18, <2>5, <2>6 DEF Save, TypeInv
<1>19. ASSUME NEW by \in {"signal", "run"}, BeginStop(by) PROVE TypeInv'
  <2>1. stopping' \in StopStates
    BY <1>0, <1>19 DEF BeginStop, StopStates
  <2> QED BY <1>0, <1>19, <2>1 DEF BeginStop, TypeInv
<1>20. ASSUME NEW by \in {"signal", "run"}, SayOffline(by) PROVE TypeInv'
  <2>1. stopping' \in StopStates
    BY <1>0, <1>20 DEF SayOffline, StopStates
  <2>2. channel' \in ChannelStates
    BY <1>0, <1>20 DEF SayOffline, ChannelStates
  <2> QED BY <1>0, <1>20, <2>1, <2>2 DEF SayOffline, TypeInv
<1>21. ASSUME NEW by \in {"signal", "run"}, Unsubscribe(by) PROVE TypeInv'
  <2>1. stopping' \in StopStates
    BY <1>0, <1>21 DEF Unsubscribe, StopStates
  <2>2. channel' \in ChannelStates
    BY <1>0, <1>21 DEF Unsubscribe, ChannelStates
  <2>3. record' \in RecordStates
    BY <1>0, <1>21 DEF Unsubscribe, RecordStates
  <2>4. self' \in AgentStates
    BY <1>0, <1>21 DEF Unsubscribe, AgentStates
  <2> QED BY <1>0, <1>21, <2>1, <2>2, <2>3, <2>4 DEF Unsubscribe, TypeInv
<1>22. CASE Exit
  BY <1>15, <1>22 DEF Exit
<1>23. CASE Crash
  BY <1>15, <1>23 DEF Crash
<1> QED
  BY <1>1, <1>2, <1>3, <1>4, <1>5, <1>7, <1>8, <1>9, <1>10, <1>11, <1>12, <1>13,
     <1>14, <1>16, <1>17, <1>18, <1>19, <1>20, <1>21, <1>22, <1>23
  DEF AgentStep

-----------------------------------------------------------------------------
(* What the steps do to the messages and to their reader.                  *)

SameMessages ==
    /\ channel'.delivered = channel.delivered
    /\ mailbox' = mailbox
    /\ seq_json' = seq_json

SameAccounts ==
    /\ record'.handled = record.handled
    /\ record'.dropped = record.dropped
    /\ record'.strays = record.strays

SamePlace ==
    /\ self'.batch = self.batch
    /\ self'.replaying = self.replaying
    /\ self'.has_more = self.has_more
    /\ self'.since = self.since

\* The agent moves on without reading, or stands.
QuietStep ==
    /\ SameMessages /\ SameAccounts /\ SamePlace
    /\ Count <= Count'
    /\ \/ self'.pc = self.pc
       \/ {self.pc, self'.pc} \subseteq Starting \ {"down", "discard", "replay"}
       \/ {self.pc, self'.pc} \subseteq Handling /\ self'.pc # "save"
       \/ {self.pc, self'.pc} \subseteq {"idle", "poll"}

\* The agent ends, well or badly.
EndStep ==
    /\ self.pc # "down"
    /\ SameMessages
    /\ Count' = Count
    /\ self' = Down
    /\ record'.handled = record.handled
    /\ record'.dropped = record.dropped
    /\ record'.strays = record.strays \cup InHand

\* What is undelivered is marked; what is not in hand is dropped.
MarkStep(inhand) ==
    /\ channel'.delivered = channel.delivered \cup Undelivered
    /\ Count' = Count
    /\ record'.handled = record.handled
    /\ record'.dropped = record.dropped \cup (Undelivered \ inhand)
    /\ record.strays \subseteq record'.strays

LEMMA CountNext == (TypeInv => Count \in Nat)'
<1>1. TypeInv => Count \in Nat
  BY UndeliveredIs
<1> QED BY <1>1, PTL

\* Where the agent is, as the invariant tells places apart.
LEMMA PlacesDiffer ==
    /\ Starting \cap Pausing = {} /\ Starting \cap Handling = {}
    /\ Pausing \cap Handling = {}
    /\ {"down", "discard", "replay"} \subseteq Starting
    /\ {"mark", "idle", "poll"} \subseteq Pausing
    /\ "save" \in Handling
BY DEF Starting, Pausing, Handling

LEMMA QuietKeeps ==
    ASSUME TypeInv, TypeInv', ReadingInv, QuietStep
    PROVE  ReadingInv'
<1>1. /\ channel'.delivered = channel.delivered
      /\ mailbox' = mailbox
      /\ seq_json' = seq_json
      /\ self'.batch = self.batch
      /\ self'.replaying = self.replaying
      /\ self'.has_more = self.has_more
      /\ self'.since = self.since
      /\ record'.handled = record.handled
      /\ Accounted' = Accounted
      /\ InFlight' = InFlight
  BY DEF QuietStep, SameMessages, SameAccounts, SamePlace, Accounted, InFlight
<1>2. Count \in Nat /\ Count' \in Nat /\ Count <= Count'
  BY UndeliveredIs, CountNext DEF QuietStep
<1>3. seq_json \in Nat /\ mailbox.last_seen \in Nat /\ self.since \in Nat
  BY FieldTypes
<1>4. /\ self'.pc = "down" <=> self.pc = "down"
      /\ self'.pc \in Starting <=> self.pc \in Starting
      /\ self'.pc \in Handling <=> self.pc \in Handling
      /\ self'.pc = "replay" <=> self.pc = "replay"
      /\ self'.pc \in {"discard", "mark"} <=> self.pc \in {"discard", "mark"}
      /\ self'.pc = "save" => self.pc = "save"
  BY PlacesDiffer DEF QuietStep
<1>5. SavedInv'
  BY <1>1, <1>2, <1>3 DEF ReadingInv, SavedInv
<1>6. HeldInv'
  BY <1>1, <1>4 DEF ReadingInv, HeldInv, Covering
<1>7. AtRestInv'
  BY <1>1, <1>4 DEF ReadingInv, AtRestInv
<1>8. DeliveredInv'
  BY <1>1, <1>2 DEF ReadingInv, DeliveredInv
<1>9. OrderInv'
  BY <1>1, <1>2, <1>3 DEF ReadingInv, OrderInv, Rising
<1>10. BatchInv'
  BY <1>1, <1>4 DEF ReadingInv, BatchInv
<1>11. ReplayInv'
  BY <1>1, <1>2, <1>3, <1>4 DEF ReadingInv, ReplayInv
<1> QED BY <1>5, <1>6, <1>7, <1>8, <1>9, <1>10, <1>11 DEF ReadingInv

LEMMA DownIs ==
    /\ Down.pc = "down" /\ Down.batch = <<>> /\ Down.pending = {}
    /\ Down.replaying = FALSE
BY DEF Down

LEMMA EndKeeps ==
    ASSUME TypeInv, TypeInv', ReadingInv, EndStep
    PROVE  ReadingInv'
<1>1. /\ channel'.delivered = channel.delivered
      /\ mailbox' = mailbox
      /\ seq_json' = seq_json
      /\ self'.pc = "down"
      /\ self'.batch = <<>>
      /\ self'.replaying = FALSE
      /\ Accounted' = Accounted \cup InHand
      /\ Count' = Count
  BY DownIs DEF EndStep, SameMessages, Accounted
<1>2. SavedInv'
  BY <1>1 DEF ReadingInv, SavedInv
<1>3. HeldInv'
  BY <1>1, PlacesDiffer DEF HeldInv, Covering
<1>4. AtRestInv'
  <2>1. CASE seq_json = 0
    <3>1. Covering
      BY <2>1 DEF EndStep, Covering
    <3>2. InHand = InFlight
      BY <2>1 DEF InHand, InFlight
    <3> QED BY <1>1, <3>1, <3>2 DEF ReadingInv, HeldInv, AtRestInv
  <2>2. CASE seq_json # 0
    BY <1>1, <2>2 DEF AtRestInv
  <2> QED BY <2>1, <2>2
<1>5. DeliveredInv'
  BY <1>1 DEF ReadingInv, DeliveredInv
<1>6. OrderInv'
  BY <1>1, EmptyIs DEF ReadingInv, OrderInv
<1>7. BatchInv'
  BY <1>1, PlacesDiffer DEF BatchInv
<1>8. ReplayInv'
  BY <1>1 DEF ReplayInv
<1> QED BY <1>2, <1>3, <1>4, <1>5, <1>6, <1>7, <1>8 DEF ReadingInv

\* A mark takes all or nothing.
LEMMA MarksAre ==
    ASSUME TypeInv, DeliveredInv, NEW inhand, MarkStep(inhand)
    PROVE  /\ DeliveredInv'
           /\ Count' = Count
           /\ Accounted \subseteq Accounted'
           /\ channel'.delivered \subseteq channel.delivered \cup Accounted' \cup inhand
<1>1. /\ channel'.delivered = channel.delivered \cup Undelivered
      /\ Count' = Count
      /\ Accounted' = record'.handled \cup record'.dropped \cup record'.strays
      /\ record'.dropped = record.dropped \cup (Undelivered \ inhand)
      /\ record'.handled = record.handled
      /\ record.strays \subseteq record'.strays
  BY DEF MarkStep, Accounted
<1>2. Count \in Nat /\ DOMAIN channel.log = 1 .. Count
  BY UndeliveredIs
<1>3. channel'.delivered = channel.delivered \/ channel'.delivered = 1 .. Count
  BY <1>1, <1>2 DEF DeliveredInv, Undelivered
<1>4. DeliveredInv'
  BY <1>1, <1>2, <1>3 DEF DeliveredInv
<1>5. Accounted \subseteq Accounted'
  BY <1>1 DEF Accounted
<1>6. channel'.delivered \subseteq channel.delivered \cup Accounted' \cup inhand
  BY <1>1
<1> QED BY <1>1, <1>4, <1>5, <1>6

LEMMA BufferKeeps ==
    ASSUME TypeInv, TypeInv', ReadingInv, Buffer
    PROVE  ReadingInv'
<1>1. PICK new : new = {m \in Undelivered : m > mailbox.last_seen}
  OBVIOUS
<1>2. /\ new # {}
      /\ self.pc # "down"
      /\ UNCHANGED <<channel, seq_json, self, record>>
  BY <1>1 DEF Buffer
<1>3. PICK yielded \in OldestFirst(new) :
        mailbox' = [buffer |-> mailbox.buffer \o yielded,
                    last_seen |-> yielded[Len(yielded)]]
  BY <1>1 DEF Buffer
<1>4. PICK last : last = yielded[Len(yielded)]
  OBVIOUS
<1>5. /\ Count \in Nat
      /\ Undelivered \subseteq 1 .. Count
      /\ 1 .. Count \subseteq channel.delivered \cup Undelivered
  <2>1. channel.subscribed
    BY <1>1, <1>2 DEF Undelivered
  <2> QED BY <2>1, UndeliveredIs DEF Undelivered
<1>6. new \subseteq 1 .. Count
  BY <1>1, <1>5
<1>7. /\ yielded \in Seq(Nat)
      /\ Range(yielded) = new
      /\ Rising(yielded)
      /\ last \in new
      /\ \A m \in new : m <= last
  BY <1>2, <1>4, <1>5, <1>6, OldestFirstIs
<1>8. /\ mailbox.buffer \in Seq(Nat)
      /\ mailbox.last_seen \in Nat
      /\ last \in 1 .. Count /\ mailbox.last_seen < last
      /\ \A m \in new : mailbox.last_seen < m
      /\ Range(mailbox.buffer) \subseteq 1 .. mailbox.last_seen
      /\ Rising(mailbox.buffer)
  BY <1>1, <1>5, <1>7, FieldTypes DEF ReadingInv, OrderInv
<1>9. /\ mailbox'.last_seen = last
      /\ Range(mailbox'.buffer) = Range(mailbox.buffer) \cup new
      /\ Rising(mailbox'.buffer)
  <2>1. mailbox'.last_seen = last /\ mailbox'.buffer = mailbox.buffer \o yielded
    BY <1>3, <1>4
  <2>2. ASSUME NEW m \in Range(mailbox.buffer), NEW b \in Range(yielded) PROVE m < b
    <3>1. m \in 1 .. mailbox.last_seen /\ b \in new
      BY <1>7, <1>8
    <3>2. b \in Nat /\ mailbox.last_seen < b
      BY <1>5, <1>6, <1>8, <3>1
    <3> QED BY <1>8, <3>1, <3>2
  <2> QED BY <1>7, <1>8, <2>1, <2>2, RangeConcat, RisingConcat
<1>10. SavedInv' /\ AtRestInv' /\ DeliveredInv' /\ BatchInv' /\ ReplayInv'
  BY <1>2 DEF ReadingInv, SavedInv, AtRestInv, DeliveredInv, BatchInv, ReplayInv,
              Accounted, Count
<1>11. HeldInv'
  <2>1. SUFFICES ASSUME Covering
                 PROVE  channel.delivered \cup 1 .. last
                            \subseteq Accounted \cup Range(self.batch) \cup
                                      Range(mailbox.buffer) \cup new
    BY <1>2, <1>9 DEF HeldInv, Covering, Accounted, InFlight
  <2>2. channel.delivered \cup 1 .. mailbox.last_seen
            \subseteq Accounted \cup Range(self.batch) \cup Range(mailbox.buffer)
    BY <2>1 DEF ReadingInv, HeldInv, InFlight
  <2>3. \A m \in 1 .. last : m \in 1 .. mailbox.last_seen \/ m \in channel.delivered
                             \/ m \in new
    BY <1>1, <1>5, <1>8
  <2> QED BY <2>2, <2>3
<1>12. OrderInv'
  <2>1. /\ mailbox'.last_seen <= Count'
        /\ Range(mailbox'.buffer) \subseteq 1 .. mailbox'.last_seen
    BY <1>2, <1>5, <1>6, <1>7, <1>8, <1>9 DEF Count
  <2>2. Range(self'.batch) \subseteq 1 .. Count' /\ Rising(self'.batch)
    BY <1>2 DEF ReadingInv, OrderInv, Count
  <2>3. ASSUME ~self'.replaying
        PROVE  /\ Range(self'.batch) \subseteq 1 .. mailbox'.last_seen
               /\ \A m \in Range(self'.batch), b \in Range(mailbox'.buffer) : m < b
    <3>1. /\ Range(self.batch) \subseteq 1 .. mailbox.last_seen
          /\ \A m \in Range(self.batch), b \in Range(mailbox.buffer) : m < b
      BY <1>2, <2>3 DEF ReadingInv, OrderInv
    <3>2. Range(self.batch) \subseteq 1 .. last
      BY <1>5, <1>8, <3>1
    <3>3. \A m \in Range(self.batch), b \in new : m < b
      BY <1>5, <1>6, <1>8, <3>1
    <3> QED BY <1>2, <1>9, <3>1, <3>2, <3>3
  <2> QED BY <1>9, <2>1, <2>2, <2>3 DEF OrderInv
<1> QED BY <1>10, <1>11, <1>12 DEF ReadingInv

LEMMA StartKeeps ==
    ASSUME TypeInv, TypeInv', ReadingInv, NEW once \in BOOLEAN, StartAgent(once)
    PROVE  ReadingInv'
<1>1. PICK last \in channel.delivered \cup {0} :
            mailbox' = [buffer |-> <<>>, last_seen |-> last]
  BY DEF StartAgent
<1>2. /\ self.pc = "down"
      /\ self'.pc = "subscribe" /\ self'.batch = <<>> /\ self'.replaying = FALSE
      /\ mailbox'.buffer = <<>> /\ mailbox'.last_seen = last
      /\ channel' = channel /\ seq_json' = seq_json
      /\ Accounted' = Accounted
      /\ Count' = Count
  BY <1>1 DEF StartAgent, InStep, Down, Accounted, Count
<1>3. /\ Count \in Nat
      /\ last \in 0 .. Count
      /\ 1 .. last \subseteq channel.delivered
  <2>1. channel.delivered \subseteq 1 .. Count
    BY DEF ReadingInv, DeliveredInv
  <2>2. CASE last = 0
    BY <2>2, UndeliveredIs
  <2>3. CASE last \in channel.delivered
    BY <2>1, <2>3, UndeliveredIs DEF ReadingInv, DeliveredInv
  <2> QED BY <2>2, <2>3
<1>4. SavedInv' /\ DeliveredInv'
  BY <1>2 DEF ReadingInv, SavedInv, DeliveredInv
<1>5. AtRestInv' /\ BatchInv' /\ ReplayInv'
  BY <1>2 DEF AtRestInv, BatchInv, ReplayInv, Handling
<1>6. HeldInv'
  <2>1. Covering' => channel.delivered \subseteq Accounted
    BY <1>2 DEF ReadingInv, AtRestInv, Covering, Starting
  <2> QED BY <1>2, <1>3, <2>1 DEF HeldInv
<1>7. OrderInv'
  BY <1>2, <1>3, EmptyIs DEF OrderInv
<1> QED BY <1>4, <1>5, <1>6, <1>7 DEF ReadingInv

\* Outside a batch in hand the agent is not in a replay.
LEMMA NotReplaying ==
    ASSUME ReadingInv, self.pc \notin Handling
    PROVE  ~self.replaying
BY DEF ReadingInv, BatchInv

\* The first half of a recv.
LEMMA DrainKeeps ==
    ASSUME TypeInv, TypeInv', ReadingInv,
           NEW from, NEW then, <<from, then>> \in {<<"drain", "discard">>, <<"poll", "mark">>},
           InStep(from), Drain(then),
           UNCHANGED <<channel, seq_json, record>>
    PROVE  ReadingInv'
<1>1. /\ self'.pc = then /\ self'.batch = mailbox.buffer
      /\ self'.replaying = self.replaying
      /\ mailbox'.buffer = <<>> /\ mailbox'.last_seen = mailbox.last_seen
  BY DEF Drain, TypeInv, AgentStates, MailboxStates
<1>2. /\ self.batch = <<>>
      /\ ~self.replaying
      /\ Accounted' = Accounted
      /\ Count' = Count
  <2>1. self.pc \notin {"discard", "mark"} \cup Handling
    BY DEF InStep, Handling
  <2> QED BY <2>1, NotReplaying DEF ReadingInv, BatchInv, Accounted, Count
<1>3. InFlight' = InFlight
  BY <1>1, <1>2, EmptyIs DEF InFlight
<1>4. SavedInv' /\ DeliveredInv'
  BY <1>2 DEF ReadingInv, SavedInv, DeliveredInv
<1>5. HeldInv'
  <2>1. Covering' => Covering
    BY <1>1, <1>2 DEF Covering, InStep, Starting
  <2> QED BY <1>1, <1>2, <1>3, <2>1 DEF ReadingInv, HeldInv
<1>6. AtRestInv' /\ BatchInv' /\ ReplayInv'
  BY <1>1, <1>2 DEF AtRestInv, BatchInv, ReplayInv, Handling
<1>7. OrderInv'
  <2>1. /\ mailbox.last_seen <= Count
        /\ Range(mailbox.buffer) \subseteq 1 .. mailbox.last_seen
        /\ Rising(mailbox.buffer)
    BY DEF ReadingInv, OrderInv
  <2>2. Range(mailbox.buffer) \subseteq 1 .. Count
    BY <2>1, UndeliveredIs, FieldTypes
  <2> QED BY <1>1, <1>2, <2>1, <2>2, EmptyIs DEF OrderInv
<1> QED BY <1>4, <1>5, <1>6, <1>7 DEF ReadingInv

LEMMA DiscardKeeps ==
    ASSUME TypeInv, TypeInv', ReadingInv, DiscardBacklog
    PROVE  ReadingInv'
<1>1. CASE /\ InStep("drain")
           /\ Drain("discard")
           /\ UNCHANGED <<channel, seq_json, stopping, record>>
  BY <1>1, DrainKeeps
<1>2. CASE /\ InStep("discard")
           /\ channel' = [channel EXCEPT !.delivered = @ \cup Undelivered]
           /\ record' = [record EXCEPT
                  !.dropped = @ \cup (Undelivered \ (Range(self.batch)
                                                     \cup Range(mailbox.buffer))),
                  !.strays = @ \cup (IF seq_json = 0 THEN Range(self.batch) ELSE {})]
           /\ self' = [self EXCEPT !.pc = "recover", !.batch = <<>>]
           /\ UNCHANGED <<mailbox, seq_json, stopping>>
  <2>1. /\ self'.pc = "recover" /\ self'.batch = <<>>
        /\ self'.replaying = self.replaying
        /\ mailbox' = mailbox /\ seq_json' = seq_json
        /\ record'.strays = record.strays
                \cup (IF seq_json = 0 THEN Range(self.batch) ELSE {})
    BY <1>2 DEF TypeInv, AgentStates, RecordStates
  <2>2. MarkStep(InFlight)
    BY <1>2 DEF MarkStep, InFlight, TypeInv, ChannelStates, RecordStates, Count
  <2>3. ~self.replaying
    BY <1>2, NotReplaying DEF InStep, Handling
  <2>4. /\ DeliveredInv'
        /\ Count' = Count
        /\ Accounted \subseteq Accounted'
        /\ channel'.delivered \subseteq channel.delivered \cup Accounted' \cup InFlight
    BY <2>2, MarksAre DEF ReadingInv
  <2>5. SavedInv'
    BY <2>1, <2>4 DEF ReadingInv, SavedInv
  <2>6. HeldInv'
    <3>1. SUFFICES ASSUME seq_json = 0
                   PROVE  channel'.delivered \cup 1 .. mailbox.last_seen
                              \subseteq Accounted' \cup InFlight'
      BY <2>1 DEF HeldInv, Covering, Starting
    <3>2. channel.delivered \cup 1 .. mailbox.last_seen \subseteq Accounted \cup InFlight
      BY <1>2, <3>1 DEF ReadingInv, HeldInv, Covering, InStep
    <3>3. InFlight \subseteq Accounted' \cup InFlight'
      BY <2>1, <3>1 DEF InFlight, Accounted
    <3> QED BY <2>4, <3>2, <3>3
  <2>7. AtRestInv' /\ BatchInv' /\ ReplayInv'
    BY <2>1, <2>3 DEF AtRestInv, BatchInv, ReplayInv, Handling
  <2>8. OrderInv'
    BY <2>1, <2>3, <2>4, EmptyIs DEF ReadingInv, OrderInv
  <2> QED BY <2>4, <2>5, <2>6, <2>7, <2>8 DEF ReadingInv
<1> QED BY <1>1, <1>2 DEF DiscardBacklog

LEMMA RecoverKeeps ==
    ASSUME TypeInv, TypeInv', ReadingInv, Recover
    PROVE  ReadingInv'
<1>1. /\ self.pc = "recover"
      /\ self'.batch = self.batch /\ self'.replaying = self.replaying
      /\ self'.pc = IF seq_json = 0 THEN "poll" ELSE "replay"
      /\ seq_json # 0 => self'.since = seq_json + 1
      /\ channel' = channel /\ mailbox' = mailbox /\ seq_json' = seq_json
      /\ Accounted' = Accounted
      /\ InFlight' = InFlight
      /\ Count' = Count
  BY DEF Recover, InStep, TypeInv, AgentStates, Accounted, InFlight, Count
<1>2. /\ self.batch = <<>>
      /\ ~self.replaying
  BY <1>1, NotReplaying DEF ReadingInv, BatchInv, Handling
<1>3. SavedInv' /\ DeliveredInv'
  BY <1>1 DEF ReadingInv, SavedInv, DeliveredInv
<1>4. HeldInv'
  <2>1. Covering' => Covering
    BY <1>1 DEF Covering, Starting
  <2> QED BY <1>1, <2>1 DEF ReadingInv, HeldInv
<1>5. AtRestInv' /\ BatchInv'
  BY <1>1, <1>2 DEF AtRestInv, BatchInv, Handling
<1>6. ReplayInv'
  <2>1. CASE seq_json = 0
    BY <1>1, <1>2, <2>1 DEF ReplayInv
  <2>2. CASE seq_json # 0
    <3>1. /\ seq_json \in Nat /\ Count \in Nat
          /\ 1 .. seq_json \subseteq Accounted /\ seq_json <= Count
      BY FieldTypes, UndeliveredIs DEF ReadingInv, SavedInv
    <3>2. seq_json + 1 \in 1 .. Count + 1 /\ (seq_json + 1) - 1 = seq_json
      BY <3>1
    <3> QED BY <1>1, <1>2, <2>2, <3>1, <3>2 DEF ReplayInv
  <2> QED BY <2>1, <2>2
<1>7. OrderInv'
  BY <1>1 DEF ReadingInv, OrderInv
<1> QED BY <1>3, <1>4, <1>5, <1>6, <1>7 DEF ReadingInv

\* A page of a replay.
LEMMA PageIs ==
    ASSUME NEW n \in Nat, NEW a \in Nat, NEW page \in [1 .. n -> Nat],
           \A i \in 1 .. n : page[i] = a + i - 1
    PROVE  /\ page \in Seq(Nat)
           /\ Range(page) = a .. a + n - 1
           /\ Rising(page)
           /\ \A x, y \in DOMAIN page : page[y] = page[x] + y - x
           /\ n = 0 => page = <<>>
           /\ n # 0 => page # <<>> /\ Head(page) = a
<1>1. DOMAIN page = 1 .. n /\ \A i \in 1 .. n : page[i] = a + i - 1 /\ page[i] \in Nat
  OBVIOUS
<1>3. page \in Seq(Nat) /\ Len(page) = n
  BY FunctionIsSeq
<1>4. Range(page) = a .. a + n - 1
  <2>1. ASSUME NEW m \in a .. a + n - 1 PROVE m \in Range(page)
    <3>1. PICK i \in 1 .. n : i = m - a + 1
      OBVIOUS
    <3>2. page[i] = m
      BY <1>1, <3>1
    <3> QED BY <1>1, <3>2 DEF Range
  <2>2. ASSUME NEW m \in Range(page) PROVE m \in a .. a + n - 1
    <3>1. PICK i \in 1 .. n : m = page[i]
      BY <1>1, <2>2 DEF Range
    <3> QED BY <1>1, <3>1
  <2> QED BY <2>1, <2>2
<1>5. Rising(page) /\ \A x, y \in DOMAIN page : page[y] = page[x] + y - x
  BY <1>1 DEF Rising
<1>6. n = 0 => page = <<>>
  BY <1>3, EmptySeq
<1>7. n # 0 => page # <<>> /\ Head(page) = a
  BY <1>1, <1>3, EmptySeq, HeadTailProperties
<1> QED BY <1>3, <1>4, <1>5, <1>6, <1>7

LEMMA ReplayKeeps ==
    ASSUME TypeInv, TypeInv', ReadingInv, Replay
    PROVE  ReadingInv'
<1>1. /\ Count \in Nat
      /\ self.pc = "replay"
      /\ self.since \in 1 .. Count + 1
      /\ 1 .. self.since - 1 \subseteq Accounted
      /\ seq_json # 0
  BY UndeliveredIs DEF Replay, InStep, ReadingInv, ReplayInv
<1>2. PICK found \in Nat : found = Count + 1 - self.since
  BY <1>1
<1>3. PICK n \in Nat : n = IF found > PageSize THEN PageSize ELSE found
  BY PagesAdvance
<1>4. PICK page : page = [i \in 1 .. n |-> self.since + i - 1]
  OBVIOUS
<1>5. /\ Range(page) = self.since .. self.since + n - 1
      /\ Rising(page)
      /\ \A x, y \in DOMAIN page : page[y] = page[x] + y - x
      /\ n = 0 => page = <<>>
      /\ n # 0 => page # <<>> /\ Head(page) = self.since
  <2>1. self.since \in Nat
    BY FieldTypes
  <2>2. \A i \in 1 .. n : self.since + i - 1 \in Nat
    BY <2>1
  <2>3. page \in [1 .. n -> Nat] /\ \A i \in 1 .. n : page[i] = self.since + i - 1
    BY <1>4, <2>2
  <2> QED BY <2>1, <2>3, PageIs
<1>6. self' = [self EXCEPT !.pc = IF found = 0 THEN "poll" ELSE "next", !.batch = page,
                           !.has_more = found > PageSize, !.replaying = found # 0]
  BY <1>2, <1>3, <1>4 DEF Replay, Count
<1>7. /\ self'.pc = IF found = 0 THEN "poll" ELSE "next"
      /\ self'.batch = page
      /\ self'.has_more = (found > PageSize)
      /\ self'.replaying = (found # 0)
      /\ channel' = channel /\ mailbox' = mailbox /\ seq_json' = seq_json
      /\ Accounted' = Accounted
      /\ Count' = Count
  BY <1>6 DEF Replay, TypeInv, AgentStates, Accounted, Count
<1>8. n = 0 <=> found = 0
  BY <1>3, PagesAdvance
<1>9. SavedInv' /\ DeliveredInv'
  BY <1>7 DEF ReadingInv, SavedInv, DeliveredInv
<1>10. AtRestInv' /\ BatchInv'
  BY <1>5, <1>7, <1>8 DEF AtRestInv, BatchInv, Handling
<1>11. HeldInv'
  <2>1. SUFFICES ASSUME found <= PageSize
                 PROVE  channel.delivered \cup 1 .. mailbox.last_seen
                            \subseteq Accounted \cup Range(page)
    <3>1. Covering' => found <= PageSize
      <4>1. Covering' => ~(found # 0 /\ found > PageSize)
        BY <1>1, <1>7, PlacesDiffer DEF Covering
      <4> QED BY <4>1, PagesAdvance
    <3>2. Range(page) \subseteq InFlight'
      BY <1>7 DEF InFlight
    <3> QED BY <1>7, <3>1, <3>2 DEF HeldInv
  <2>2. Range(page) = self.since .. Count
    BY <1>1, <1>2, <1>3, <1>5, <2>1, PagesAdvance
  <2>3. 1 .. Count \subseteq Accounted \cup Range(page)
    BY <1>1, <2>2
  <2>4. channel.delivered \cup 1 .. mailbox.last_seen \subseteq 1 .. Count
    BY <1>1, FieldTypes DEF ReadingInv, DeliveredInv, OrderInv
  <2> QED BY <2>3, <2>4
<1>12. OrderInv'
  <2>1. Range(page) \subseteq 1 .. Count
    BY <1>1, <1>2, <1>3, <1>5, PagesAdvance
  <2>2. /\ ~self'.replaying => page = <<>>
        /\ mailbox.last_seen <= Count
        /\ Range(mailbox.buffer) \subseteq 1 .. mailbox.last_seen
        /\ Rising(mailbox.buffer)
    BY <1>5, <1>7, <1>8 DEF ReadingInv, OrderInv
  <2> QED BY <1>5, <1>7, <2>1, <2>2, EmptyIs DEF OrderInv
<1>13. ReplayInv'
  BY <1>1, <1>5, <1>7, <1>8 DEF ReplayInv
<1> QED BY <1>9, <1>10, <1>11, <1>12, <1>13 DEF ReadingInv

LEMMA PolledKeeps ==
    ASSUME TypeInv, TypeInv', ReadingInv, Polled
    PROVE  ReadingInv'
<1>1. /\ self.pc = "mark"
      /\ self'.batch = self.batch /\ self'.replaying = self.replaying
      /\ self'.has_more = self.has_more
      /\ self.batch # <<>> => self'.pc \in {"next", "busy"}
      /\ self.batch = <<>> => self'.pc \in {"stop", "poll"}
      /\ mailbox' = mailbox /\ seq_json' = seq_json
      /\ InFlight' = InFlight
  BY DEF Polled, InStep, Go, TypeInv, AgentStates, InFlight
<1>2. ~self.replaying
  BY <1>1, NotReplaying DEF Handling
<1>3. MarkStep(InFlight)
  BY DEF Polled, Mark, MarkStep, InFlight, TypeInv, ChannelStates, RecordStates, Count
<1>4. /\ DeliveredInv'
      /\ Count' = Count
      /\ Accounted \subseteq Accounted'
      /\ channel'.delivered \subseteq channel.delivered \cup Accounted' \cup InFlight
  BY <1>3, MarksAre DEF ReadingInv
<1>5. SavedInv'
  BY <1>1, <1>4 DEF ReadingInv, SavedInv
<1>6. HeldInv'
  <2>1. Covering
    BY <1>1, <1>2 DEF Covering, Starting
  <2> QED BY <1>1, <1>4, <2>1 DEF ReadingInv, HeldInv
<1>7. AtRestInv' /\ BatchInv' /\ ReplayInv'
  BY <1>1, <1>2 DEF AtRestInv, BatchInv, ReplayInv, Handling
<1>8. OrderInv'
  BY <1>1, <1>4 DEF ReadingInv, OrderInv
<1> QED BY <1>4, <1>5, <1>6, <1>7, <1>8 DEF ReadingInv

LEMMA UnsubscribeKeeps ==
    ASSUME TypeInv, TypeInv', ReadingInv, StopInv,
           NEW by \in {"signal", "run"}, Unsubscribe(by)
    PROVE  ReadingInv'
<1>1. /\ self'.pc = self.pc
      /\ self'.batch = self.batch /\ self'.replaying = self.replaying
      /\ self'.has_more = self.has_more /\ self'.since = self.since
      /\ mailbox' = mailbox /\ seq_json' = seq_json
      /\ record'.handled = record.handled
      /\ InFlight' = InFlight
  BY DEF Unsubscribe, TypeInv, AgentStates, RecordStates, InFlight
<1>2. self.pc # "down"
  BY DEF Unsubscribe, StopInv, NotStopping
<1>3. MarkStep(Range(mailbox.buffer))
  BY DEF Unsubscribe, MarkStep, TypeInv, ChannelStates, RecordStates, Count
<1>4. /\ DeliveredInv'
      /\ Count' = Count
      /\ Accounted \subseteq Accounted'
      /\ channel'.delivered
             \subseteq channel.delivered \cup Accounted' \cup Range(mailbox.buffer)
  BY <1>3, MarksAre DEF ReadingInv
<1>5. SavedInv'
  BY <1>1, <1>4 DEF ReadingInv, SavedInv
<1>6. HeldInv'
  BY <1>1, <1>4 DEF ReadingInv, HeldInv, Covering, InFlight
<1>7. AtRestInv' /\ BatchInv' /\ ReplayInv'
  BY <1>1, <1>2, <1>4 DEF ReadingInv, AtRestInv, BatchInv, ReplayInv
<1>8. OrderInv'
  BY <1>1, <1>4 DEF ReadingInv, OrderInv
<1> QED BY <1>4, <1>5, <1>6, <1>7, <1>8 DEF ReadingInv

LEMMA SettleKeeps ==
    ASSUME TypeInv, TypeInv', ReadingInv, Settle
    PROVE  ReadingInv'
<1>1. /\ self.pc \in Handling
      /\ self'.pc = "save"
      /\ SamePlace /\ SameMessages
      /\ record'.handled = record.handled \cup {Current}
      /\ record'.dropped = record.dropped /\ record'.strays = record.strays
      /\ channel' = channel
  BY DEF Settle, InStep, Handling, SamePlace, SameMessages, TypeInv, AgentStates, RecordStates
<1>2. /\ seq_json' = seq_json /\ mailbox' = mailbox
      /\ self'.batch = self.batch /\ self'.replaying = self.replaying
      /\ self'.has_more = self.has_more /\ self'.since = self.since
      /\ Accounted \subseteq Accounted'
      /\ InFlight' = InFlight
      /\ Count' = Count
  BY <1>1 DEF SamePlace, SameMessages, Accounted, InFlight, Count
<1>3. SavedInv' /\ DeliveredInv'
  BY <1>1, <1>2 DEF ReadingInv, SavedInv, DeliveredInv
<1>4. HeldInv'
  <2>1. Covering' => Covering
    BY <1>1, <1>2, PlacesDiffer DEF Covering
  <2> QED BY <1>1, <1>2, <2>1 DEF ReadingInv, HeldInv
<1>5. AtRestInv'
  BY <1>1 DEF AtRestInv
<1>6. BatchInv'
  BY <1>1, <1>2, PlacesDiffer DEF ReadingInv, BatchInv, Current
<1>7. ReplayInv'
  BY <1>1, <1>2 DEF ReadingInv, ReplayInv
<1>8. OrderInv'
  BY <1>1, <1>2 DEF ReadingInv, OrderInv
<1> QED BY <1>3, <1>4, <1>5, <1>6, <1>7, <1>8 DEF ReadingInv

\* The saved seq passes the message that was just handled, and none that was not.
LEMMA SaveKeeps ==
    ASSUME TypeInv, TypeInv', ReadingInv, Save
    PROVE  ReadingInv'
<1>1. PICK c \in Nat : c = Current
  BY CurrentIs DEF Save, InStep, Handling, ReadingInv
<1>2. PICK rest \in Seq(Nat) : rest = Tail(self.batch)
  BY CurrentIs DEF Save, InStep, Handling, ReadingInv
<1>3. /\ self.pc = "save"
      /\ self'.batch = rest /\ self'.since = c
      /\ self'.replaying = (self.replaying /\ Len(self.batch) > 1)
      /\ self'.has_more = self.has_more
      /\ Len(self.batch) > 1 => self'.pc = "next"
      /\ ~(Len(self.batch) > 1) =>
             self'.pc = IF self.replaying THEN IF self.has_more THEN "replay" ELSE "poll"
                        ELSE IF self.once THEN "stop" ELSE "idle"
      /\ seq_json' = c
      /\ channel' = channel /\ mailbox' = mailbox
      /\ Accounted' = Accounted
      /\ Count' = Count
  BY <1>1, <1>2 DEF Save, InStep, TypeInv, AgentStates, Accounted, Count
<1>4. /\ self.batch \in Seq(Nat) /\ self.batch # <<>>
      /\ Head(self.batch) = c
      /\ Len(rest) = Len(self.batch) - 1
      /\ Range(self.batch) = {c} \cup Range(rest)
      /\ Rising(rest)
      /\ \A m \in Range(rest) : c < m
  <2>1. self.batch \in Seq(Nat) /\ self.batch # <<>>
    BY CurrentIs DEF Save, InStep, Handling, ReadingInv
  <2>2. Rising(self.batch)
    BY DEF ReadingInv, OrderInv
  <2> QED BY <1>1, <1>2, <2>1, <2>2, RisingTail DEF Current
<1>5. Len(self.batch) \in Nat /\ Len(self.batch) > 0
      /\ (Len(self.batch) > 1 <=> rest # <<>>)
  BY <1>4, EmptySeq, LenProperties
<1>6. /\ Count \in Nat /\ mailbox.last_seen \in Nat /\ mailbox.last_seen <= Count
      /\ c \in 1 .. Count
      /\ Range(rest) \subseteq 1 .. Count
      /\ c \in record.handled
  BY <1>3, <1>4, UndeliveredIs, FieldTypes DEF ReadingInv, OrderInv, BatchInv
<1>7. ~self.replaying =>
          /\ c \in 1 .. mailbox.last_seen
          /\ Range(rest) \subseteq 1 .. mailbox.last_seen
          /\ \A m \in {c} \cup Range(rest), b \in Range(mailbox.buffer) : m < b
  BY <1>4 DEF ReadingInv, OrderInv
<1>8. Covering =>
          channel.delivered \cup 1 .. mailbox.last_seen
              \subseteq Accounted \cup Range(rest) \cup Range(mailbox.buffer)
  BY <1>4, <1>6 DEF ReadingInv, HeldInv, InFlight, Accounted
<1>9. 1 .. c \subseteq Accounted
  <2>1. c \in Accounted
    BY <1>6 DEF Accounted
  <2>2. ASSUME NEW m \in 1 .. c, m < c PROVE m \in Accounted
    <3>1. CASE self.replaying
      <4>1. 1 .. c - 1 \subseteq Accounted
        BY <1>4, <3>1 DEF ReadingInv, ReplayInv
      <4>2. m \in 1 .. c - 1
        BY <1>1, <2>2
      <4> QED BY <4>1, <4>2
    <3>2. CASE ~self.replaying
      <4>1. Covering
        BY <1>3, <3>2 DEF Covering, Starting
      <4>2. m \in 1 .. mailbox.last_seen
        BY <1>6, <1>7, <2>2, <3>2
      <4>3. m \notin Range(rest)
        BY <1>4, <1>6, <2>2
      <4>4. m \notin Range(mailbox.buffer)
        BY <1>1, <1>7, <2>2, <3>2
      <4> QED BY <1>8, <4>1, <4>2, <4>3, <4>4
    <3> QED BY <3>1, <3>2
  <2> QED BY <1>1, <2>1, <2>2
<1>10. SavedInv'
  BY <1>3, <1>6, <1>9 DEF SavedInv
<1>11. HeldInv'
  <2>1. SUFFICES ASSUME Covering' PROVE Covering
    BY <1>3, <1>8 DEF HeldInv, InFlight
  <2>2. self'.pc \notin Starting /\ ~(self'.replaying /\ self'.has_more)
    BY <1>3, <1>6, <2>1 DEF Covering
  <2>3. ~(self.replaying /\ self.has_more)
    BY <1>3, <2>2 DEF Starting
  <2> QED BY <1>3, <2>3, PlacesDiffer DEF Covering
<1>12. AtRestInv' /\ DeliveredInv'
  BY <1>3, <1>6 DEF ReadingInv, AtRestInv, DeliveredInv
<1>13. BatchInv'
  BY <1>3, <1>5 DEF BatchInv, Handling
<1>14. OrderInv'
  <2>1. ~self'.replaying => ~self.replaying \/ rest = <<>>
    BY <1>3, <1>5
  <2>2. /\ Range(mailbox.buffer) \subseteq 1 .. mailbox.last_seen
        /\ Rising(mailbox.buffer)
    BY DEF ReadingInv, OrderInv
  <2> QED BY <1>3, <1>4, <1>6, <1>7, <2>1, <2>2, EmptyIs DEF OrderInv
<1>15. ReplayInv'
  <2>1. ASSUME self'.replaying
        PROVE  /\ \A x, y \in DOMAIN rest : rest[y] = rest[x] + y - x
               /\ Head(rest) = c + 1
    <3>1. self.replaying /\ rest # <<>>
      BY <1>3, <1>5, <2>1
    <3>2. /\ \A x, y \in 1 .. Len(self.batch) :
                 self.batch[y] = self.batch[x] + y - x
          /\ self.batch[1] = c
      <4>1. self.batch[1] = c
        BY <1>4, HeadTailProperties
      <4> QED BY <1>4, <3>1, <4>1, LenProperties DEF ReadingInv, ReplayInv
    <3>3. /\ \A i \in 1 .. Len(self.batch) - 1 : rest[i] = self.batch[i + 1]
          /\ DOMAIN rest = 1 .. Len(self.batch) - 1
      BY <1>2, <1>4, HeadTailProperties, LenProperties
    <3>4. ASSUME NEW x \in DOMAIN rest, NEW y \in DOMAIN rest
          PROVE  rest[y] = rest[x] + y - x
      <4>1. x + 1 \in 1 .. Len(self.batch) /\ y + 1 \in 1 .. Len(self.batch)
        BY <1>5, <3>3
      <4>2. self.batch[y + 1] = self.batch[x + 1] + (y + 1) - (x + 1)
        BY <3>2, <4>1
      <4>3. rest[x] \in Nat
        BY <3>4, ElementOfSeq, LenProperties
      <4>4. rest[x] = self.batch[x + 1] /\ rest[y] = self.batch[y + 1]
        BY <3>3
      <4> QED BY <1>5, <3>3, <4>2, <4>3, <4>4
    <3>5. Head(rest) = c + 1
      <4>1. Head(rest) = rest[1]
        BY <3>1, HeadTailProperties
      <4>2. 1 \in 1 .. Len(self.batch) - 1 /\ 1 + 1 = 2 /\ {1, 2} \subseteq 1 .. Len(self.batch)
        BY <1>5, <3>1
      <4>3. rest[1] = self.batch[2] /\ self.batch[2] = c + 2 - 1
        BY <3>2, <3>3, <4>2
      <4> QED BY <4>1, <4>3
    <3> QED BY <3>4, <3>5
  <2>2. 1 .. c - 1 \subseteq Accounted /\ (c + 1) - 1 = c
    BY <1>9
  <2>3. c \in 1 .. Count + 1
    BY <1>6
  <2>4. c # 0
    BY <1>6
  <2> QED BY <1>3, <1>9, <2>1, <2>2, <2>3, <2>4 DEF ReplayInv
<1> QED BY <1>10, <1>11, <1>12, <1>13, <1>14, <1>15 DEF ReadingInv

LEMMA QuietSteps ==
    ASSUME TypeInv, TypeInv',
           \/ UNCHANGED agentVars
           \/ SendWork \/ Bootstrap \/ SetPresence \/ Acknowledge \/ Reply
           \/ ReplyFails /\ ~(self.replaying \/ self.once)
           \/ \E by \in {"signal", "run"} : BeginStop(by) \/ SayOffline(by)
    PROVE  QuietStep
<1> USE DEF SameMessages, SameAccounts, SamePlace
<1>1. Count \in Nat /\ Count' \in Nat
  BY UndeliveredIs, CountNext
<1>2. /\ self \in AgentStates /\ record \in RecordStates /\ channel \in ChannelStates
      /\ channel.log \in Seq(Kinds)
  BY FieldTypes DEF TypeInv
<1>3. CASE UNCHANGED agentVars
  BY <1>1, <1>3 DEF agentVars, QuietStep, Count
<1>4. ASSUME NEW kind \in Kinds, channel' = [channel EXCEPT !.log = Append(@, kind)]
      PROVE  channel'.delivered = channel.delivered /\ Count <= Count'
  <2>1. Len(channel'.log) = Len(channel.log) + 1
    BY <1>2, <1>4, AppendProperties DEF ChannelStates
  <2> QED BY <1>1, <1>2, <1>4, <2>1 DEF ChannelStates, Count
<1>5. CASE SendWork
  <2>1. PICK kind \in Kinds : channel' = [channel EXCEPT !.log = Append(@, kind)]
    BY <1>5 DEF SendWork, Kinds
  <2>2. SameAccounts
    BY <1>2, <1>5 DEF SendWork, RecordStates
  <2> QED BY <1>4, <1>5, <2>1, <2>2 DEF SendWork, QuietStep
<1>6. CASE Bootstrap
  <2>1. SamePlace /\ {self.pc, self'.pc} \subseteq Starting \ {"down", "discard", "replay"}
    BY <1>2, <1>6 DEF Bootstrap, InStep, Go, AgentStates, Starting
  <2>2. channel'.delivered = channel.delivered /\ Count' = Count
    BY <1>2, <1>6 DEF Bootstrap, ChannelStates, Count
  <2> QED BY <1>1, <1>6, <2>1, <2>2 DEF Bootstrap, QuietStep
<1>7. CASE SetPresence
  <2>1. /\ SamePlace
        /\ \/ {self.pc, self'.pc} \subseteq Handling /\ self'.pc # "save"
           \/ {self.pc, self'.pc} \subseteq {"idle", "poll"}
    BY <1>2, <1>7 DEF SetPresence, InStep, Go, AgentStates, Handling
  <2>2. channel'.delivered = channel.delivered /\ Count' = Count
    BY <1>2, <1>7 DEF SetPresence, ChannelStates, Count
  <2> QED BY <1>1, <1>7, <2>1, <2>2 DEF SetPresence, QuietStep
<1>8. CASE Acknowledge
  <2>1. /\ SamePlace
        /\ {self.pc, self'.pc} \subseteq Handling /\ self'.pc # "save"
    BY <1>2, <1>8 DEF Acknowledge, InStep, AgentStates, Handling
  <2> QED BY <1>1, <1>8, <2>1 DEF Acknowledge, QuietStep, Count
<1>9. CASE Reply
  <2>1. SamePlace /\ {self.pc, self'.pc} \subseteq Handling /\ self'.pc # "save"
    BY <1>2, <1>9 DEF Reply, InStep, Go, AgentStates, Handling
  <2>2. SameAccounts
    BY <1>2, <1>9 DEF Reply, RecordStates
  <2>3. channel'.delivered = channel.delivered /\ Count <= Count'
    BY <1>4, <1>9 DEF Reply, Kinds
  <2> QED BY <1>9, <2>1, <2>2, <2>3 DEF Reply, QuietStep
<1>10. CASE ReplyFails /\ ~(self.replaying \/ self.once)
  <2>1. SamePlace /\ {self.pc, self'.pc} \subseteq Handling /\ self'.pc # "save"
    BY <1>2, <1>10 DEF ReplyFails, InStep, Go, AgentStates, Handling
  <2> QED BY <1>1, <1>10, <2>1 DEF ReplyFails, QuietStep, Count
<1>11. ASSUME NEW by \in {"signal", "run"}, BeginStop(by) PROVE QuietStep
  BY <1>1, <1>11 DEF BeginStop, QuietStep, Count
<1>12. ASSUME NEW by \in {"signal", "run"}, SayOffline(by) PROVE QuietStep
  <2>1. channel'.delivered = channel.delivered /\ Count' = Count
    BY <1>2, <1>12 DEF SayOffline, ChannelStates, Count
  <2> QED BY <1>1, <1>12, <2>1 DEF SayOffline, QuietStep
<1> QED BY <1>3, <1>5, <1>6, <1>7, <1>8, <1>9, <1>10, <1>11, <1>12

LEMMA EndSteps ==
    ASSUME TypeInv,
           \/ ReplyFails /\ (self.replaying \/ self.once)
           \/ Exit \/ Crash
    PROVE  EndStep
<1>1. record \in RecordStates
  BY DEF TypeInv
<1>2. /\ self.pc # "down"
      /\ self' = Down
      /\ UNCHANGED <<channel, mailbox, seq_json>>
  BY DEF ReplyFails, Exit, Crash, InStep
<1>3. \E e \in {"failed", "crashed", "once", "clean", "unsettled"} :
          record' = [record EXCEPT !.exit = e, !.strays = @ \cup InHand]
  BY DEF ReplyFails, Exit, Crash
<1>4. /\ record'.handled = record.handled
      /\ record'.dropped = record.dropped
      /\ record'.strays = record.strays \cup InHand
  BY <1>1, <1>3 DEF RecordStates
<1> QED BY <1>2, <1>4 DEF EndStep, SameMessages, Count

LEMMA ReadingStep ==
    ASSUME TypeInv, TypeInv', ReadingInv, StopInv, [AgentStep]_agentVars
    PROVE  ReadingInv'
<1>1. CASE \/ UNCHANGED agentVars
           \/ SendWork \/ Bootstrap \/ SetPresence \/ Acknowledge \/ Reply
           \/ ReplyFails /\ ~(self.replaying \/ self.once)
           \/ \E by \in {"signal", "run"} : BeginStop(by) \/ SayOffline(by)
  BY <1>1, QuietSteps, QuietKeeps
<1>2. CASE \/ ReplyFails /\ (self.replaying \/ self.once)
           \/ Exit \/ Crash
  BY <1>2, EndSteps, EndKeeps
<1>3. CASE Buffer \/ \E once \in BOOLEAN : StartAgent(once)
  BY <1>3, BufferKeeps, StartKeeps
<1>4. CASE DiscardBacklog \/ Recover \/ Replay \/ Polled \/ Settle \/ Save
  BY <1>4, DiscardKeeps, RecoverKeeps, ReplayKeeps, PolledKeeps, SettleKeeps, SaveKeeps
<1>5. CASE Poll
  BY <1>5, DrainKeeps DEF Poll
<1>6. CASE \E by \in {"signal", "run"} : Unsubscribe(by)
  BY <1>6, UnsubscribeKeeps
<1> QED BY <1>1, <1>2, <1>3, <1>4, <1>5, <1>6 DEF AgentStep

-----------------------------------------------------------------------------
(* The stop.                                                               *)

\* The agent works: it neither is down nor has called graceful_stop.
WorkStep ==
    /\ self.pc \notin {"down", "stop"}
    /\ self'.pc # "down"
    /\ stopping' = stopping
    /\ record'.exit = record.exit

LEMMA WorkSteps ==
    ASSUME TypeInv, ReadingInv, PendingInv,
           \/ Bootstrap \/ DiscardBacklog \/ Recover \/ Replay \/ Poll \/ Polled
           \/ SetPresence \/ Acknowledge \/ Reply \/ Settle \/ Save
           \/ ReplyFails /\ ~(self.replaying \/ self.once)
    PROVE  PendingInv' /\ WorkStep
<1>1. self \in AgentStates /\ record \in RecordStates
  BY DEF TypeInv
<1>2. CASE Bootstrap \/ SetPresence
  <2>1. /\ self.pc \notin {"down", "stop", "received", "handling", "settle"}
        /\ self'.pc \notin {"down", "stop", "received", "handling", "settle"}
        /\ self'.pending = self.pending
        /\ stopping' = stopping /\ record' = record
    BY <1>1, <1>2 DEF Bootstrap, SetPresence, InStep, Go, AgentStates
  <2> QED BY <2>1 DEF PendingInv, WorkStep
<1>3. CASE DiscardBacklog
  <2>1. /\ self.pc \in {"drain", "discard"}
        /\ self'.pc \in {"discard", "recover"}
        /\ self'.pending = self.pending
        /\ stopping' = stopping /\ record'.exit = record.exit
    BY <1>1, <1>3 DEF DiscardBacklog, Drain, InStep, AgentStates, RecordStates
  <2> QED BY <2>1 DEF PendingInv, WorkStep
<1>4. CASE Recover
  <2>1. /\ self.pc = "recover" /\ self'.pc \in {"poll", "replay"}
        /\ self'.pending = self.pending
        /\ stopping' = stopping /\ record' = record
    BY <1>1, <1>4 DEF Recover, InStep, AgentStates
  <2> QED BY <2>1 DEF PendingInv, WorkStep
<1>5. CASE Replay
  <2>1. PICK page : page = [i \in 1 .. IF Len(channel.log) + 1 - self.since > PageSize
                                        THEN PageSize ELSE Len(channel.log) + 1 - self.since
                               |-> self.since + i - 1]
    OBVIOUS
  <2>2. /\ self.pc = "replay" /\ self'.pc \in {"poll", "next"}
        /\ self'.pending = self.pending
        /\ stopping' = stopping /\ record' = record
    BY <1>1, <1>5, <2>1 DEF Replay, InStep, AgentStates
  <2> QED BY <2>2 DEF PendingInv, WorkStep
<1>6. CASE Poll
  <2>1. /\ self.pc = "poll" /\ self'.pc = "mark"
        /\ self'.pending = self.pending
        /\ stopping' = stopping /\ record' = record
    BY <1>1, <1>6 DEF Poll, Drain, InStep, AgentStates
  <2> QED BY <2>1 DEF PendingInv, WorkStep
<1>7. CASE Polled
  <2>1. /\ self.pc = "mark" /\ self'.pc \in {"next", "busy", "stop", "poll"}
        /\ self'.pending = self.pending
        /\ stopping' = stopping /\ record'.exit = record.exit
    BY <1>1, <1>7 DEF Polled, Mark, Go, InStep, AgentStates, RecordStates
  <2> QED BY <2>1 DEF PendingInv, WorkStep
<1>8. CASE Acknowledge
  <2>1. PICK c : c = Current
    OBVIOUS
  <2>2. /\ self.pc \in {"next", "received"} /\ self'.pc \in {"received", "handling"}
        /\ self'.pending = self.pending \cup {c}
        /\ self'.batch = self.batch
        /\ stopping' = stopping /\ record' = record
    BY <1>1, <1>8, <2>1 DEF Acknowledge, InStep, AgentStates
  <2>3. self.pending \subseteq {c}
    BY <2>1, <2>2 DEF PendingInv, Current
  <2> QED BY <2>1, <2>2, <2>3 DEF PendingInv, WorkStep, Current
<1>9. CASE Reply \/ (ReplyFails /\ ~(self.replaying \/ self.once))
  <2>1. /\ self.pc = "handling" /\ self'.pc = "settle"
        /\ self'.pending = self.pending /\ self'.batch = self.batch
        /\ stopping' = stopping /\ record'.exit = record.exit
    BY <1>1, <1>9 DEF Reply, ReplyFails, Go, InStep, AgentStates, RecordStates
  <2> QED BY <2>1 DEF PendingInv, WorkStep
<1>10. CASE Settle
  <2>1. PICK c : c = Current
    OBVIOUS
  <2>2. /\ self.pc \in {"handling", "settle"} /\ self'.pc = "save"
        /\ self'.pending = self.pending \ {c}
        /\ stopping' = stopping /\ record'.exit = record.exit
    BY <1>1, <1>10, <2>1 DEF Settle, InStep, AgentStates, RecordStates
  <2> QED BY <2>1, <2>2 DEF PendingInv, WorkStep, Current
<1>11. CASE Save
  <2>1. /\ self.pc = "save" /\ self'.pc \in {"next", "replay", "poll", "stop", "idle"}
        /\ self'.pending = self.pending
        /\ stopping' = stopping /\ record' = record
    BY <1>1, <1>11 DEF Save, InStep, AgentStates
  <2> QED BY <2>1 DEF PendingInv, WorkStep
<1> QED BY <1>2, <1>3, <1>4, <1>5, <1>6, <1>7, <1>8, <1>9, <1>10, <1>11

LEMMA StopStep ==
    ASSUME TypeInv, ReadingInv, PendingInv, StopInv, [AgentStep]_agentVars
    PROVE  PendingInv' /\ StopInv'
<1>1. /\ self \in AgentStates /\ record \in RecordStates
      /\ channel \in ChannelStates /\ stopping \in StopStates
  BY DEF TypeInv
<1>2. CASE WorkStep /\ PendingInv'
  BY <1>2 DEF WorkStep, StopInv
<1>3. CASE UNCHANGED agentVars \/ SendWork \/ Buffer
  <2>1. /\ self' = self /\ stopping' = stopping
        /\ record'.exit = record.exit
        /\ channel'.presence = channel.presence
        /\ channel'.subscribed = channel.subscribed
    BY <1>1, <1>3 DEF agentVars, SendWork, Buffer, RecordStates, ChannelStates
  <2> QED BY <2>1 DEF PendingInv, StopInv
<1>4. ASSUME NEW once \in BOOLEAN, StartAgent(once) PROVE PendingInv' /\ StopInv'
  <2>1. /\ self'.pc = "subscribe" /\ self'.pending = {}
        /\ stopping' = NotStopping /\ record'.exit = "none"
    BY <1>1, <1>4 DEF StartAgent, Down, RecordStates
  <2> QED BY <2>1 DEF PendingInv, StopInv, NotStopping
<1>5. CASE (ReplyFails /\ (self.replaying \/ self.once)) \/ Crash
  <2>1. /\ self' = Down /\ stopping' = NotStopping
        /\ record'.exit \in {"failed", "crashed"}
    BY <1>1, <1>5 DEF ReplyFails, Crash, RecordStates
  <2> QED BY <2>1, DownIs DEF PendingInv, StopInv, NotStopping
<1>6. CASE Exit
  <2>1. /\ self' = Down /\ stopping' = NotStopping /\ channel' = channel
        /\ self.pc \in {"stop", "poll"}
        /\ record'.exit = IF self.pending # {} THEN "unsettled"
                          ELSE IF self.once THEN "once" ELSE "clean"
        /\ self.once => stopping["run"] = "done"
    BY <1>1, <1>6 DEF Exit, InStep, RecordStates
  <2>2. self.pending = {}
    BY <2>1 DEF PendingInv
  <2> QED BY <2>1, <2>2, DownIs DEF PendingInv, StopInv, NotStopping
<1>7. ASSUME NEW by \in {"signal", "run"},
             BeginStop(by) \/ SayOffline(by) \/ Unsubscribe(by)
      PROVE  PendingInv' /\ StopInv'
  <2>1. /\ self'.pc = self.pc /\ self'.pending = self.pending
        /\ self'.batch = self.batch
        /\ record'.exit = record.exit
    BY <1>1, <1>7 DEF BeginStop, SayOffline, Unsubscribe, AgentStates, RecordStates
  <2>2. self.pc # "down" /\ record.exit = "none"
    BY <1>1, <1>7 DEF BeginStop, SayOffline, Unsubscribe, InStep, StopInv, NotStopping
  <2>3. CASE BeginStop(by)
    <3>1. /\ stopping' = [stopping EXCEPT ![by] = "waiting"] /\ channel' = channel
          /\ by = "run" => self.pc = "stop"
      BY <2>3 DEF BeginStop, InStep
    <3>2. /\ stopping'["run"] # "off" => stopping["run"] # "off" \/ self.pc = "stop"
          /\ stopping'["run"] \in {"unsubscribing", "done"} => stopping'["run"] = stopping["run"]
      BY <1>1, <3>1 DEF StopStates
    <3> QED BY <2>1, <2>2, <3>1, <3>2 DEF PendingInv, StopInv
  <2>4. CASE SayOffline(by)
    <3>1. /\ stopping[by] = "waiting"
          /\ stopping' = [stopping EXCEPT ![by] = "unsubscribing"]
          /\ channel'.presence = "offline"
          /\ channel'.subscribed = channel.subscribed
      BY <1>1, <2>4 DEF SayOffline, ChannelStates
    <3>2. /\ stopping'["run"] # "off" => stopping["run"] # "off"
          /\ stopping'["run"] = "done" => stopping["run"] = "done"
      BY <1>1, <3>1 DEF StopStates
    <3> QED BY <2>1, <2>2, <3>1, <3>2 DEF PendingInv, StopInv
  <2>5. CASE Unsubscribe(by)
    <3>1. /\ stopping[by] = "unsubscribing"
          /\ stopping' = [stopping EXCEPT ![by] = "done"]
          /\ channel'.presence = channel.presence
          /\ channel'.subscribed = FALSE
      BY <1>1, <2>5 DEF Unsubscribe, ChannelStates
    <3>2. /\ stopping'["run"] # "off" => stopping["run"] # "off"
          /\ stopping'["run"] \in {"unsubscribing", "done"}
                 => stopping["run"] \in {"unsubscribing", "done"}
      BY <1>1, <3>1 DEF StopStates
    <3> QED BY <2>1, <2>2, <3>1, <3>2 DEF PendingInv, StopInv
  <2> QED BY <1>7, <2>3, <2>4, <2>5
<1> QED BY <1>2, <1>3, <1>4, <1>5, <1>6, <1>7, WorkSteps DEF AgentStep

-----------------------------------------------------------------------------
(* The invariant.                                                          *)

LEMMA InvStart ==
    ASSUME NEW starts \in SUBSET StartStates, AgentInit(starts)
    PROVE  Inv
<1>1. PICK s \in starts :
         LET ran == s.log # <<>>
         IN  /\ channel = [log |-> s.log, delivered |-> IF ran THEN {1} ELSE {},
                           subscribed |-> ran, presence |-> IF ran THEN "busy" ELSE "unknown"]
             /\ seq_json = IF ran THEN 1 ELSE 0
             /\ record = [handled |-> IF ran THEN {1} ELSE {}, dropped |-> {}, strays |-> {},
                          exit |-> "none", lives |-> s.lives, room |-> s.room]
  BY DEF AgentInit
<1>2. TypeInv
  BY TypeStart
<1>3. /\ Count \in Nat
      /\ channel.delivered \subseteq {1} /\ seq_json \in {0, 1}
      /\ channel.delivered # {} => Count > 0
      /\ seq_json = 1 => Count > 0 /\ 1 \in Accounted
      /\ seq_json = 0 => channel.delivered = {}
  <2>1. s.log \in Seq(Kinds)
    BY DEF StartStates
  <2>2. Count \in Nat /\ (s.log # <<>> => Count > 0)
    BY <1>1, <2>1, EmptySeq, LenProperties DEF Count
  <2> QED BY <1>1, <2>2 DEF Accounted
<1>4. /\ self.pc = "down" /\ self.batch = <<>> /\ self.pending = {} /\ ~self.replaying
      /\ stopping = NotStopping
      /\ mailbox.buffer = <<>> /\ mailbox.last_seen = 0
      /\ record.exit = "none"
  BY <1>1, DownIs DEF AgentInit
<1>5. SavedInv /\ HeldInv /\ AtRestInv /\ DeliveredInv
  BY <1>3, <1>4, PlacesDiffer
  DEF SavedInv, HeldInv, Covering, AtRestInv, DeliveredInv
<1>6. OrderInv
  BY <1>3, <1>4, EmptyIs DEF OrderInv
<1>7. BatchInv /\ ReplayInv
  BY <1>4, PlacesDiffer DEF BatchInv, ReplayInv
<1>8. PendingInv /\ StopInv
  BY <1>4 DEF PendingInv, StopInv, NotStopping
<1> QED BY <1>2, <1>5, <1>6, <1>7, <1>8 DEF Inv, ReadingInv

LEMMA InvStep == Inv /\ [AgentStep]_agentVars => Inv'
<1> SUFFICES ASSUME Inv, [AgentStep]_agentVars PROVE Inv'
  OBVIOUS
<1>1. TypeInv'
  BY TypeStep DEF Inv, ReadingInv
<1>2. ReadingInv'
  BY <1>1, ReadingStep DEF Inv
<1>3. PendingInv' /\ StopInv'
  BY StopStep DEF Inv
<1> QED BY <1>1, <1>2, <1>3 DEF Inv

\* The saved seq has passed no message that was not handled, or marked without being
\* returned, or handed out before the first seq was saved; no agent that exits of its
\* own accord leaves a message unsettled, and after --once it is offline and
\* unsubscribed: for any log, number of messages, page size and number of lives, with
\* SIGTERM or a crash anywhere (recover_from_state, run and graceful_stop of agent.py).
THEOREM SavedMeansHandledAlways ==
    ASSUME NEW starts \in SUBSET StartStates
    PROVE  AgentSpec(starts) => []SavedMeansHandled
<1>1. AgentInit(starts) => Inv
  BY InvStart
<1>2. Inv /\ [AgentStep]_agentVars => Inv'
  BY InvStep
<1>3. Inv => SavedMeansHandled
  BY DEF Inv, ReadingInv, SavedInv, StopInv, Accounted, SavedMeansHandled
<1> QED BY <1>1, <1>2, <1>3, PTL DEF AgentSpec

-----------------------------------------------------------------------------
(* The chat TUI.                                                           *)

Ops == {"none", "initialize", "subscribe", "presence", "list_channels", "list_agents",
        "recv", "heartbeat", "send"}

TaskStates ==
    [pc : {"off", "ready", "waiting", "done"}, op : Ops, channel : Chans, join : BOOLEAN,
     calls : Nat]

Futures == [state : {"none", "waiting", "answered", "failed"}, messages : SUBSET Nat]

Requests == [id : Tasks \X Nat, op : Ops, channel : Chans \cup {Nowhere}]

Answers == [id : Tasks \X Nat, messages : SUBSET Nat]

\* What on_unmount may still have to cancel.
Cancels == {<<"beat", "roster", "pump">>, <<"roster", "pump">>, <<"pump">>, <<>>}

ChatType ==
    /\ chat \in [shown : [Chans -> Seq(SUBSET Nat)], unread : [Chans -> Nat],
                 focused : Chans \cup {Nowhere}, listed : SUBSET (Chans \cup {Nowhere})]
    /\ task \in [Tasks -> TaskStates]
    /\ future \in [Tasks -> Futures]
    /\ wire \in [requests : SUBSET Requests, answers : Seq(Answers), reading : BOOLEAN]
    /\ server \in [alive : BOOLEAN, subs : SUBSET Chans, posted : Seq(Chans \cup {Nowhere}),
                   handed : SUBSET Nat]
    /\ app \in [phase : {"mounting", "running", "closing", "closed"}, to_cancel : Cancels,
                python311 : BOOLEAN]
    /\ ghost \in [wanted : Chans \cup {Nowhere}, overlap : BOOLEAN, unsure : SUBSET Chans,
                  seen : SUBSET Nat, lost : SUBSET Nat, swallowed : SUBSET Tasks]

Sure == server.subs \cup ghost.unsure

\* A request that is under way is about the call of its task, or about an older one.
RequestOK(r, tasks) ==
    LET k == tasks[r.id[1]]
    IN  /\ r.id[2] <= k.calls
        /\ r.op = "recv" => r.id[1] = "pump"
        /\ r.op # "send" => r.channel \in Chans
        /\ k.pc = "waiting" /\ r.id[2] = k.calls =>
              r.op = k.op /\ (r.op = "subscribe" => r.channel = k.channel)

AnswerOK(a, tasks, handed, sure) ==
    LET k == tasks[a.id[1]]
    IN  /\ a.id[2] <= k.calls
        /\ a.messages \subseteq handed
        /\ a.messages # {} => a.id[1] = "pump"
        /\ k.pc = "waiting" /\ a.id[2] = k.calls /\ k.op = "subscribe" => k.channel \in sure

WireInv ==
    /\ \A r \in wire.requests : RequestOK(r, task)
    /\ \A i \in DOMAIN wire.answers : AnswerOK(wire.answers[i], task, server.handed, Sure)

\* A call that is not waited for has no future, and only drains have messages.
FutureOK(t, f, k, handed, sure) ==
    /\ f.state # "none" => k.pc = "waiting"
    /\ f.messages # {} => t = "pump" /\ f.state = "answered"
    /\ f.messages \subseteq handed
    /\ f.state = "answered" /\ k.op = "subscribe" => k.channel \in sure
    /\ k.op = "recv" => t = "pump"

FutureInv == \A t \in Tasks : FutureOK(t, future[t], task[t], server.handed, Sure)

ShownInv ==
    /\ server.handed \subseteq {m \in DOMAIN server.posted : server.posted[m] \in Chans}
    /\ \A c \in Chans :
          /\ \A i, j \in DOMAIN chat.shown[c] :
                i # j => chat.shown[c][i] \cap chat.shown[c][j] = {}
          /\ Shown(chat, c) \subseteq {m \in server.handed : server.posted[m] = c}
          /\ chat.unread[c] = Cardinality(Shown(chat, c) \ ghost.seen)
          /\ c = chat.focused => Shown(chat, c) \subseteq ghost.seen
    /\ \A m \in ghost.seen : m \in server.handed /\ m \in Shown(chat, server.posted[m])

InAnswers(m, answers) == \E i \in DOMAIN answers : m \in answers[i].messages

InFutures(m, futures) == \E t \in Tasks : m \in futures[t].messages

CoverInv ==
    \A m \in server.handed :
        \/ \E c \in Chans : m \in Shown(chat, c)
        \/ InAnswers(m, wire.answers)
        \/ InFutures(m, future)
        \/ m \in ghost.lost

\* The mount runs alone, and knows whether it has subscribed.
MountInv ==
    IF app.phase = "mounting"
    THEN /\ task["mount"].pc \in {"ready", "waiting"}
         /\ \A t \in Tasks \ {"mount"} : task[t].pc = "off"
         /\ task["mount"].op \in {"presence", "list_channels", "list_agents"}
                => task["mount"].channel \in Sure
         /\ task["mount"].op \in {"list_channels", "list_agents"}
                => chat.focused \in Sure /\ chat.focused = ghost.wanted
    ELSE task["mount"].pc = "done"

CancelInv ==
    /\ app.phase \in {"mounting", "running"} => app.to_cancel = <<"beat", "roster", "pump">>
    /\ app.to_cancel = <<>> => task["pump"].pc = "done"

FocusInv ==
    app.phase = "running" =>
        /\ chat.focused \in Sure
        /\ ~ghost.overlap =>
              /\ Selecting = {} => chat.focused = ghost.wanted
              /\ \A t \in Selecting : Selecting = {t} /\ task[t].channel = ghost.wanted

ChatInv ==
    /\ ChatType
    /\ WireInv
    /\ FutureInv
    /\ ShownInv
    /\ CoverInv
    /\ MountInv
    /\ CancelInv
    /\ FocusInv

-----------------------------------------------------------------------------

LEMMA LoopsAre ==
    /\ "mount" \in Tasks /\ "pump" \in Tasks /\ "mount" # "pump"
    /\ Users \subseteq Tasks /\ Loops \subseteq Tasks
    /\ "mount" \notin Users /\ "pump" \notin Users /\ "mount" \notin Loops
    /\ "pump" \in Loops
BY ChatAssumption DEF Tasks, Loops

LEMMA ChatStarts ==
    ASSUME NEW bounds, ChatInit(bounds)
    PROVE  ChatInv
<1>1. /\ chat = [shown |-> [c \in Chans |-> <<>>], unread |-> [c \in Chans |-> 0],
                 focused |-> Nowhere, listed |-> {}]
      /\ future = [t \in Tasks |-> NoFuture]
      /\ wire = [requests |-> {}, answers |-> <<>>, reading |-> TRUE]
      /\ server = [alive |-> TRUE, subs |-> {}, posted |-> <<>>, handed |-> {}]
      /\ ghost = [wanted |-> Nowhere, overlap |-> FALSE, unsure |-> {},
                  seen |-> {}, lost |-> {}, swallowed |-> {}]
      /\ app \in [phase : {"mounting"}, to_cancel : {<<"beat", "roster", "pump">>},
                  python311 : BOOLEAN]
  BY DEF ChatInit
<1>2. /\ task \in [Tasks -> TaskStates]
      /\ task["mount"].pc = "ready" /\ task["mount"].op = "initialize"
      /\ \A t \in Tasks \ {"mount"} : task[t].pc = "off" /\ task[t].op = "none"
      /\ \A t \in Tasks : task[t].pc # "waiting" /\ task[t].op # "recv"
  BY LoopsAre, ChatAssumption DEF ChatInit, TaskStates, Ops
<1>3. ChatType
  <2>1. future \in [Tasks -> Futures]
    BY <1>1 DEF NoFuture, Futures
  <2>2. chat \in [shown : [Chans -> Seq(SUBSET Nat)], unread : [Chans -> Nat],
                  focused : Chans \cup {Nowhere}, listed : SUBSET (Chans \cup {Nowhere})]
    BY <1>1
  <2> QED BY <1>1, <1>2, <2>1, <2>2 DEF ChatType, Cancels
<1>4. WireInv
  BY <1>1 DEF WireInv
<1>5. FutureInv
  BY <1>1, <1>2 DEF FutureInv, FutureOK, NoFuture
<1>6. \A c \in Chans : Shown(chat, c) = {}
  BY <1>1 DEF Shown, Range
<1>7. ShownInv
  <2>1. Cardinality({} \ {}) = 0
    BY FS_EmptySet
  <2>2. /\ \A c \in Chans : chat.shown[c] = <<>> /\ chat.unread[c] = 0 /\ c # chat.focused
        /\ ghost.seen = {} /\ server.handed = {}
    BY <1>1, ChatAssumption
  <2>3. \A c \in Chans : DOMAIN chat.shown[c] = {}
    BY <2>2
  <2>4. \A c \in Chans : chat.unread[c] = Cardinality(Shown(chat, c) \ ghost.seen)
    BY <1>6, <2>1, <2>2
  <2> QED BY <1>6, <2>2, <2>3, <2>4 DEF ShownInv
<1>8. CoverInv
  BY <1>1 DEF CoverInv
<1>9. MountInv /\ CancelInv /\ FocusInv
  <2>1. app.phase = "mounting" /\ app.to_cancel = <<"beat", "roster", "pump">>
    BY <1>1
  <2>2. app.to_cancel # <<>>
    BY <2>1
  <2> QED BY <1>2, <2>1, <2>2 DEF MountInv, CancelInv, FocusInv
<1> QED BY <1>3, <1>4, <1>5, <1>7, <1>8, <1>9 DEF ChatInv

\* What is shown stays right while others post and the server hands out.
LEMMA ShownKept ==
    ASSUME ShownInv,
           UNCHANGED chat,
           ghost'.seen = ghost.seen,
           server.handed \subseteq server'.handed,
           server'.handed \subseteq {m \in DOMAIN server'.posted : server'.posted[m] \in Chans},
           \A m \in DOMAIN server.posted :
               m \in DOMAIN server'.posted /\ server'.posted[m] = server.posted[m]
    PROVE  ShownInv'
<1>1. \A c : Shown(chat, c)' = Shown(chat, c)
  BY DEF Shown
<1>2. ASSUME NEW c \in Chans
      PROVE  /\ \A i, j \in DOMAIN chat.shown[c] :
                   i # j => chat.shown[c][i] \cap chat.shown[c][j] = {}
             /\ Shown(chat, c) \subseteq {m \in server'.handed : server'.posted[m] = c}
             /\ chat.unread[c] = Cardinality(Shown(chat, c) \ ghost.seen)
             /\ c = chat.focused => Shown(chat, c) \subseteq ghost.seen
  BY DEF ShownInv
<1>3. \A m \in ghost.seen : m \in server'.handed /\ m \in Shown(chat, server'.posted[m])
  BY DEF ShownInv
<1> QED BY <1>1, <1>2, <1>3 DEF ShownInv

\* Answers and futures stay right while the server hands out and subscribes.
LEMMA AnswersGrow ==
    ASSUME WireInv, UNCHANGED task, server.handed \subseteq server'.handed, Sure \subseteq Sure',
           NEW a, a \in {wire.answers[i] : i \in DOMAIN wire.answers}
    PROVE  AnswerOK(a, task', server'.handed, Sure')
BY DEF WireInv, AnswerOK

LEMMA FuturesKept ==
    ASSUME FutureInv, UNCHANGED <<task, future>>, server.handed \subseteq server'.handed,
           Sure \subseteq Sure'
    PROVE  FutureInv'
<1>1. ASSUME NEW t \in Tasks
      PROVE  FutureOK(t, future'[t], task'[t], server'.handed, Sure')
  BY DEF FutureInv, FutureOK
<1> QED BY <1>1 DEF FutureInv

\* A step of others: the app does nothing, what is under way stays so.
LEMMA OthersKeep ==
    ASSUME ChatInv, UNCHANGED <<chat, task, future, app>>,
           ChatType', WireInv',
           Sure \subseteq Sure', server.handed \subseteq server'.handed,
           server'.handed \subseteq {m \in DOMAIN server'.posted : server'.posted[m] \in Chans},
           \A m \in DOMAIN server.posted :
               m \in DOMAIN server'.posted /\ server'.posted[m] = server.posted[m],
           ghost'.wanted = ghost.wanted, ghost'.overlap = ghost.overlap,
           ghost'.seen = ghost.seen, ghost'.lost = ghost.lost,
           \A m : InAnswers(m, wire.answers) => InAnswers(m, wire'.answers),
           \A m \in server'.handed : m \in server.handed \/ InAnswers(m, wire'.answers)
    PROVE  ChatInv'
<1>1. FutureInv'
  BY FuturesKept DEF ChatInv
<1>2. ShownInv'
  BY ShownKept DEF ChatInv
<1>3. CoverInv'
  <2>1. \A c : Shown(chat, c)' = Shown(chat, c)
    BY DEF Shown
  <2>2. \A m \in server.handed : \/ \E c \in Chans : m \in Shown(chat, c)
                                 \/ InAnswers(m, wire.answers)
                                 \/ InFutures(m, future)
                                 \/ m \in ghost.lost
    BY DEF ChatInv, CoverInv
  <2>3. \A m \in server'.handed : \/ \E c \in Chans : m \in Shown(chat, c)
                                  \/ InAnswers(m, wire'.answers)
                                  \/ InFutures(m, future)
                                  \/ m \in ghost.lost
    BY <2>2
  <2> QED BY <2>1, <2>3 DEF CoverInv
<1>4. MountInv'
  BY DEF ChatInv, MountInv
<1>5. CancelInv'
  BY DEF ChatInv, CancelInv
<1>6. FocusInv'
  <2>1. Selecting' = Selecting
    BY DEF Selecting, IsSelection
  <2> QED BY <2>1 DEF ChatInv, FocusInv
<1> QED BY <1>1, <1>2, <1>3, <1>4, <1>5, <1>6 DEF ChatInv

\* An answer to a request.
LEMMA Answered ==
    ASSUME ChatInv, NEW r \in wire.requests, NEW messages, Answer(r, messages),
           UNCHANGED <<task, future>>,
           messages \subseteq server'.handed, messages # {} => r.op = "recv",
           server.handed \subseteq server'.handed, server'.handed \in SUBSET Nat,
           Sure \subseteq Sure', r.op = "subscribe" => r.channel \in Sure'
    PROVE  /\ wire' \in [requests : SUBSET Requests, answers : Seq(Answers), reading : BOOLEAN]
           /\ WireInv'
           /\ \A m : InAnswers(m, wire'.answers) <=> InAnswers(m, wire.answers) \/ m \in messages
<1>0. /\ wire \in [requests : SUBSET Requests, answers : Seq(Answers), reading : BOOLEAN]
      /\ r \in Requests /\ r.id \in Tasks \X Nat
  BY DEF ChatInv, ChatType, Requests
<1>1. PICK a : a = [id |-> r.id, messages |-> messages]
  OBVIOUS
<1>2. a \in Answers /\ a.id = r.id /\ a.messages = messages
  BY <1>0, <1>1 DEF Answers
<1>3. /\ wire'.requests = wire.requests \ {r} /\ wire'.answers = Append(wire.answers, a)
      /\ wire'.reading = wire.reading
      /\ wire' \in [requests : SUBSET Requests, answers : Seq(Answers), reading : BOOLEAN]
  <2>1. PICK requests \in SUBSET Requests : requests = wire.requests \ {r}
    BY <1>0
  <2>3. PICK answers \in Seq(Answers) : answers = Append(wire.answers, a)
    <3>1. wire.answers \in Seq(Answers)
      BY <1>0
    <3>2. Append(wire.answers, a) \in Seq(Answers)
      BY <1>2, <3>1, AppendProperties
    <3> QED BY <3>2
  <2>2. wire' = [wire EXCEPT !.requests = requests, !.answers = answers]
    BY <1>1, <2>1, <2>3 DEF Answer
  <2> QED BY <1>0, <2>1, <2>2, <2>3
<1>4. /\ DOMAIN wire'.answers = DOMAIN wire.answers \cup {Len(wire.answers) + 1}
      /\ wire'.answers[Len(wire.answers) + 1] = a
      /\ \A i \in DOMAIN wire.answers : wire'.answers[i] = wire.answers[i]
  BY <1>0, <1>2, <1>3
<1>5. RequestOK(r, task)
  BY DEF ChatInv, WireInv
<1>6. AnswerOK(a, task', server'.handed, Sure')
  <2>1. a.id[1] = r.id[1] /\ a.id[2] = r.id[2]
    BY <1>2
  <2> QED BY <1>2, <1>5, <2>1 DEF RequestOK, AnswerOK
<1>7. \A i \in DOMAIN wire'.answers : AnswerOK(wire'.answers[i], task', server'.handed, Sure')
  <2> TAKE i \in DOMAIN wire'.answers
  <2>1. CASE i \in DOMAIN wire.answers
    <3>1. PICK b : b = wire.answers[i]
      OBVIOUS
    <3>2. AnswerOK(b, task', server'.handed, Sure')
      BY <2>1, <3>1, AnswersGrow DEF ChatInv
    <3> QED BY <1>4, <2>1, <3>1, <3>2
  <2>2. CASE i = Len(wire.answers) + 1
    BY <1>4, <1>6, <2>2
  <2> QED BY <1>4, <2>1, <2>2
<1>8. \A q \in wire'.requests : RequestOK(q, task')
  BY <1>3 DEF ChatInv, WireInv
<1>9. \A m : InAnswers(m, wire'.answers) <=> InAnswers(m, wire.answers) \/ m \in messages
  BY <1>2, <1>4 DEF InAnswers
<1> QED BY <1>3, <1>7, <1>8, <1>9 DEF WireInv

\* A request that is answered while the server goes from one state to another.
LEMMA AnswerKeeps ==
    ASSUME ChatInv, NEW r \in wire.requests, NEW messages, Answer(r, messages),
           UNCHANGED <<chat, task, future, app>>,
           messages \subseteq server'.handed, messages # {} => r.op = "recv",
           server' \in [alive : BOOLEAN, subs : SUBSET Chans, posted : Seq(Chans \cup {Nowhere}),
                        handed : SUBSET Nat],
           ghost' \in [wanted : Chans \cup {Nowhere}, overlap : BOOLEAN, unsure : SUBSET Chans,
                       seen : SUBSET Nat, lost : SUBSET Nat, swallowed : SUBSET Tasks],
           server.subs \subseteq server'.subs, ghost.unsure \subseteq ghost'.unsure,
           r.op = "subscribe" => r.channel \in server'.subs \cup ghost'.unsure,
           server.handed \subseteq server'.handed,
           server'.handed \subseteq {m \in DOMAIN server'.posted : server'.posted[m] \in Chans},
           \A m \in DOMAIN server.posted :
               m \in DOMAIN server'.posted /\ server'.posted[m] = server.posted[m],
           ghost'.wanted = ghost.wanted, ghost'.overlap = ghost.overlap,
           ghost'.seen = ghost.seen, ghost'.lost = ghost.lost,
           server'.handed \subseteq server.handed \cup messages
    PROVE  ChatInv'
<1>1. Sure \subseteq Sure' /\ Sure' = server'.subs \cup ghost'.unsure
  BY DEF Sure
<1>2. /\ wire' \in [requests : SUBSET Requests, answers : Seq(Answers), reading : BOOLEAN]
      /\ WireInv'
      /\ \A m : InAnswers(m, wire'.answers) <=> InAnswers(m, wire.answers) \/ m \in messages
  BY <1>1, Answered
<1>3. ChatType'
  BY <1>2 DEF ChatInv, ChatType
<1> QED BY <1>1, <1>2, <1>3, OthersKeep

\* What the type says of the server and of the history.
LEMMA ServerIs ==
    ASSUME ChatInv
    PROVE  /\ server \in [alive : BOOLEAN, subs : SUBSET Chans,
                          posted : Seq(Chans \cup {Nowhere}), handed : SUBSET Nat]
           /\ ghost \in [wanted : Chans \cup {Nowhere}, overlap : BOOLEAN,
                         unsure : SUBSET Chans, seen : SUBSET Nat, lost : SUBSET Nat,
                         swallowed : SUBSET Tasks]
           /\ server.handed \subseteq {m \in DOMAIN server.posted : server.posted[m] \in Chans}
           /\ \A r \in wire.requests : RequestOK(r, task) /\ r \in Requests
BY DEF ChatInv, ChatType, ShownInv, WireInv

LEMMA PostedGrows ==
    ASSUME NEW posted \in Seq(Chans \cup {Nowhere}), NEW c \in Chans \cup {Nowhere}
    PROVE  /\ Append(posted, c) \in Seq(Chans \cup {Nowhere})
           /\ \A m \in DOMAIN posted : /\ m \in DOMAIN Append(posted, c)
                                       /\ Append(posted, c)[m] = posted[m]
OBVIOUS

LEMMA ServeKeeps ==
    ASSUME ChatInv, Serve
    PROVE  ChatInv'
<1>1. PICK r \in wire.requests :
          \/ /\ r.op \in {"subscribe", "presence"}
             /\ server' = IF r.op = "subscribe"
                          THEN [server EXCEPT !.subs = @ \cup {r.channel}] ELSE server
             /\ Answer(r, {})
          \/ /\ r.op = "recv"
             /\ server' = [server EXCEPT !.handed = @ \cup Inbox]
             /\ Answer(r, Inbox)
          \/ /\ r.op = "send"
             /\ server' = [server EXCEPT !.posted = Append(@, r.channel)]
             /\ Answer(r, {})
          \/ /\ r.op \notin {"subscribe", "presence", "recv", "send"}
             /\ Answer(r, {})
             /\ UNCHANGED server
  BY DEF Serve
<1>2. UNCHANGED <<chat, task, future, app, ghost>>
  BY DEF Serve
<1>3. r \in Requests /\ (r.op # "send" => r.channel \in Chans)
  BY ServerIs DEF RequestOK
<1>4. CASE UNCHANGED server /\ Answer(r, {}) /\ r.op # "subscribe"
  BY <1>2, <1>4, ServerIs, AnswerKeeps
<1>5. CASE /\ r.op = "subscribe" /\ server' = [server EXCEPT !.subs = @ \cup {r.channel}]
           /\ Answer(r, {})
  <2>1. PICK subs \in SUBSET Chans : subs = server.subs \cup {r.channel}
    BY <1>3, <1>5, ServerIs
  <2>2. server' = [server EXCEPT !.subs = subs]
    BY <1>5, <2>1, ServerIs
  <2>3. /\ server' \in [alive : BOOLEAN, subs : SUBSET Chans,
                        posted : Seq(Chans \cup {Nowhere}), handed : SUBSET Nat]
        /\ server'.subs = subs /\ server'.posted = server.posted
        /\ server'.handed = server.handed
    BY <2>2, ServerIs
  <2> QED BY <1>2, <1>5, <2>1, <2>3, ServerIs, AnswerKeeps
<1>6. CASE /\ r.op = "recv" /\ server' = [server EXCEPT !.handed = @ \cup Inbox]
           /\ Answer(r, Inbox)
  <2>1. PICK inbox \in SUBSET Nat :
            /\ inbox = Inbox
            /\ inbox \subseteq {m \in DOMAIN server.posted : server.posted[m] \in Chans}
    <3>1. Inbox \subseteq {m \in DOMAIN server.posted : server.posted[m] \in Chans}
      BY ServerIs DEF Inbox
    <3>2. DOMAIN server.posted \subseteq Nat
      BY ServerIs
    <3> QED BY <3>1, <3>2
  <2>2. PICK handed \in SUBSET Nat : handed = server.handed \cup inbox
    BY <2>1, ServerIs
  <2>3. server' = [server EXCEPT !.handed = handed]
    BY <1>6, <2>1, <2>2, ServerIs
  <2>4. /\ server' \in [alive : BOOLEAN, subs : SUBSET Chans,
                        posted : Seq(Chans \cup {Nowhere}), handed : SUBSET Nat]
        /\ server'.subs = server.subs /\ server'.posted = server.posted
        /\ server'.handed = handed
    BY <2>3, ServerIs
  <2>5. Answer(r, inbox)
    BY <1>6, <2>1
  <2> QED BY <1>2, <1>6, <2>1, <2>2, <2>4, <2>5, ServerIs, AnswerKeeps
<1>7. CASE /\ r.op = "send" /\ server' = [server EXCEPT !.posted = Append(@, r.channel)]
           /\ Answer(r, {})
  <2>1. r.channel \in Chans \cup {Nowhere}
    BY <1>3 DEF Requests
  <2>2. PICK posted \in Seq(Chans \cup {Nowhere}) :
            /\ posted = Append(server.posted, r.channel)
            /\ \A m \in DOMAIN server.posted : /\ m \in DOMAIN posted
                                               /\ posted[m] = server.posted[m]
    BY <2>1, ServerIs, PostedGrows
  <2>3. server' = [server EXCEPT !.posted = posted]
    BY <1>7, <2>2, ServerIs
  <2>4. /\ server' \in [alive : BOOLEAN, subs : SUBSET Chans,
                        posted : Seq(Chans \cup {Nowhere}), handed : SUBSET Nat]
        /\ server'.subs = server.subs /\ server'.posted = posted
        /\ server'.handed = server.handed
    BY <2>3, ServerIs
  <2>5. server'.handed \subseteq {m \in DOMAIN server'.posted : server'.posted[m] \in Chans}
    BY <2>2, <2>4, ServerIs
  <2> QED BY <1>2, <1>7, <2>2, <2>4, <2>5, ServerIs, AnswerKeeps
<1> QED BY <1>1, <1>4, <1>5, <1>6, <1>7

LEMMA RefuseKeeps ==
    ASSUME ChatInv, Refuse
    PROVE  ChatInv'
<1>1. PICK r \in wire.requests :
          /\ Answer(r, {})
          /\ ghost' = IF r.op = "subscribe" THEN [ghost EXCEPT !.unsure = @ \cup {r.channel}]
                      ELSE ghost
  BY DEF Refuse
<1>2. UNCHANGED <<chat, task, future, server, app>>
  BY DEF Refuse
<1>3. r.op = "subscribe" => r.channel \in Chans
  BY ServerIs DEF RequestOK
<1>4. PICK unsure \in SUBSET Chans :
          /\ ghost.unsure \subseteq unsure
          /\ r.op = "subscribe" => r.channel \in unsure
          /\ ghost' = [ghost EXCEPT !.unsure = unsure]
  <2>1. CASE r.op = "subscribe"
    <3>1. ghost.unsure \cup {r.channel} \in SUBSET Chans
      BY <1>3, <2>1, ServerIs
    <3> QED BY <1>1, <2>1, <3>1
  <2>2. CASE r.op # "subscribe"
    <3>1. ghost = [ghost EXCEPT !.unsure = ghost.unsure]
      BY ServerIs
    <3> QED BY <1>1, <2>2, <3>1, ServerIs
  <2> QED BY <2>1, <2>2
<1>5. /\ ghost' \in [wanted : Chans \cup {Nowhere}, overlap : BOOLEAN, unsure : SUBSET Chans,
                     seen : SUBSET Nat, lost : SUBSET Nat, swallowed : SUBSET Tasks]
      /\ ghost'.unsure = unsure
      /\ ghost'.wanted = ghost.wanted /\ ghost'.overlap = ghost.overlap
      /\ ghost'.seen = ghost.seen /\ ghost'.lost = ghost.lost
  BY <1>4, ServerIs
<1> QED BY <1>1, <1>2, <1>4, <1>5, ServerIs, AnswerKeeps

LEMMA ServeAgainKeeps ==
    ASSUME ChatInv, ServeAgain
    PROVE  ChatInv'
<1>1. PICK r \in wire.requests : \E m \in server.handed : r.op = "recv" /\ Answer(r, {m})
  BY DEF ServeAgain
<1>2. PICK m \in server.handed : r.op = "recv" /\ Answer(r, {m})
  BY <1>1
<1>3. UNCHANGED <<chat, task, future, server, app, ghost>>
  BY DEF ServeAgain
<1> QED BY <1>2, <1>3, ServerIs, AnswerKeeps

\* Nothing is answered.
LEMMA UnansweredKeeps ==
    ASSUME ChatInv, UNCHANGED <<chat, task, future, app, ghost>>,
           wire' \in [requests : SUBSET Requests, answers : Seq(Answers), reading : BOOLEAN],
           wire'.requests \subseteq wire.requests, wire'.answers = wire.answers,
           server' \in [alive : BOOLEAN, subs : SUBSET Chans, posted : Seq(Chans \cup {Nowhere}),
                        handed : SUBSET Nat],
           server'.subs = server.subs, server'.handed = server.handed,
           \A m \in DOMAIN server.posted :
               m \in DOMAIN server'.posted /\ server'.posted[m] = server.posted[m]
    PROVE  ChatInv'
<1>1. Sure' = Sure
  BY DEF Sure
<1>2. ChatType'
  BY DEF ChatInv, ChatType
<1>3. WireInv'
  BY <1>1 DEF ChatInv, WireInv
<1>4. server'.handed \subseteq {m \in DOMAIN server'.posted : server'.posted[m] \in Chans}
  BY ServerIs
<1> QED BY <1>1, <1>2, <1>3, <1>4, OthersKeep

LEMMA PostKeeps ==
    ASSUME ChatInv, Post
    PROVE  ChatInv'
<1>1. PICK c \in Chans \cup {Nowhere} : server' = [server EXCEPT !.posted = Append(@, c)]
  BY DEF Post
<1>2. UNCHANGED <<chat, task, future, wire, app, ghost>>
  BY DEF Post
<1>3. PICK posted \in Seq(Chans \cup {Nowhere}) :
          /\ posted = Append(server.posted, c)
          /\ \A m \in DOMAIN server.posted : /\ m \in DOMAIN posted
                                             /\ posted[m] = server.posted[m]
  BY ServerIs, PostedGrows
<1>4. server' = [server EXCEPT !.posted = posted]
  BY <1>1, <1>3, ServerIs
<1>5. /\ server' \in [alive : BOOLEAN, subs : SUBSET Chans,
                      posted : Seq(Chans \cup {Nowhere}), handed : SUBSET Nat]
      /\ server'.subs = server.subs /\ server'.posted = posted
      /\ server'.handed = server.handed
  BY <1>4, ServerIs
<1>6. wire \in [requests : SUBSET Requests, answers : Seq(Answers), reading : BOOLEAN]
  BY DEF ChatInv, ChatType
<1> QED BY <1>2, <1>3, <1>5, <1>6, UnansweredKeeps

LEMMA DeathKeeps ==
    ASSUME ChatInv, ServerDies
    PROVE  ChatInv'
<1>1. /\ server' = [server EXCEPT !.alive = FALSE]
      /\ wire' = [wire EXCEPT !.requests = {}]
      /\ UNCHANGED <<chat, task, future, app, ghost>>
  BY DEF ServerDies
<1>2. wire \in [requests : SUBSET Requests, answers : Seq(Answers), reading : BOOLEAN]
  BY DEF ChatInv, ChatType
<1>3. /\ wire' \in [requests : SUBSET Requests, answers : Seq(Answers), reading : BOOLEAN]
      /\ wire'.requests = {} /\ wire'.answers = wire.answers
  BY <1>1, <1>2
<1>4. /\ server' \in [alive : BOOLEAN, subs : SUBSET Chans,
                      posted : Seq(Chans \cup {Nowhere}), handed : SUBSET Nat]
      /\ server'.subs = server.subs /\ server'.posted = server.posted
      /\ server'.handed = server.handed
  BY <1>1, ServerIs
<1> QED BY <1>1, <1>3, <1>4, UnansweredKeeps

LEMMA EndOfFileKeeps ==
    ASSUME ChatInv, EndOfFile
    PROVE  ChatInv'
<1>1. /\ wire' = [wire EXCEPT !.reading = FALSE]
      /\ UNCHANGED <<chat, task, future, server, app, ghost>>
  BY DEF EndOfFile
<1>2. wire \in [requests : SUBSET Requests, answers : Seq(Answers), reading : BOOLEAN]
  BY DEF ChatInv, ChatType
<1>3. /\ wire' \in [requests : SUBSET Requests, answers : Seq(Answers), reading : BOOLEAN]
      /\ wire'.requests = wire.requests /\ wire'.answers = wire.answers
  BY <1>1, <1>2
<1> QED BY <1>1, <1>3, ServerIs, UnansweredKeeps

LEMMA TailIs ==
    ASSUME NEW S, NEW s \in Seq(S), s # <<>>
    PROVE  /\ Tail(s) \in Seq(S)
           /\ \E i \in DOMAIN s : s[i] = Head(s)
           /\ \A i \in DOMAIN Tail(s) : \E j \in DOMAIN s : s[j] = Tail(s)[i]
           /\ \A i \in DOMAIN s : s[i] = Head(s) \/ \E j \in DOMAIN Tail(s) : Tail(s)[j] = s[i]
<1>1. Tail(s) \in Seq(S) /\ Head(s) = s[1] /\ 1 \in DOMAIN s
  OBVIOUS
<1>2. \A i \in DOMAIN Tail(s) : i + 1 \in DOMAIN s /\ Tail(s)[i] = s[i + 1]
  OBVIOUS
<1>3. \A i \in DOMAIN s : i = 1 \/ (i - 1 \in DOMAIN Tail(s) /\ Tail(s)[i - 1] = s[i])
  OBVIOUS
<1> QED BY <1>1, <1>2, <1>3

\* What a step leaves right that changes only what is under way.
LEMMA StillKeep ==
    ASSUME ChatInv, UNCHANGED <<chat, task, server, app>>,
           ghost'.wanted = ghost.wanted, ghost'.overlap = ghost.overlap,
           ghost'.seen = ghost.seen, ghost'.unsure = ghost.unsure
    PROVE  Sure' = Sure /\ ShownInv' /\ MountInv' /\ CancelInv' /\ FocusInv'
<1>1. Sure' = Sure
  BY DEF Sure
<1>2. ShownInv'
  BY ServerIs, ShownKept DEF ChatInv
<1>3. MountInv'
  BY <1>1 DEF ChatInv, MountInv
<1>4. CancelInv'
  BY DEF ChatInv, CancelInv
<1>5. FocusInv'
  <2>1. Selecting' = Selecting
    BY DEF Selecting, IsSelection
  <2> QED BY <1>1, <2>1 DEF ChatInv, FocusInv
<1> QED BY <1>1, <1>2, <1>3, <1>4, <1>5

\* What the type says of the tasks, their calls and what is under way.
LEMMA TasksAre ==
    ASSUME ChatInv
    PROVE  /\ task \in [Tasks -> TaskStates] /\ future \in [Tasks -> Futures]
           /\ wire \in [requests : SUBSET Requests, answers : Seq(Answers), reading : BOOLEAN]
           /\ wire.answers \in Seq(Answers)
           /\ \A t \in Tasks : FutureOK(t, future[t], task[t], server.handed, Sure)
           /\ \A i \in DOMAIN wire.answers :
                  /\ wire.answers[i] \in Answers
                  /\ AnswerOK(wire.answers[i], task, server.handed, Sure)
BY DEF ChatInv, ChatType, FutureInv, WireInv

\* An answer goes to the call it is for, or is lost.
LEMMA ReadAnswerKeeps ==
    ASSUME ChatInv, ReadAnswer
    PROVE  ChatInv'
<1>1. PICK a \in Answers : a = Head(wire.answers)
  BY TasksAre, TailIs DEF ReadAnswer
<1>2. PICK t \in Tasks : t = a.id[1]
  BY DEF Answers
<1>3. /\ wire.answers # <<>>
      /\ wire' = [wire EXCEPT !.answers = Tail(@)]
      /\ UNCHANGED <<chat, task, server, app>>
  BY DEF ReadAnswer
<1>4. PICK fresh \in BOOLEAN : fresh <=> a.id = Id(t) /\ future[t].state = "waiting"
  OBVIOUS
<1>5. /\ future' = IF fresh
                   THEN [future EXCEPT ![t] = [state |-> "answered", messages |-> a.messages]]
                   ELSE future
      /\ ghost' = IF fresh THEN ghost ELSE [ghost EXCEPT !.lost = @ \cup a.messages]
  BY <1>1, <1>2, <1>4 DEF ReadAnswer
<1>6. PICK answers : answers = Tail(wire.answers)
  OBVIOUS
<1>7. /\ answers \in Seq(Answers)
      /\ \E i \in DOMAIN wire.answers : wire.answers[i] = a
      /\ \A i \in DOMAIN answers : \E j \in DOMAIN wire.answers : wire.answers[j] = answers[i]
      /\ \A i \in DOMAIN wire.answers :
             wire.answers[i] = a \/ \E j \in DOMAIN answers : answers[j] = wire.answers[i]
  <2>1. wire.answers \in Seq(Answers)
    BY TasksAre
  <2> QED BY <1>1, <1>3, <1>6, <2>1, TailIs
<1>8. /\ wire' \in [requests : SUBSET Requests, answers : Seq(Answers), reading : BOOLEAN]
      /\ wire'.requests = wire.requests /\ wire'.answers = answers
  BY <1>3, <1>6, <1>7, TasksAre
<1>9. /\ ghost' \in [wanted : Chans \cup {Nowhere}, overlap : BOOLEAN, unsure : SUBSET Chans,
                     seen : SUBSET Nat, lost : SUBSET Nat, swallowed : SUBSET Tasks]
      /\ ghost'.unsure = ghost.unsure /\ ghost'.seen = ghost.seen
      /\ ghost'.wanted = ghost.wanted /\ ghost'.overlap = ghost.overlap
      /\ ghost.lost \subseteq ghost'.lost
      /\ ~fresh => a.messages \subseteq ghost'.lost
  <2>1. PICK lost \in SUBSET Nat : lost = ghost.lost \cup a.messages
    BY ServerIs DEF Answers
  <2>2. CASE fresh
    BY <1>5, <2>2, ServerIs
  <2>3. CASE ~fresh
    <3>1. ghost' = [ghost EXCEPT !.lost = lost]
      BY <1>5, <2>1, <2>3, ServerIs
    <3> QED BY <2>1, <2>3, <3>1, ServerIs
  <2> QED BY <2>2, <2>3
<1>10. Sure' = Sure /\ ShownInv' /\ MountInv' /\ CancelInv' /\ FocusInv'
  BY <1>3, <1>9, StillKeep
<1>11. AnswerOK(a, task, server.handed, Sure)
  BY <1>7, TasksAre
<1>12. /\ future' \in [Tasks -> Futures]
       /\ \A u \in Tasks : u # t \/ ~fresh => future'[u] = future[u]
       /\ fresh => future'[t].state = "answered" /\ future'[t].messages = a.messages
  <2>1. [state |-> "answered", messages |-> a.messages] \in Futures
    BY DEF Answers, Futures
  <2> QED BY <1>5, <2>1, TasksAre
<1>13. ASSUME NEW u \in Tasks
       PROVE  FutureOK(u, future'[u], task[u], server.handed, Sure)
  <2>1. CASE u # t \/ ~fresh
    BY <1>12, <2>1, TasksAre
  <2>2. CASE u = t /\ fresh
    <3>1. a.id[2] = task[t].calls
      BY <1>4, <2>2 DEF Id
    <3>2. FutureOK(t, future[t], task[t], server.handed, Sure) /\ future[t].state = "waiting"
      BY <1>4, <2>2, TasksAre
    <3> QED BY <1>2, <1>11, <1>12, <2>2, <3>1, <3>2 DEF FutureOK, AnswerOK
  <2> QED BY <2>1, <2>2
<1>14. FutureInv'
  BY <1>3, <1>10, <1>13 DEF FutureInv
<1>15. WireInv'
  <2>1. \A i \in DOMAIN answers : AnswerOK(answers[i], task, server.handed, Sure)
    BY <1>7, TasksAre
  <2>2. \A r \in wire.requests : RequestOK(r, task)
    BY ServerIs
  <2> QED BY <1>3, <1>8, <1>10, <2>1, <2>2 DEF WireInv
<1>16. CoverInv'
  <2>1. ASSUME NEW m, InFutures(m, future) PROVE InFutures(m, future')
    <3>1. PICK u \in Tasks : m \in future[u].messages
      BY <2>1 DEF InFutures
    <3>2. fresh => u # t
      BY <1>4, <3>1, TasksAre DEF FutureOK
    <3> QED BY <1>12, <3>1, <3>2 DEF InFutures
  <2>2. ASSUME NEW m, InAnswers(m, wire.answers)
        PROVE  InAnswers(m, answers) \/ InFutures(m, future') \/ m \in ghost'.lost
    <3>1. PICK i \in DOMAIN wire.answers : m \in wire.answers[i].messages
      BY <2>2 DEF InAnswers
    <3>2. CASE wire.answers[i] = a
      <4>1. m \in a.messages
        BY <3>1, <3>2
      <4> QED BY <1>9, <1>12, <4>1 DEF InFutures
    <3>3. CASE wire.answers[i] # a
      BY <1>7, <3>1, <3>3 DEF InAnswers
    <3> QED BY <3>2, <3>3
  <2>3. \A c : Shown(chat, c)' = Shown(chat, c)
    BY <1>3 DEF Shown
  <2>4. \A m \in server.handed : \/ \E c \in Chans : m \in Shown(chat, c)
                                 \/ InAnswers(m, wire.answers)
                                 \/ InFutures(m, future)
                                 \/ m \in ghost.lost
    BY DEF ChatInv, CoverInv
  <2>5. \A m \in server.handed : \/ \E c \in Chans : m \in Shown(chat, c)
                                 \/ InAnswers(m, answers)
                                 \/ InFutures(m, future')
                                 \/ m \in ghost'.lost
    BY <1>9, <2>1, <2>2, <2>4
  <2> QED BY <1>3, <1>8, <2>3, <2>5 DEF CoverInv
<1>17. ChatType'
  BY <1>3, <1>8, <1>9, <1>12 DEF ChatInv, ChatType
<1> QED BY <1>10, <1>14, <1>15, <1>16, <1>17 DEF ChatInv

LEMMA TimeOutKeeps ==
    ASSUME ChatInv, NEW t \in Tasks, TimeOut(t)
    PROVE  ChatInv'
<1>1. /\ task[t].pc = "waiting" /\ future[t].state = "waiting"
      /\ future' = [future EXCEPT ![t].state = "failed"]
      /\ UNCHANGED <<chat, task, wire, server, app, ghost>>
  BY DEF TimeOut, Waiting
<1>2. Sure' = Sure /\ ShownInv' /\ MountInv' /\ CancelInv' /\ FocusInv'
  BY <1>1, StillKeep
<1>3. future[t] \in Futures /\ future[t].messages = {}
  BY <1>1, TasksAre DEF FutureOK
<1>4. PICK f : f = [future[t] EXCEPT !.state = "failed"]
  OBVIOUS
<1>5. f \in Futures /\ f.state = "failed" /\ f.messages = {}
  BY <1>3, <1>4 DEF Futures
<1>6. /\ future' \in [Tasks -> Futures] /\ future'[t] = f
      /\ \A u \in Tasks : u # t => future'[u] = future[u]
  BY <1>1, <1>4, <1>5, TasksAre
<1>7. ASSUME NEW u \in Tasks
      PROVE  FutureOK(u, future'[u], task[u], server.handed, Sure)
  <2>1. FutureOK(u, future[u], task[u], server.handed, Sure)
    BY TasksAre
  <2>2. CASE u = t
    BY <1>1, <1>5, <1>6, <2>1, <2>2 DEF FutureOK
  <2>3. CASE u # t
    BY <1>6, <2>1, <2>3
  <2> QED BY <2>2, <2>3
<1>8. FutureInv'
  BY <1>1, <1>2, <1>7 DEF FutureInv
<1>9. WireInv'
  BY <1>1, <1>2 DEF ChatInv, WireInv
<1>10. CoverInv'
  <2>1. \A m : InFutures(m, future) => InFutures(m, future')
    BY <1>3, <1>6 DEF InFutures
  <2>2. \A c : Shown(chat, c)' = Shown(chat, c)
    BY <1>1 DEF Shown
  <2>3. \A m \in server.handed : \/ \E c \in Chans : m \in Shown(chat, c)
                                 \/ InAnswers(m, wire.answers)
                                 \/ InFutures(m, future')
                                 \/ m \in ghost.lost
    BY <2>1 DEF ChatInv, CoverInv
  <2> QED BY <1>1, <2>2, <2>3 DEF CoverInv
<1>11. ChatType'
  BY <1>1, <1>6 DEF ChatInv, ChatType
<1> QED BY <1>2, <1>8, <1>9, <1>10, <1>11 DEF ChatInv

\* A call gets a number of its own, so that no answer to an older one is its answer.
LEMMA AskKeeps ==
    ASSUME ChatInv, NEW t \in Tasks, Ask(t)
    PROVE  ChatInv'
<1>1. PICK k \in TaskStates : k = task[t]
  BY TasksAre
<1>2. k.pc = "ready" /\ UNCHANGED <<chat, server, app, ghost>>
  BY <1>1 DEF Ask
<1>3. PICK n \in Nat : n = k.calls + 1
  BY DEF TaskStates
<1>4. PICK c : c = IF k.op = "send" THEN chat.focused ELSE k.channel
  OBVIOUS
<1>5. c \in Chans \cup {Nowhere} /\ (k.op # "send" => c = k.channel)
  BY <1>1, <1>4 DEF ChatInv, ChatType, TaskStates
<1>6. PICK r : r = [id |-> <<t, n>>, op |-> k.op, channel |-> c]
  OBVIOUS
<1>7. /\ r \in Requests /\ r.id[1] = t /\ r.id[2] = n /\ r.op = k.op /\ r.channel = c
  BY <1>1, <1>5, <1>6 DEF Requests, TaskStates
<1>8. PICK asking : asking = [k EXCEPT !.pc = "waiting", !.calls = n]
  OBVIOUS
<1>9. /\ asking \in TaskStates /\ asking.pc = "waiting" /\ asking.calls = n
      /\ asking.op = k.op /\ asking.channel = k.channel /\ asking.join = k.join
  BY <1>8 DEF TaskStates
<1>10. /\ task' \in [Tasks -> TaskStates] /\ task'[t] = asking
       /\ \A u \in Tasks : u # t => task'[u] = task[u]
  <2>1. task' = [task EXCEPT ![t] = asking]
    <3>1. task' = [task EXCEPT ![t].pc = "waiting", ![t].calls = @ + 1]
      BY DEF Ask
    <3>2. task \in [Tasks -> TaskStates]
      BY TasksAre
    <3> QED BY <1>1, <1>3, <1>8, <3>1, <3>2 DEF TaskStates
  <2> QED BY <1>9, <2>1, TasksAre
<1>11. PICK state \in {"waiting", "failed"} :
           future' = [future EXCEPT ![t] = [state |-> state, messages |-> {}]]
  <2>1. \E state \in IF server.alive THEN {"waiting"} ELSE {"waiting", "failed"} :
            future' = [future EXCEPT ![t] = [state |-> state, messages |-> {}]]
    BY DEF Ask
  <2> QED BY <2>1
<1>12. PICK f \in Futures : f = [state |-> state, messages |-> {}]
  BY DEF Futures
<1>13. /\ future' \in [Tasks -> Futures] /\ future'[t] = f
       /\ f.messages = {} /\ f.state # "answered"
       /\ \A u \in Tasks : u # t => future'[u] = future[u]
  BY <1>11, <1>12, TasksAre
<1>14. /\ wire' \in [requests : SUBSET Requests, answers : Seq(Answers), reading : BOOLEAN]
       /\ wire'.requests \subseteq wire.requests \cup {r}
       /\ wire'.answers = wire.answers
  <2>1. wire' = IF server.alive THEN [wire EXCEPT !.requests = @ \cup {r}] ELSE wire
    BY <1>1, <1>3, <1>4, <1>6 DEF Ask
  <2>2. PICK requests \in SUBSET Requests : requests = wire.requests \cup {r}
    BY <1>7, TasksAre
  <2>3. wire' = [wire EXCEPT !.requests = requests] \/ wire' = wire
    BY <2>1, <2>2, TasksAre
  <2> QED BY <2>2, <2>3, TasksAre
<1>15. Sure' = Sure
  BY <1>2 DEF Sure
<1>16. ChatType'
  BY <1>2, <1>10, <1>13, <1>14 DEF ChatInv, ChatType
<1>17. WireInv'
  <2>1. ASSUME NEW q \in wire.requests PROVE RequestOK(q, task')
    <3>1. RequestOK(q, task) /\ q.id[1] \in Tasks /\ q.id[2] \in Nat
      BY ServerIs DEF Requests
    <3>2. CASE q.id[1] # t
      BY <1>10, <3>1, <3>2 DEF RequestOK
    <3>3. CASE q.id[1] = t
      <4>1. q.id[2] <= k.calls /\ k.calls \in Nat
        BY <1>1, <3>1, <3>3 DEF RequestOK, TaskStates
      <4>2. q.id[2] <= n /\ q.id[2] # n
        BY <1>3, <3>1, <4>1
      <4> QED BY <1>9, <1>10, <3>1, <3>3, <4>2 DEF RequestOK
    <3> QED BY <3>2, <3>3
  <2>2. RequestOK(r, task')
    <3>1. r.op = "recv" => t = "pump"
      <4>1. FutureOK(t, future[t], k, server.handed, Sure)
        BY <1>1, TasksAre
      <4> QED BY <1>7, <4>1 DEF FutureOK
    <3>2. r.op # "send" => r.channel = k.channel /\ k.channel \in Chans
      BY <1>5, <1>7 DEF TaskStates
    <3> QED BY <1>7, <1>9, <1>10, <3>1, <3>2 DEF RequestOK
  <2>3. ASSUME NEW i \in DOMAIN wire.answers
        PROVE  AnswerOK(wire.answers[i], task', server.handed, Sure)
    <3>1. PICK a \in Answers : a = wire.answers[i]
      BY TasksAre
    <3>2. AnswerOK(a, task, server.handed, Sure) /\ a.id[1] \in Tasks /\ a.id[2] \in Nat
      BY <3>1, TasksAre DEF Answers
    <3>3. CASE a.id[1] # t
      BY <1>10, <3>1, <3>2, <3>3 DEF AnswerOK
    <3>4. CASE a.id[1] = t
      <4>1. a.id[2] <= k.calls /\ k.calls \in Nat
        BY <1>1, <3>2, <3>4 DEF AnswerOK, TaskStates
      <4>2. a.id[2] <= n /\ a.id[2] # n
        BY <1>3, <3>2, <4>1
      <4> QED BY <1>9, <1>10, <3>1, <3>2, <3>4, <4>2 DEF AnswerOK
    <3> QED BY <3>3, <3>4
  <2> QED BY <1>2, <1>14, <1>15, <2>1, <2>2, <2>3 DEF WireInv
<1>18. FutureInv'
  <2>1. ASSUME NEW u \in Tasks
        PROVE  FutureOK(u, future'[u], task'[u], server.handed, Sure)
    <3>1. FutureOK(u, future[u], task[u], server.handed, Sure)
      BY TasksAre
    <3>2. CASE u = t
      BY <1>1, <1>9, <1>10, <1>13, <3>1, <3>2 DEF FutureOK
    <3>3. CASE u # t
      BY <1>10, <1>13, <3>1, <3>3
    <3> QED BY <3>2, <3>3
  <2> QED BY <1>2, <1>15, <2>1 DEF FutureInv
<1>19. ShownInv'
  BY <1>2, ServerIs, ShownKept DEF ChatInv
<1>20. CoverInv'
  <2>1. future[t].messages = {}
    BY <1>1, <1>2, TasksAre DEF FutureOK
  <2>2. \A m : InFutures(m, future) => InFutures(m, future')
    BY <1>13, <2>1 DEF InFutures
  <2>3. \A d : Shown(chat, d)' = Shown(chat, d)
    BY <1>2 DEF Shown
  <2>4. \A m \in server.handed : \/ \E d \in Chans : m \in Shown(chat, d)
                                 \/ InAnswers(m, wire.answers)
                                 \/ InFutures(m, future')
                                 \/ m \in ghost.lost
    BY <2>2 DEF ChatInv, CoverInv
  <2> QED BY <1>2, <1>14, <2>3, <2>4 DEF CoverInv
<1>21. MountInv' /\ CancelInv'
  <2>1. \A u \in Tasks : /\ task'[u].pc = task[u].pc \/ (u = t /\ task'[u].pc = "waiting")
                         /\ task'[u].op = task[u].op /\ task'[u].channel = task[u].channel
    BY <1>1, <1>9, <1>10
  <2>2. MountInv'
    BY <1>1, <1>2, <1>15, <2>1, LoopsAre DEF ChatInv, MountInv
  <2>3. CancelInv'
    BY <1>1, <1>2, <2>1, LoopsAre DEF ChatInv, CancelInv
  <2> QED BY <2>2, <2>3
<1>22. FocusInv'
  <2>1. \A u \in Tasks : /\ task'[u].op = task[u].op /\ task'[u].channel = task[u].channel
                         /\ task'[u].pc \in {"ready", "waiting"}
                               <=> task[u].pc \in {"ready", "waiting"}
    BY <1>1, <1>2, <1>9, <1>10
  <2>2. Selecting' = Selecting
    BY <2>1, LoopsAre DEF Selecting, IsSelection
  <2>3. \A u \in Selecting : task'[u].channel = task[u].channel
    BY <2>1, LoopsAre DEF Selecting
  <2> QED BY <1>2, <1>15, <2>2, <2>3 DEF ChatInv, FocusInv
<1> QED BY <1>16, <1>17, <1>18, <1>19, <1>20, <1>21, <1>22 DEF ChatInv

\* A task is created for an input.
LEMMA InputKeeps ==
    ASSUME ChatInv, NEW u \in Users, NEW k \in TaskStates, task[u].pc = "off",
           k.pc = "ready", k.op \in {"subscribe", "send"}, k.calls = task[u].calls,
           task' = [task EXCEPT ![u] = k],
           UNCHANGED <<chat, future, wire, server, app>>,
           ghost' \in [wanted : Chans \cup {Nowhere}, overlap : BOOLEAN, unsure : SUBSET Chans,
                       seen : SUBSET Nat, lost : SUBSET Nat, swallowed : SUBSET Tasks],
           ghost'.unsure = ghost.unsure, ghost'.seen = ghost.seen, ghost'.lost = ghost.lost,
           app.phase = "running", FocusInv'
    PROVE  ChatInv'
<1>1. u \in Tasks /\ u # "mount" /\ u # "pump"
  BY LoopsAre
<1>2. /\ task' \in [Tasks -> TaskStates] /\ task'[u] = k
      /\ \A t \in Tasks : t # u => task'[t] = task[t]
  BY <1>1, TasksAre
<1>3. Sure' = Sure
  BY DEF Sure
<1>4. ChatType'
  BY <1>2 DEF ChatInv, ChatType
<1>5. WireInv'
  <2>1. ASSUME NEW r \in wire.requests PROVE RequestOK(r, task')
    <3>1. RequestOK(r, task) /\ r.id[1] \in Tasks
      BY ServerIs DEF Requests
    <3>2. CASE r.id[1] # u
      BY <1>2, <3>1, <3>2 DEF RequestOK
    <3>3. CASE r.id[1] = u
      BY <1>2, <3>1, <3>3 DEF RequestOK
    <3> QED BY <3>2, <3>3
  <2>2. ASSUME NEW i \in DOMAIN wire.answers
        PROVE  AnswerOK(wire.answers[i], task', server.handed, Sure)
    <3>1. PICK a \in Answers : a = wire.answers[i]
      BY TasksAre
    <3>2. AnswerOK(a, task, server.handed, Sure) /\ a.id[1] \in Tasks
      BY <3>1, TasksAre DEF Answers
    <3>3. CASE a.id[1] # u
      BY <1>2, <3>1, <3>2, <3>3 DEF AnswerOK
    <3>4. CASE a.id[1] = u
      BY <1>2, <3>1, <3>2, <3>4 DEF AnswerOK
    <3> QED BY <3>3, <3>4
  <2> QED BY <1>3, <2>1, <2>2 DEF WireInv
<1>6. FutureInv'
  <2>1. ASSUME NEW t \in Tasks
        PROVE  FutureOK(t, future[t], task'[t], server.handed, Sure)
    <3>1. FutureOK(t, future[t], task[t], server.handed, Sure)
      BY TasksAre
    <3>2. CASE t = u
      BY <1>2, <3>1, <3>2 DEF FutureOK
    <3>3. CASE t # u
      BY <1>2, <3>1, <3>3
    <3> QED BY <3>2, <3>3
  <2> QED BY <1>3, <2>1 DEF FutureInv
<1>7. ShownInv'
  BY ServerIs, ShownKept DEF ChatInv
<1>8. CoverInv'
  <2>1. \A c : Shown(chat, c)' = Shown(chat, c)
    BY DEF Shown
  <2> QED BY <2>1 DEF ChatInv, CoverInv
<1>9. MountInv' /\ CancelInv'
  BY <1>1, <1>2, LoopsAre DEF ChatInv, MountInv, CancelInv
<1> QED BY <1>4, <1>5, <1>6, <1>7, <1>8, <1>9 DEF ChatInv

LEMMA SelectKeeps ==
    ASSUME ChatInv, NEW u \in Users, NEW c \in Chans, NEW join \in BOOLEAN, Select(u, c, join)
    PROVE  ChatInv'
<1>1. /\ task[u].pc = "off" /\ app.phase = "running"
      /\ ghost' = [ghost EXCEPT !.wanted = c, !.overlap = @ \/ Selecting # {}]
      /\ UNCHANGED <<chat, future, wire, server, app>>
  BY DEF Select, Input, Command
<1>2. u \in Tasks /\ task[u] \in TaskStates
  BY LoopsAre, TasksAre
<1>3. PICK k : k = [task[u] EXCEPT !.pc = "ready", !.op = "subscribe", !.channel = c, !.join = join]
  OBVIOUS
<1>4. /\ k \in TaskStates /\ k.pc = "ready" /\ k.op = "subscribe" /\ k.channel = c
      /\ k.calls = task[u].calls
  BY <1>2, <1>3 DEF TaskStates, Ops
<1>5. /\ task' = [task EXCEPT ![u] = k] /\ task'[u] = k
      /\ \A t \in Tasks : t # u => task'[t] = task[t]
  BY <1>2, <1>3, TasksAre DEF Select
<1>6. PICK overlap \in BOOLEAN : overlap <=> ghost.overlap \/ Selecting # {}
  OBVIOUS
<1>7. ghost' = [ghost EXCEPT !.wanted = c, !.overlap = overlap]
  <2>1. ghost.overlap \in BOOLEAN
    BY ServerIs
  <2>2. (ghost.overlap \/ Selecting # {}) = overlap
    BY <1>6, <2>1
  <2> QED BY <1>1, <2>2
<1>8. /\ ghost' \in [wanted : Chans \cup {Nowhere}, overlap : BOOLEAN, unsure : SUBSET Chans,
                     seen : SUBSET Nat, lost : SUBSET Nat, swallowed : SUBSET Tasks]
      /\ ghost'.unsure = ghost.unsure /\ ghost'.seen = ghost.seen /\ ghost'.lost = ghost.lost
      /\ ghost'.wanted = c /\ ghost'.overlap = overlap
  BY <1>7, ServerIs
<1>9. FocusInv'
  <2>1. chat.focused \in Sure' /\ chat' = chat
    BY <1>1, <1>8 DEF ChatInv, FocusInv, Sure
  <2>2. Selecting' = Selecting \cup {u}
    BY <1>2, <1>4, <1>5, LoopsAre DEF Selecting, IsSelection
  <2>3. ~overlap => Selecting' = {u} /\ task'[u].channel = c
    BY <1>4, <1>5, <1>6, <2>2
  <2> QED BY <1>8, <2>1, <2>3 DEF FocusInv
<1> QED BY <1>1, <1>4, <1>5, <1>8, <1>9, InputKeeps

LEMMA SubmitKeeps ==
    ASSUME ChatInv, NEW u \in Users, Submit(u)
    PROVE  ChatInv'
<1>1. /\ task[u].pc = "off" /\ app.phase = "running"
      /\ UNCHANGED <<chat, future, wire, server, app, ghost>>
  BY DEF Submit, Input, Command
<1>2. u \in Tasks /\ task[u] \in TaskStates
  BY LoopsAre, TasksAre
<1>3. PICK k : k = [task[u] EXCEPT !.pc = "ready", !.op = "send"]
  OBVIOUS
<1>4. k \in TaskStates /\ k.pc = "ready" /\ k.op = "send" /\ k.calls = task[u].calls
  BY <1>2, <1>3 DEF TaskStates, Ops
<1>5. /\ task' = [task EXCEPT ![u] = k] /\ task'[u] = k
      /\ \A t \in Tasks : t # u => task'[t] = task[t]
  BY <1>2, <1>3, TasksAre DEF Submit
<1>6. FocusInv'
  <2>1. Selecting' = Selecting
    BY <1>1, <1>2, <1>4, <1>5, LoopsAre DEF Selecting, IsSelection
  <2>2. \A t \in Selecting : task'[t].channel = task[t].channel
    BY <1>1, <1>5, LoopsAre DEF Selecting
  <2> QED BY <1>1, <2>1, <2>2 DEF ChatInv, FocusInv, Sure
<1> QED BY <1>1, <1>4, <1>5, <1>6, ServerIs, InputKeeps

LEMMA QuitKeeps ==
    ASSUME ChatInv, Quit
    PROVE  ChatInv'
<1>1. /\ app.phase = "running" /\ app' = [app EXCEPT !.phase = "closing"]
      /\ UNCHANGED <<chat, task, future, wire, server, ghost>>
  BY DEF Quit, Command
<1>2. /\ app' \in [phase : {"mounting", "running", "closing", "closed"}, to_cancel : Cancels,
                   python311 : BOOLEAN]
      /\ app'.phase = "closing" /\ app'.to_cancel = app.to_cancel
  BY <1>1 DEF ChatInv, ChatType
<1>3. ChatType'
  BY <1>1, <1>2 DEF ChatInv, ChatType
<1>4. WireInv' /\ FutureInv' /\ ShownInv' /\ CoverInv'
  BY <1>1 DEF ChatInv, WireInv, FutureInv, ShownInv, CoverInv, Shown, Sure
<1>5. MountInv' /\ CancelInv' /\ FocusInv'
  BY <1>1, <1>2 DEF ChatInv, MountInv, CancelInv, FocusInv
<1> QED BY <1>3, <1>4, <1>5 DEF ChatInv

LEMMA NoFutureIs ==
    /\ NoFuture \in Futures /\ NoFuture.state = "none" /\ NoFuture.messages = {}
    /\ \A f \in Futures : f.state = "none" /\ f.messages = {} => f = NoFuture
BY DEF NoFuture, Futures

\* Calls end, and tasks go on or are done: nothing is about a call they wait for.
LEMMA CallsEnd ==
    ASSUME ChatInv,
           \A u \in Tasks :
               \/ task'[u] = task[u] /\ future'[u] = future[u]
               \/ /\ task'[u].pc # "waiting" /\ task'[u].calls = task[u].calls
                  /\ task'[u].op = "recv" => u = "pump"
                  /\ future'[u] = NoFuture,
           wire'.requests \subseteq wire.requests,
           \A i \in DOMAIN wire'.answers :
               i \in DOMAIN wire.answers /\ wire'.answers[i] = wire.answers[i],
           server'.handed = server.handed, Sure \subseteq Sure'
    PROVE  WireInv' /\ FutureInv'
<1>1. ASSUME NEW r \in wire'.requests PROVE RequestOK(r, task')
  <2>1. RequestOK(r, task) /\ r.id[1] \in Tasks
    BY ServerIs DEF Requests
  <2>2. CASE task'[r.id[1]] = task[r.id[1]]
    BY <2>1, <2>2 DEF RequestOK
  <2>3. CASE task'[r.id[1]].pc # "waiting" /\ task'[r.id[1]].calls = task[r.id[1]].calls
    BY <2>1, <2>3 DEF RequestOK
  <2> QED BY <2>1, <2>2, <2>3
<1>2. ASSUME NEW i \in DOMAIN wire'.answers
      PROVE  AnswerOK(wire'.answers[i], task', server'.handed, Sure')
  <2>1. PICK a \in Answers : a = wire.answers[i]
    BY TasksAre
  <2>2. AnswerOK(a, task, server.handed, Sure) /\ a.id[1] \in Tasks
    BY <2>1, TasksAre DEF Answers
  <2>3. CASE task'[a.id[1]] = task[a.id[1]]
    BY <2>1, <2>2, <2>3 DEF AnswerOK
  <2>4. CASE task'[a.id[1]].pc # "waiting" /\ task'[a.id[1]].calls = task[a.id[1]].calls
    BY <2>1, <2>2, <2>4 DEF AnswerOK
  <2>5. \/ task'[a.id[1]] = task[a.id[1]]
        \/ task'[a.id[1]].pc # "waiting" /\ task'[a.id[1]].calls = task[a.id[1]].calls
    BY <2>2
  <2> QED BY <2>3, <2>4, <2>5
<1>3. ASSUME NEW u \in Tasks
      PROVE  FutureOK(u, future'[u], task'[u], server'.handed, Sure')
  <2>1. FutureOK(u, future[u], task[u], server.handed, Sure)
    BY TasksAre
  <2>2. CASE task'[u] = task[u] /\ future'[u] = future[u]
    BY <2>1, <2>2 DEF FutureOK
  <2>3. CASE (task'[u].op = "recv" => u = "pump") /\ future'[u] = NoFuture
    BY <2>3, NoFutureIs DEF FutureOK
  <2> QED BY <2>2, <2>3
<1> QED BY <1>1, <1>2, <1>3 DEF WireInv, FutureInv

\* on_unmount cancels one task; while the app closes nothing is promised of the focus.
LEMMA CancelKeeps ==
    ASSUME ChatInv, CancelNext
    PROVE  ChatInv'
<1>1. /\ app.phase = "closing" /\ app.to_cancel # <<>>
      /\ UNCHANGED <<chat, wire, server>>
  BY DEF CancelNext
<1>2. /\ app \in [phase : {"mounting", "running", "closing", "closed"}, to_cancel : Cancels,
                  python311 : BOOLEAN]
      /\ app.to_cancel \in Cancels
  BY DEF ChatInv, ChatType
<1>3. PICK t \in Loops : t = Head(app.to_cancel)
  BY <1>1, <1>2 DEF Cancels, Loops
<1>4. CASE /\ ghost' = [ghost EXCEPT !.swallowed = @ \cup {t}]
           /\ UNCHANGED <<task, future, app>>
  <2>1. PICK swallowed \in SUBSET Tasks : swallowed = ghost.swallowed \cup {t}
    BY LoopsAre, ServerIs
  <2>2. /\ ghost' \in [wanted : Chans \cup {Nowhere}, overlap : BOOLEAN, unsure : SUBSET Chans,
                       seen : SUBSET Nat, lost : SUBSET Nat, swallowed : SUBSET Tasks]
        /\ ghost'.unsure = ghost.unsure /\ ghost'.seen = ghost.seen
        /\ ghost'.lost = ghost.lost /\ ghost'.wanted = ghost.wanted
        /\ ghost'.overlap = ghost.overlap
    <3>1. ghost' = [ghost EXCEPT !.swallowed = swallowed]
      BY <1>4, <2>1, ServerIs
    <3> QED BY <3>1, ServerIs
  <2>3. Sure' = Sure
    BY <1>1, <2>2 DEF Sure
  <2>4. ChatType'
    BY <1>1, <1>4, <2>2 DEF ChatInv, ChatType
  <2>5. WireInv'
    BY <1>1, <1>4, <2>3 DEF ChatInv, WireInv
  <2> QED BY <1>1, <1>4, <2>2, <2>3, <2>4, <2>5, ServerIs, OthersKeep
<1>5. CASE /\ task' = [task EXCEPT ![t].pc = "done"]
           /\ future' = [future EXCEPT ![t] = NoFuture]
           /\ app' = [app EXCEPT !.to_cancel = Tail(@)]
           /\ ghost' = [ghost EXCEPT !.lost = @ \cup future[t].messages]
  <2>0. t \in Tasks /\ t # "mount" /\ task[t] \in TaskStates
    BY LoopsAre, TasksAre
  <2>1. PICK k : k = [task[t] EXCEPT !.pc = "done"]
    OBVIOUS
  <2>2. k \in TaskStates /\ k.pc = "done" /\ k.calls = task[t].calls /\ k.op = task[t].op
    BY <2>0, <2>1 DEF TaskStates
  <2>3. /\ task' \in [Tasks -> TaskStates] /\ task'[t] = k
        /\ \A u \in Tasks : u # t => task'[u] = task[u]
    BY <1>5, <2>0, <2>1, <2>2, TasksAre
  <2>4. /\ future' \in [Tasks -> Futures] /\ future'[t] = NoFuture
        /\ \A u \in Tasks : u # t => future'[u] = future[u]
    BY <1>5, <2>0, NoFutureIs, TasksAre
  <2>5. PICK lost \in SUBSET Nat : lost = ghost.lost \cup future[t].messages
    <3>1. future[t] \in Futures
      BY <2>0, TasksAre
    <3> QED BY <3>1, ServerIs DEF Futures
  <2>6. /\ ghost' \in [wanted : Chans \cup {Nowhere}, overlap : BOOLEAN, unsure : SUBSET Chans,
                       seen : SUBSET Nat, lost : SUBSET Nat, swallowed : SUBSET Tasks]
        /\ ghost'.unsure = ghost.unsure /\ ghost'.seen = ghost.seen /\ ghost'.lost = lost
    <3>1. ghost' = [ghost EXCEPT !.lost = lost]
      BY <1>5, <2>5, ServerIs
    <3> QED BY <3>1, ServerIs
  <2>7. Sure' = Sure
    BY <1>1, <2>6 DEF Sure
  <2>8. WireInv' /\ FutureInv'
    <3>1. task[t].op = "recv" => t = "pump"
      BY <2>0, TasksAre DEF FutureOK
    <3> QED BY <1>1, <2>2, <2>3, <2>4, <2>7, <3>1, CallsEnd
  <2>9. ShownInv'
    BY <1>1, <2>6, ServerIs, ShownKept DEF ChatInv
  <2>10. CoverInv'
    <3>1. \A m : InFutures(m, future) => InFutures(m, future') \/ m \in lost
      BY <2>4, <2>5 DEF InFutures
    <3>2. \A c : Shown(chat, c)' = Shown(chat, c)
      BY <1>1 DEF Shown
    <3>3. \A m \in server.handed : \/ \E c \in Chans : m \in Shown(chat, c)
                                   \/ InAnswers(m, wire.answers)
                                   \/ InFutures(m, future')
                                   \/ m \in lost
      BY <2>5, <3>1 DEF ChatInv, CoverInv
    <3> QED BY <1>1, <2>6, <3>2, <3>3 DEF CoverInv
  <2>11. /\ app' \in [phase : {"mounting", "running", "closing", "closed"}, to_cancel : Cancels,
                      python311 : BOOLEAN]
         /\ app'.phase = "closing"
         /\ app'.to_cancel = <<>> => t = "pump"
         /\ "pump" # t => (app.to_cancel = <<>> <=> app'.to_cancel = <<>>)
    <3>1. PICK rest : rest = Tail(app.to_cancel)
      OBVIOUS
    <3>2. rest \in Cancels /\ (rest = <<>> => t = "pump")
      <4>1. CASE app.to_cancel = <<"beat", "roster", "pump">>
        <5>1. rest = <<"roster", "pump">>
          BY <3>1, <4>1
        <5> QED BY <5>1 DEF Cancels
      <4>2. CASE app.to_cancel = <<"roster", "pump">>
        <5>1. rest = <<"pump">>
          BY <3>1, <4>2
        <5> QED BY <5>1 DEF Cancels
      <4>3. CASE app.to_cancel = <<"pump">>
        <5>1. rest = <<>> /\ t = "pump"
          BY <1>3, <3>1, <4>3
        <5> QED BY <5>1 DEF Cancels
      <4> QED BY <1>1, <1>2, <4>1, <4>2, <4>3 DEF Cancels
    <3>3. app' = [app EXCEPT !.to_cancel = rest]
      BY <1>5, <3>1
    <3> QED BY <1>1, <1>2, <3>2, <3>3
  <2>12. ChatType'
    BY <1>1, <2>3, <2>4, <2>6, <2>11 DEF ChatInv, ChatType
  <2>13. MountInv' /\ CancelInv' /\ FocusInv'
    BY <1>1, <2>0, <2>2, <2>3, <2>11, LoopsAre DEF ChatInv, MountInv, CancelInv, FocusInv
  <2> QED BY <2>8, <2>9, <2>10, <2>12, <2>13 DEF ChatInv
<1> QED BY <1>3, <1>4, <1>5 DEF CancelNext

LEMMA StopKeeps ==
    ASSUME ChatInv, Stop
    PROVE  ChatInv'
<1>1. /\ app.phase = "closing" /\ app.to_cancel = <<>>
      /\ app' = [app EXCEPT !.phase = "closed"]
      /\ task' = [t \in Tasks |-> [task[t] EXCEPT !.pc = "done"]]
      /\ future' = [t \in Tasks |-> NoFuture]
      /\ wire' = [requests |-> {}, answers |-> <<>>, reading |-> FALSE]
      /\ server' = [server EXCEPT !.alive = FALSE]
      /\ chat' = chat
  BY DEF Stop
<1>2. ASSUME NEW t \in Tasks
      PROVE  /\ [task[t] EXCEPT !.pc = "done"] \in TaskStates
             /\ task'[t] = [task[t] EXCEPT !.pc = "done"]
             /\ task'[t].pc = "done" /\ task'[t].calls = task[t].calls
             /\ task'[t].op = task[t].op
             /\ future'[t] = NoFuture
  <2>1. task[t] \in TaskStates
    BY TasksAre
  <2> QED BY <1>1, <2>1 DEF TaskStates
<1>3. task' \in [Tasks -> TaskStates] /\ future' \in [Tasks -> Futures]
  BY <1>1, <1>2, NoFutureIs
<1>4. /\ app' \in [phase : {"mounting", "running", "closing", "closed"}, to_cancel : Cancels,
                   python311 : BOOLEAN]
      /\ app'.phase = "closed" /\ app'.to_cancel = <<>>
  BY <1>1 DEF ChatInv, ChatType
<1>5. /\ wire' \in [requests : SUBSET Requests, answers : Seq(Answers), reading : BOOLEAN]
      /\ wire'.requests = {} /\ wire'.answers = <<>> /\ DOMAIN wire'.answers = {}
  BY <1>1
<1>6. /\ server' \in [alive : BOOLEAN, subs : SUBSET Chans,
                      posted : Seq(Chans \cup {Nowhere}), handed : SUBSET Nat]
      /\ server'.subs = server.subs /\ server'.posted = server.posted
      /\ server'.handed = server.handed
  BY <1>1, ServerIs
<1>7. PICK lost \in SUBSET Nat :
          /\ ghost' = [ghost EXCEPT !.lost = lost]
          /\ ghost.lost \subseteq lost
          /\ \A m : InAnswers(m, wire.answers) => m \in lost
  <2>1. PICK cut : cut = UNION {wire.answers[i].messages : i \in DOMAIN wire.answers}
    OBVIOUS
  <2>2. ghost' = [ghost EXCEPT !.lost = ghost.lost \cup cut]
    BY <2>1 DEF Stop
  <2>3. \A i \in DOMAIN wire.answers : wire.answers[i].messages \subseteq Nat
    BY TasksAre DEF Answers
  <2>4. cut \subseteq Nat
    BY <2>1, <2>3
  <2>5. \A m : InAnswers(m, wire.answers) => m \in cut
    BY <2>1 DEF InAnswers
  <2>6. ghost.lost \in SUBSET Nat
    BY ServerIs
  <2>7. (ghost.lost \cup cut) \in SUBSET Nat
    BY <2>4, <2>6
  <2> QED BY <2>2, <2>5, <2>7
<1>8. /\ ghost' \in [wanted : Chans \cup {Nowhere}, overlap : BOOLEAN, unsure : SUBSET Chans,
                     seen : SUBSET Nat, lost : SUBSET Nat, swallowed : SUBSET Tasks]
      /\ ghost'.unsure = ghost.unsure /\ ghost'.seen = ghost.seen /\ ghost'.lost = lost
  BY <1>7, ServerIs
<1>9. Sure' = Sure
  BY <1>6, <1>8 DEF Sure
<1>10. ChatType'
  BY <1>1, <1>3, <1>4, <1>5, <1>6, <1>8 DEF ChatInv, ChatType
<1>11. WireInv' /\ FutureInv'
  <2>1. \A u \in Tasks : task[u].op = "recv" => u = "pump"
    BY TasksAre DEF FutureOK
  <2>2. \A u \in Tasks : /\ task'[u].pc # "waiting" /\ task'[u].calls = task[u].calls
                         /\ task'[u].op = "recv" => u = "pump"
                         /\ future'[u] = NoFuture
    BY <1>2, <2>1
  <2> QED BY <1>5, <1>6, <1>9, <2>2, CallsEnd
<1>12. ShownInv'
  BY <1>1, <1>6, <1>8, ServerIs, ShownKept DEF ChatInv
<1>13. CoverInv'
  <2>1. task["pump"].pc = "done"
    BY <1>1 DEF ChatInv, CancelInv
  <2>2. \A u \in Tasks : future[u].messages = {}
    BY <2>1, TasksAre DEF FutureOK
  <2>3. \A c : Shown(chat, c)' = Shown(chat, c)
    BY <1>1 DEF Shown
  <2>4. \A m \in server.handed : (\E c \in Chans : m \in Shown(chat, c)) \/ m \in lost
    BY <1>7, <2>2 DEF ChatInv, CoverInv, InFutures
  <2> QED BY <1>6, <1>8, <2>3, <2>4 DEF CoverInv
<1>14. MountInv' /\ CancelInv' /\ FocusInv'
  BY <1>2, <1>4, LoopsAre DEF MountInv, CancelInv, FocusInv
<1> QED BY <1>10, <1>11, <1>12, <1>13, <1>14 DEF ChatInv

LEMMA BatchAppended ==
    ASSUME NEW s \in Seq(SUBSET Nat), NEW b \in SUBSET Nat
    PROVE  /\ Append(s, b) \in Seq(SUBSET Nat)
           /\ UNION Range(Append(s, b)) = (UNION Range(s)) \cup b
           /\ (\A i, j \in DOMAIN s : i # j => s[i] \cap s[j] = {}) /\ b \cap (UNION Range(s)) = {}
                 => \A i, j \in DOMAIN Append(s, b) :
                        i # j => Append(s, b)[i] \cap Append(s, b)[j] = {}
<1>1. PICK t : t = Append(s, b)
  OBVIOUS
<1>2. PICK n : n = Len(s) + 1
  OBVIOUS
<1>3. t \in Seq(SUBSET Nat) /\ DOMAIN t = DOMAIN s \cup {n} /\ t[n] = b /\ n \notin DOMAIN s
  BY <1>1, <1>2
<1>4. \A i \in DOMAIN s : t[i] = s[i]
  BY <1>1
<1>5. UNION Range(t) = (UNION Range(s)) \cup b
  <2>1. Range(t) = Range(s) \cup {b}
    BY <1>3, <1>4 DEF Range
  <2> QED BY <2>1
<1>6. ASSUME \A i, j \in DOMAIN s : i # j => s[i] \cap s[j] = {}, b \cap (UNION Range(s)) = {},
             NEW i \in DOMAIN t, NEW j \in DOMAIN t, i # j
      PROVE  t[i] \cap t[j] = {}
  <2>1. \A h \in DOMAIN s : s[h] \cap b = {}
    BY <1>6 DEF Range
  <2>2. CASE i = n
    BY <1>3, <1>4, <1>6, <2>1, <2>2
  <2>3. CASE j = n
    BY <1>3, <1>4, <1>6, <2>1, <2>3
  <2>4. CASE i \in DOMAIN s /\ j \in DOMAIN s
    BY <1>4, <1>6, <2>4
  <2> QED BY <1>3, <2>2, <2>3, <2>4
<1> QED BY <1>1, <1>3, <1>5, <1>6

\* Whatever was handed out is a finite set of messages on channels.
LEMMA HandedIs ==
    ASSUME ChatInv
    PROVE  /\ server.handed \in SUBSET Nat
           /\ \A m \in server.handed : m \in DOMAIN server.posted /\ server.posted[m] \in Chans
           /\ \A S : S \subseteq server.handed => IsFiniteSet(S) /\ Cardinality(S) \in Nat
<1>1. /\ server.posted \in Seq(Chans \cup {Nowhere}) /\ server.handed \in SUBSET Nat
      /\ \A m \in server.handed : m \in DOMAIN server.posted /\ server.posted[m] \in Chans
  BY ServerIs
<1>2. Len(server.posted) \in Nat /\ DOMAIN server.posted = 1 .. Len(server.posted)
  BY <1>1
<1>3. IsFiniteSet(1 .. Len(server.posted))
  BY <1>2, FS_Interval
<1>4. ASSUME NEW S, S \subseteq server.handed
      PROVE  IsFiniteSet(S) /\ Cardinality(S) \in Nat
  <2>1. S \subseteq 1 .. Len(server.posted)
    BY <1>1, <1>2, <1>4
  <2>2. IsFiniteSet(S)
    BY <1>3, <2>1, FS_Subset
  <2> QED BY <2>2, FS_CardinalityType
<1> QED BY <1>1, <1>4

LEMMA ChannelIs ==
    ASSUME ChatInv, NEW c \in Chans
    PROVE  /\ chat.shown[c] \in Seq(SUBSET Nat) /\ chat.unread[c] \in Nat
           /\ \A i, j \in DOMAIN chat.shown[c] :
                 i # j => chat.shown[c][i] \cap chat.shown[c][j] = {}
           /\ Shown(chat, c) \subseteq {m \in server.handed : server.posted[m] = c}
           /\ chat.unread[c] = Cardinality(Shown(chat, c) \ ghost.seen)
           /\ c = chat.focused => Shown(chat, c) \subseteq ghost.seen
           /\ \A m \in ghost.seen : m \in server.handed /\ m \in Shown(chat, server.posted[m])
BY DEF ChatInv, ChatType, ShownInv

ChatStates ==
    [shown : [Chans -> Seq(SUBSET Nat)], unread : [Chans -> Nat],
     focused : Chans \cup {Nowhere}, listed : SUBSET (Chans \cup {Nowhere})]

\* What a drain adds to the store.
LEMMA IngestIs ==
    ASSUME ChatInv, NEW messages \in SUBSET server.handed, NEW store,
           store = ingest_message(chat, messages)
    PROVE  /\ store \in ChatStates /\ store.focused = chat.focused
           /\ \A c \in Chans :
                 /\ Shown(store, c) = Shown(chat, c) \cup On(c, messages)
                 /\ \A i, j \in DOMAIN store.shown[c] :
                       i # j => store.shown[c][i] \cap store.shown[c][j] = {}
                 /\ store.unread[c] = IF c = chat.focused THEN chat.unread[c]
                                      ELSE chat.unread[c]
                                             + Cardinality(On(c, messages) \ Shown(chat, c))
<1>1. chat \in ChatStates
  BY DEF ChatInv, ChatType, ChatStates
<1>2. PICK fresh : fresh = [c \in Chans |-> On(c, messages) \ Shown(chat, c)]
  OBVIOUS
<1>3. \A c \in Chans : /\ fresh[c] = On(c, messages) \ Shown(chat, c)
                       /\ fresh[c] \in SUBSET Nat /\ Cardinality(fresh[c]) \in Nat
  <2> TAKE c \in Chans
  <2>1. fresh[c] = On(c, messages) \ Shown(chat, c) /\ fresh[c] \subseteq server.handed
    BY <1>2 DEF On
  <2> QED BY <2>1, HandedIs
<1>4. PICK shown :
          shown = [c \in Chans |-> IF fresh[c] # {} THEN Append(chat.shown[c], fresh[c])
                                   ELSE chat.shown[c]]
  OBVIOUS
<1>5. PICK unread :
          unread = [c \in Chans |-> IF c = chat.focused THEN chat.unread[c]
                                    ELSE chat.unread[c] + Cardinality(fresh[c])]
  OBVIOUS
<1>6. ASSUME NEW c \in Chans
      PROVE  /\ shown[c] \in Seq(SUBSET Nat)
             /\ UNION Range(shown[c]) = Shown(chat, c) \cup On(c, messages)
             /\ \A i, j \in DOMAIN shown[c] : i # j => shown[c][i] \cap shown[c][j] = {}
  <2>1. /\ chat.shown[c] \in Seq(SUBSET Nat)
        /\ \A i, j \in DOMAIN chat.shown[c] :
              i # j => chat.shown[c][i] \cap chat.shown[c][j] = {}
    BY ChannelIs
  <2>2. PICK b \in SUBSET Nat : b = fresh[c]
    BY <1>3
  <2>3. Shown(chat, c) = UNION Range(chat.shown[c])
    BY DEF Shown
  <2>4. b = On(c, messages) \ Shown(chat, c)
    BY <1>3, <2>2
  <2>5. CASE b = {}
    <3>1. shown[c] = chat.shown[c]
      BY <1>4, <2>2, <2>5
    <3>2. On(c, messages) \subseteq Shown(chat, c)
      BY <2>4, <2>5
    <3> QED BY <2>1, <2>3, <3>1, <3>2
  <2>6. CASE b # {}
    <3>1. PICK s \in Seq(SUBSET Nat) : s = chat.shown[c]
      BY <2>1
    <3>2. shown[c] = Append(s, b)
      BY <1>4, <2>2, <2>6, <3>1
    <3>3. /\ Append(s, b) \in Seq(SUBSET Nat)
          /\ UNION Range(Append(s, b)) = (UNION Range(s)) \cup b
          /\ \A i, j \in DOMAIN Append(s, b) :
                i # j => Append(s, b)[i] \cap Append(s, b)[j] = {}
      <4>1. b \cap (UNION Range(s)) = {}
        BY <2>3, <2>4, <3>1
      <4> QED BY <2>1, <3>1, <4>1, BatchAppended
    <3>4. (UNION Range(s)) \cup b = Shown(chat, c) \cup On(c, messages)
      BY <2>3, <2>4, <3>1
    <3> QED BY <3>2, <3>3, <3>4
  <2> QED BY <2>5, <2>6
<1>7. PICK new \in SUBSET Chans : new = {c \in Chans : fresh[c] # {}}
  OBVIOUS
<1>8. PICK listed \in SUBSET (Chans \cup {Nowhere}) : listed = chat.listed \cup new
  BY <1>1 DEF ChatStates
<1>9. store = [chat EXCEPT !.shown = shown, !.listed = listed, !.unread = unread]
  <2>1. store = Extended(chat, fresh)
    BY <1>2 DEF ingest_message
  <2>2. shown = [c \in Chans |-> IF c \in new THEN Append(chat.shown[c], fresh[c])
                                 ELSE chat.shown[c]]
    BY <1>4, <1>7
  <2> QED BY <1>5, <1>7, <1>8, <2>1, <2>2 DEF Extended
<1>10. shown \in [Chans -> Seq(SUBSET Nat)]
  BY <1>4, <1>6
<1>11. unread \in [Chans -> Nat]
  <2>1. \A c \in Chans : chat.unread[c] \in Nat /\ Cardinality(fresh[c]) \in Nat
    BY <1>1, <1>3 DEF ChatStates
  <2>2. \A c \in Chans : (IF c = chat.focused THEN chat.unread[c]
                          ELSE chat.unread[c] + Cardinality(fresh[c])) \in Nat
    BY <2>1
  <2> QED BY <1>5, <2>2
<1>12. /\ store \in ChatStates /\ store.focused = chat.focused
       /\ store.shown = shown /\ store.unread = unread
  BY <1>1, <1>8, <1>9, <1>10, <1>11 DEF ChatStates
<1>13. \A c \in Chans : Shown(store, c) = UNION Range(shown[c])
  BY <1>12 DEF Shown
<1>14. ASSUME NEW c \in Chans
       PROVE  /\ Shown(store, c) = Shown(chat, c) \cup On(c, messages)
              /\ \A i, j \in DOMAIN store.shown[c] :
                    i # j => store.shown[c][i] \cap store.shown[c][j] = {}
  BY <1>6, <1>12, <1>13
<1>15. ASSUME NEW c \in Chans
       PROVE  store.unread[c] = IF c = chat.focused THEN chat.unread[c]
                                ELSE chat.unread[c] + Cardinality(On(c, messages) \ Shown(chat, c))
  BY <1>3, <1>5, <1>12
<1> QED BY <1>12, <1>14, <1>15

\* ShownInv, by channel.
LEMMA ShownIs ==
    ASSUME UNCHANGED server, server.handed \subseteq {m \in DOMAIN server.posted :
                                                        server.posted[m] \in Chans},
           \A c \in Chans :
              /\ \A i, j \in DOMAIN chat'.shown[c] :
                    i # j => chat'.shown[c][i] \cap chat'.shown[c][j] = {}
              /\ Shown(chat', c) \subseteq {m \in server.handed : server.posted[m] = c}
              /\ chat'.unread[c] = Cardinality(Shown(chat', c) \ ghost'.seen)
              /\ c = chat'.focused => Shown(chat', c) \subseteq ghost'.seen,
           \A m \in ghost'.seen : m \in server.handed /\ m \in Shown(chat', server.posted[m])
    PROVE  ShownInv'
BY DEF ShownInv

LEMMA IngestKeeps ==
    ASSUME ChatInv, NEW messages \in SUBSET server.handed,
           chat' = ingest_message(chat, messages), UNCHANGED server,
           ghost'.seen = ghost.seen \cup On(chat.focused, messages)
    PROVE  /\ ShownInv' /\ chat' \in ChatStates /\ chat'.focused = chat.focused
           /\ \A c \in Chans : Shown(chat', c) = Shown(chat, c) \cup On(c, messages)
<1>1. PICK store : store = chat'
  OBVIOUS
<1>2. /\ store \in ChatStates /\ store.focused = chat.focused
      /\ \A c \in Chans :
            /\ Shown(store, c) = Shown(chat, c) \cup On(c, messages)
            /\ \A i, j \in DOMAIN store.shown[c] :
                  i # j => store.shown[c][i] \cap store.shown[c][j] = {}
            /\ store.unread[c] = IF c = chat.focused THEN chat.unread[c]
                                 ELSE chat.unread[c]
                                        + Cardinality(On(c, messages) \ Shown(chat, c))
  BY <1>1, IngestIs
<1>3. ASSUME NEW c \in Chans
      PROVE  /\ Shown(store, c) \subseteq {m \in server.handed : server.posted[m] = c}
             /\ store.unread[c] = Cardinality(Shown(store, c) \ ghost'.seen)
             /\ c = store.focused => Shown(store, c) \subseteq ghost'.seen
  <2>1. On(c, messages) \subseteq {m \in server.handed : server.posted[m] = c}
    BY DEF On
  <2>5. Shown(chat, c) \subseteq {m \in server.handed : server.posted[m] = c}
    BY ChannelIs
  <2>6. Shown(store, c) = Shown(chat, c) \cup On(c, messages)
    BY <1>2
  <2>2. Shown(store, c) \subseteq {m \in server.handed : server.posted[m] = c}
    BY <2>1, <2>5, <2>6
  <2>3. CASE c = chat.focused
    <3>5. Shown(chat, c) \subseteq ghost.seen
      BY <2>3, ChannelIs
    <3>1. Shown(chat, c) \subseteq ghost.seen /\ Shown(store, c) \subseteq ghost'.seen
      BY <2>3, <2>6, <3>5
    <3>2. Shown(store, c) \ ghost'.seen = Shown(chat, c) \ ghost.seen
      BY <3>1
    <3>3. store.unread[c] = chat.unread[c]
      BY <1>2, <2>3
    <3>4. chat.unread[c] = Cardinality(Shown(chat, c) \ ghost.seen)
      BY ChannelIs
    <3> QED BY <2>2, <3>1, <3>2, <3>3, <3>4
  <2>4. CASE c # chat.focused
    <3>1. PICK old, fresh : /\ old = Shown(chat, c) \ ghost.seen
                            /\ fresh = On(c, messages) \ Shown(chat, c)
      OBVIOUS
    <3>2. Shown(store, c) \ ghost'.seen = old \cup fresh
      <4>1. \A m \in Shown(chat, c) \cup On(c, messages) : m \notin On(chat.focused, messages)
        BY <2>1, <2>4, <2>5 DEF On
      <4>2. \A m \in On(c, messages) : m \in ghost.seen => m \in Shown(chat, c)
        <5> TAKE m \in On(c, messages)
        <5>1. server.posted[m] = c
          BY DEF On
        <5>2. m \in ghost.seen => m \in Shown(chat, server.posted[m])
          BY ChannelIs
        <5> QED BY <5>1, <5>2
      <4> QED BY <2>6, <3>1, <4>1, <4>2
    <3>3. old \subseteq server.handed /\ fresh \subseteq server.handed /\ old \cap fresh = {}
      BY <2>1, <2>5, <3>1
    <3>4. IsFiniteSet(old) /\ IsFiniteSet(fresh)
      BY <3>3, HandedIs
    <3>5. Cardinality(old \cup fresh) = Cardinality(old) + Cardinality(fresh)
      <4>1. Cardinality(old \cup fresh) = Cardinality(old) + Cardinality(fresh)
                                          - Cardinality(old \cap fresh)
        BY <3>4, FS_Union
      <4>2. Cardinality(old \cap fresh) = 0
        BY <3>3, FS_EmptySet
      <4>3. Cardinality(old) \in Nat /\ Cardinality(fresh) \in Nat
        BY <3>3, HandedIs
      <4> QED BY <4>1, <4>2, <4>3
    <3>6. store.unread[c] = chat.unread[c] + Cardinality(fresh)
      BY <1>2, <2>4, <3>1
    <3>7. chat.unread[c] = Cardinality(old)
      <4>1. chat.unread[c] = Cardinality(Shown(chat, c) \ ghost.seen)
        BY ChannelIs
      <4> QED BY <3>1, <4>1
    <3> QED BY <1>2, <2>2, <2>4, <3>2, <3>5, <3>6, <3>7
  <2> QED BY <2>3, <2>4
<1>4. ASSUME NEW m \in ghost'.seen
      PROVE  m \in server.handed /\ m \in Shown(store, server.posted[m])
  <2>1. m \in server.handed
    BY HandedIs DEF On, ChatInv, ShownInv
  <2>2. server.posted[m] \in Chans
    BY <2>1, HandedIs
  <2>3. CASE m \in ghost.seen
    <3>1. m \in Shown(chat, server.posted[m])
      BY <2>3 DEF ChatInv, ShownInv
    <3> QED BY <1>2, <2>1, <2>2, <3>1
  <2>4. CASE m \in On(chat.focused, messages)
    <3>1. m \in On(server.posted[m], messages)
      BY <2>4 DEF On
    <3> QED BY <1>2, <2>1, <2>2, <3>1
  <2> QED BY <2>3, <2>4
<1>5. ShownInv'
  <2>1. \A c \in Chans :
           /\ \A i, j \in DOMAIN chat'.shown[c] :
                 i # j => chat'.shown[c][i] \cap chat'.shown[c][j] = {}
           /\ Shown(chat', c) \subseteq {m \in server.handed : server.posted[m] = c}
           /\ chat'.unread[c] = Cardinality(Shown(chat', c) \ ghost'.seen)
           /\ c = chat'.focused => Shown(chat', c) \subseteq ghost'.seen
    <3> TAKE c \in Chans
    <3>1. \A i, j \in DOMAIN chat'.shown[c] :
              i # j => chat'.shown[c][i] \cap chat'.shown[c][j] = {}
      <4>1. \A i, j \in DOMAIN store.shown[c] :
                i # j => store.shown[c][i] \cap store.shown[c][j] = {}
        BY <1>2
      <4>2. chat'.shown[c] = store.shown[c]
        BY <1>1
      <4> QED BY <4>1, <4>2
    <3> QED BY <1>1, <1>3, <3>1
  <2>2. \A m \in ghost'.seen : m \in server.handed /\ m \in Shown(chat', server.posted[m])
    BY <1>1, <1>4
  <2> QED BY <2>1, <2>2, ServerIs, ShownIs
<1> QED BY <1>1, <1>2, <1>5

LEMMA FocusKeeps ==
    ASSUME ChatInv, NEW c \in Chans,
           chat' = focus_channel(chat, c), UNCHANGED server,
           ghost'.seen = ghost.seen \cup Shown(chat, c)
    PROVE  /\ ShownInv' /\ chat' \in ChatStates /\ chat'.focused = c
           /\ \A d \in Chans : Shown(chat', d) = Shown(chat, d)
<1>1. chat \in ChatStates
  BY DEF ChatInv, ChatType, ChatStates
<1>2. PICK unread : unread = [chat.unread EXCEPT ![c] = 0]
  OBVIOUS
<1>3. /\ unread \in [Chans -> Nat] /\ unread[c] = 0
      /\ \A d \in Chans : d # c => unread[d] = chat.unread[d]
  BY <1>1, <1>2 DEF ChatStates
<1>4. PICK listed \in SUBSET (Chans \cup {Nowhere}) : listed = chat.listed \cup {c}
  BY <1>1 DEF ChatStates
<1>5. chat' = [chat EXCEPT !.focused = c, !.listed = listed, !.unread = unread]
  BY <1>1, <1>2, <1>4 DEF focus_channel, ChatStates
<1>6. /\ chat' \in ChatStates /\ chat'.focused = c
      /\ chat'.shown = chat.shown /\ chat'.unread = unread
  BY <1>1, <1>3, <1>4, <1>5 DEF ChatStates
<1>7. \A d : Shown(chat', d) = Shown(chat, d)
  BY <1>6 DEF Shown
<1>8. ASSUME NEW d \in Chans
      PROVE  /\ \A i, j \in DOMAIN chat'.shown[d] :
                   i # j => chat'.shown[d][i] \cap chat'.shown[d][j] = {}
             /\ Shown(chat', d) \subseteq {m \in server.handed : server.posted[m] = d}
             /\ chat'.unread[d] = Cardinality(Shown(chat', d) \ ghost'.seen)
             /\ d = chat'.focused => Shown(chat', d) \subseteq ghost'.seen
  <2>1. CASE d = c
    <3>1. Shown(chat, d) \ ghost'.seen = {}
      BY <2>1
    <3>2. Cardinality(Shown(chat, d) \ ghost'.seen) = 0
      BY <3>1, FS_EmptySet
    <3> QED BY <1>3, <1>6, <1>7, <2>1, <3>1, <3>2, ChannelIs
  <2>2. CASE d # c
    <3>1. /\ \A m \in Shown(chat, d) : server.posted[m] = d
          /\ chat.unread[d] = Cardinality(Shown(chat, d) \ ghost.seen)
      BY ChannelIs
    <3>2. \A m \in Shown(chat, c) : server.posted[m] = c
      BY ChannelIs
    <3>3. Shown(chat, d) \ ghost'.seen = Shown(chat, d) \ ghost.seen
      BY <2>2, <3>1, <3>2
    <3> QED BY <1>3, <1>6, <1>7, <2>2, <3>1, <3>3, ChannelIs
  <2> QED BY <2>1, <2>2
<1>9. ASSUME NEW m \in ghost'.seen
      PROVE  m \in server.handed /\ m \in Shown(chat', server.posted[m])
  <2>1. CASE m \in ghost.seen
    BY <1>7, <2>1, ChannelIs
  <2>2. CASE m \in Shown(chat, c)
    <3>1. m \in server.handed /\ server.posted[m] = c
      BY <2>2, ChannelIs
    <3> QED BY <1>7, <2>2, <3>1
  <2> QED BY <2>1, <2>2
<1> QED BY <1>6, <1>7, <1>8, <1>9, ServerIs, ShownIs

\* The list of channels says nothing about messages.
LEMMA LookKeeps ==
    ASSUME ChatInv, UNCHANGED server, ghost'.seen = ghost.seen,
           \/ chat' = chat
           \/ chat' = update_channels(chat, server.subs \cup Range(server.posted))
    PROVE  /\ ShownInv' /\ chat' \in ChatStates /\ chat'.focused = chat.focused
           /\ \A d \in Chans : Shown(chat', d) = Shown(chat, d)
<1>1. chat \in ChatStates
  BY DEF ChatInv, ChatType, ChatStates
<1>2. PICK listed \in SUBSET (Chans \cup {Nowhere}) : chat' = [chat EXCEPT !.listed = listed]
  <2>1. CASE chat' = chat
    <3>1. chat = [chat EXCEPT !.listed = chat.listed]
      BY <1>1 DEF ChatStates
    <3>2. chat.listed \in SUBSET (Chans \cup {Nowhere})
      BY <1>1 DEF ChatStates
    <3> QED BY <2>1, <3>1, <3>2
  <2>2. CASE chat' = update_channels(chat, server.subs \cup Range(server.posted))
    <3>1. Range(server.posted) \subseteq Chans \cup {Nowhere}
      BY ServerIs DEF Range
    <3>2. chat.listed \cup (server.subs \cup Range(server.posted)) \in SUBSET (Chans \cup {Nowhere})
      BY <1>1, <3>1, ServerIs DEF ChatStates
    <3> QED BY <2>2, <3>2 DEF update_channels
  <2> QED BY <2>1, <2>2
<1>3. /\ chat' \in ChatStates /\ chat'.focused = chat.focused
      /\ chat'.shown = chat.shown /\ chat'.unread = chat.unread
  BY <1>1, <1>2 DEF ChatStates
<1>4. \A d : Shown(chat', d) = Shown(chat, d)
  BY <1>3 DEF Shown
<1>5. ASSUME NEW d \in Chans
      PROVE  /\ \A i, j \in DOMAIN chat'.shown[d] :
                   i # j => chat'.shown[d][i] \cap chat'.shown[d][j] = {}
             /\ Shown(chat', d) \subseteq {m \in server.handed : server.posted[m] = d}
             /\ chat'.unread[d] = Cardinality(Shown(chat', d) \ ghost'.seen)
             /\ d = chat'.focused => Shown(chat', d) \subseteq ghost'.seen
  BY <1>3, <1>4, ChannelIs
<1>6. ASSUME NEW m \in ghost'.seen
      PROVE  m \in server.handed /\ m \in Shown(chat', server.posted[m])
  BY <1>4 DEF ChatInv, ShownInv
<1> QED BY <1>3, <1>4, <1>5, <1>6, ServerIs, ShownIs

GhostStates ==
    [wanted : Chans \cup {Nowhere}, overlap : BOOLEAN, unsure : SUBSET Chans,
     seen : SUBSET Nat, lost : SUBSET Nat, swallowed : SUBSET Tasks]

\* What a finished call adds to the history.
LEMMA HistoryIs ==
    ASSUME ChatInv, NEW t \in Tasks, NEW ok \in BOOLEAN, Continue(t, ok, future[t].messages)
    PROVE  /\ ghost' \in GhostStates
           /\ ghost'.lost = ghost.lost /\ ghost'.overlap = ghost.overlap
           /\ ghost'.wanted = IF Focuses(t, ok) /\ t = "mount" THEN task[t].channel
                              ELSE IF IsSelection(t) /\ ~Focuses(t, ok) THEN chat.focused
                              ELSE ghost.wanted
           /\ ghost'.unsure = IF ~ok /\ task[t].op = "subscribe"
                              THEN ghost.unsure \cup {task[t].channel} ELSE ghost.unsure
           /\ ghost'.seen = ghost.seen
                  \cup (IF Focuses(t, ok) THEN Shown(chat, task[t].channel)
                        ELSE IF ok /\ t = "pump" THEN On(chat.focused, future[t].messages)
                        ELSE {})
<1>1. /\ ghost \in GhostStates /\ chat.focused \in Chans \cup {Nowhere}
      /\ task[t].channel \in Chans
  BY ServerIs, TasksAre DEF ChatInv, ChatType, GhostStates, TaskStates
<1>2. PICK wanted \in Chans \cup {Nowhere} :
          wanted = IF Focuses(t, ok) /\ t = "mount" THEN task[t].channel
                   ELSE IF IsSelection(t) /\ ~Focuses(t, ok) THEN chat.focused
                   ELSE ghost.wanted
  BY <1>1 DEF GhostStates
<1>3. PICK unsure \in SUBSET Chans :
          unsure = IF ~ok /\ task[t].op = "subscribe"
                   THEN ghost.unsure \cup {task[t].channel} ELSE ghost.unsure
  BY <1>1 DEF GhostStates
<1>4. PICK more : more = IF Focuses(t, ok) THEN Shown(chat, task[t].channel)
                         ELSE IF ok /\ t = "pump" THEN On(chat.focused, future[t].messages)
                         ELSE {}
  OBVIOUS
<1>5. more \subseteq Nat
  <2>1. Shown(chat, task[t].channel) \subseteq Nat
    BY <1>1, ChannelIs, HandedIs
  <2>2. On(chat.focused, future[t].messages) \subseteq Nat
    BY TasksAre DEF On, Futures
  <2> QED BY <1>4, <2>1, <2>2
<1>6. PICK seen \in SUBSET Nat : seen = ghost.seen \cup more
  BY <1>1, <1>5 DEF GhostStates
<1>7. ghost' = [ghost EXCEPT !.wanted = wanted, !.unsure = unsure, !.seen = seen]
  BY <1>1, <1>2, <1>3, <1>4, <1>6 DEF Continue, GhostStates
<1>8. /\ ghost' \in GhostStates
      /\ ghost'.lost = ghost.lost /\ ghost'.overlap = ghost.overlap
      /\ ghost'.wanted = wanted /\ ghost'.unsure = unsure /\ ghost'.seen = seen
  BY <1>1, <1>7 DEF GhostStates
<1> QED BY <1>2, <1>3, <1>4, <1>6, <1>8

\* A call is over; what follows from what its task does with the outcome.
LEMMA CallKeeps ==
    ASSUME ChatInv, NEW t \in Tasks,
           task' \in [Tasks -> TaskStates],
           future' = [future EXCEPT ![t] = NoFuture], UNCHANGED <<wire, server>>,
           \A u \in Tasks :
               \/ u # t /\ task'[u] = task[u]
               \/ /\ task[u].pc = "waiting" => u = t
                  /\ task'[u].pc # "waiting" /\ task'[u].calls = task[u].calls
                  /\ task'[u].op = "recv" => u = "pump",
           app' \in [phase : {"mounting", "running", "closing", "closed"}, to_cancel : Cancels,
                     python311 : BOOLEAN],
           ghost' \in GhostStates, ghost.unsure \subseteq ghost'.unsure,
           ghost'.lost = ghost.lost,
           ShownInv', chat' \in ChatStates,
           \A c \in Chans : Shown(chat, c) \subseteq Shown(chat', c),
           \A m \in future[t].messages : \E c \in Chans : m \in Shown(chat', c),
           MountInv', CancelInv', FocusInv'
    PROVE  ChatInv'
<1>1. /\ future' \in [Tasks -> Futures] /\ future'[t] = NoFuture
      /\ \A u \in Tasks : u # t => future'[u] = future[u]
  BY TasksAre, NoFutureIs
<1>2. \A u \in Tasks :
          \/ task'[u] = task[u] /\ future'[u] = future[u]
          \/ /\ task'[u].pc # "waiting" /\ task'[u].calls = task[u].calls
             /\ task'[u].op = "recv" => u = "pump"
             /\ future'[u] = NoFuture
  <2> TAKE u \in Tasks
  <2>1. CASE u # t /\ task'[u] = task[u]
    BY <1>1, <2>1
  <2>2. CASE /\ task[u].pc = "waiting" => u = t
             /\ task'[u].pc # "waiting" /\ task'[u].calls = task[u].calls
             /\ task'[u].op = "recv" => u = "pump"
    <3>1. task[u].pc # "waiting" => future[u] = NoFuture
      BY TasksAre, NoFutureIs DEF FutureOK
    <3> QED BY <1>1, <2>2, <3>1
  <2> QED BY <2>1, <2>2
<1>3. Sure \subseteq Sure'
  BY DEF Sure
<1>4. WireInv' /\ FutureInv'
  <2>1. wire'.requests = wire.requests /\ wire'.answers = wire.answers
    OBVIOUS
  <2> QED BY <1>2, <1>3, <2>1, CallsEnd
<1>5. ChatType'
  BY <1>1 DEF ChatInv, ChatType, ChatStates, GhostStates
<1>6. CoverInv'
  <2>1. \A m : InFutures(m, future) => InFutures(m, future') \/ m \in future[t].messages
    BY <1>1 DEF InFutures
  <2>2. \A m \in server.handed : \/ \E c \in Chans : m \in Shown(chat, c)
                                 \/ InAnswers(m, wire.answers)
                                 \/ InFutures(m, future)
                                 \/ m \in ghost.lost
    BY DEF ChatInv, CoverInv
  <2>3. \A m \in server.handed : \/ \E c \in Chans : m \in Shown(chat', c)
                                 \/ InAnswers(m, wire.answers)
                                 \/ InFutures(m, future')
                                 \/ m \in ghost'.lost
    BY <2>1, <2>2
  <2> QED BY <2>3 DEF CoverInv
<1> QED BY <1>4, <1>5, <1>6 DEF ChatInv

LEMMA ResumeIs ==
    ASSUME ChatInv, NEW t \in Tasks, Resume(t)
    PROVE  /\ \E ok \in BOOLEAN :
                 /\ ok <=> future[t].state = "answered"
                 /\ Continue(t, ok, future[t].messages)
           /\ task[t].pc = "waiting" /\ task[t] \in TaskStates
           /\ future' = [future EXCEPT ![t] = NoFuture] /\ UNCHANGED <<wire, server>>
           /\ future[t].messages \in SUBSET server.handed
           /\ future[t].messages # {} => t = "pump" /\ future[t].state = "answered"
<1>1. PICK ok \in BOOLEAN : ok = (future[t].state = "answered")
  OBVIOUS
<1>2. Continue(t, ok, future[t].messages)
  BY <1>1 DEF Resume
<1>3. FutureOK(t, future[t], task[t], server.handed, Sure) /\ task[t] \in TaskStates
  BY TasksAre
<1>4. /\ future[t].messages \in SUBSET server.handed
      /\ future[t].messages # {} => t = "pump" /\ future[t].state = "answered"
  BY <1>3 DEF FutureOK
<1>5. /\ task[t].pc = "waiting"
      /\ future' = [future EXCEPT ![t] = NoFuture] /\ UNCHANGED <<wire, server>>
  BY DEF Resume, Waiting
<1> QED BY <1>1, <1>2, <1>3, <1>4, <1>5

LEMMA NextOpIs ==
    ASSUME NEW op \in Ops
    PROVE  /\ NextOp(op) \in Ops
           /\ NextOp(op) = "recv" => op = "recv"
           /\ NextOp(op) = "presence" => op = "subscribe"
           /\ NextOp(op) = "list_channels" => op \in {"presence", "list_agents"}
           /\ NextOp(op) = "list_agents" => op = "list_channels"
BY DEF NextOp, Ops

\* A task that goes on with its next call.
LEMMA GoesOnIs ==
    ASSUME ChatInv, NEW t \in Tasks, task[t].pc = "waiting",
           task' = [task EXCEPT ![t].pc = "ready", ![t].op = NextOp(@)]
    PROVE  /\ task' \in [Tasks -> TaskStates]
           /\ task'[t].pc = "ready" /\ task'[t].op = NextOp(task[t].op)
           /\ task'[t].channel = task[t].channel /\ task'[t].calls = task[t].calls
           /\ \A u \in Tasks : u # t => task'[u] = task[u]
           /\ \A u \in Tasks :
                 \/ u # t /\ task'[u] = task[u]
                 \/ /\ task[u].pc = "waiting" => u = t
                    /\ task'[u].pc # "waiting" /\ task'[u].calls = task[u].calls
                    /\ task'[u].op = "recv" => u = "pump"
<1>1. /\ task \in [Tasks -> TaskStates] /\ task[t] \in TaskStates /\ task[t].op \in Ops
      /\ task[t].op = "recv" => t = "pump"
  BY TasksAre DEF TaskStates, FutureOK
<1>2. PICK op : op = NextOp(task[t].op)
  OBVIOUS
<1>3. op \in Ops /\ (op = "recv" => t = "pump")
  BY <1>1, <1>2, NextOpIs
<1>4. PICK k : k = [task[t] EXCEPT !.pc = "ready", !.op = op]
  OBVIOUS
<1>5. /\ k \in TaskStates /\ k.pc = "ready" /\ k.op = op
      /\ k.channel = task[t].channel /\ k.calls = task[t].calls
  BY <1>1, <1>3, <1>4 DEF TaskStates
<1>6. task' = [task EXCEPT ![t] = k]
  BY <1>1, <1>2, <1>4
<1>7. /\ task' \in [Tasks -> TaskStates] /\ task'[t] = k
      /\ \A u \in Tasks : u # t => task'[u] = task[u]
  BY <1>1, <1>5, <1>6
<1> QED BY <1>2, <1>3, <1>5, <1>7

\* The pump, the heartbeat and the roster go round.
LEMMA LoopKeeps ==
    ASSUME ChatInv, NEW t \in Loops, Resume(t)
    PROVE  ChatInv'
<1>1. t \in Tasks /\ t # "mount" /\ t \notin Users
  BY LoopsAre, ChatAssumption DEF Loops
<1>2. PICK ok \in BOOLEAN : /\ ok <=> future[t].state = "answered"
                            /\ Continue(t, ok, future[t].messages)
  BY <1>1, ResumeIs
<1>3. /\ task[t].pc = "waiting" /\ task[t] \in TaskStates
      /\ future' = [future EXCEPT ![t] = NoFuture] /\ UNCHANGED <<wire, server>>
      /\ future[t].messages \in SUBSET server.handed
      /\ future[t].messages # {} => t = "pump" /\ ok
  BY <1>1, <1>2, ResumeIs
<1>4. ~Focuses(t, ok) /\ ~IsSelection(t) /\ ~MountFails(t, ok)
  BY <1>1 DEF Focuses, IsSelection, MountFails
<1>5. /\ task' = [task EXCEPT ![t].pc = "ready", ![t].op = NextOp(@)] /\ app' = app
      /\ chat' = IF ok /\ t = "pump" THEN ingest_message(chat, future[t].messages)
                 ELSE IF ok /\ task[t].op = "list_channels"
                 THEN update_channels(chat, server.subs \cup Range(server.posted))
                 ELSE chat
  BY <1>1, <1>2, <1>4 DEF Continue, Pumped
<1>6. /\ ghost' \in GhostStates
      /\ ghost'.lost = ghost.lost /\ ghost'.overlap = ghost.overlap
      /\ ghost'.wanted = ghost.wanted /\ ghost.unsure \subseteq ghost'.unsure
      /\ ghost'.seen = ghost.seen
             \cup (IF ok /\ t = "pump" THEN On(chat.focused, future[t].messages) ELSE {})
  BY <1>1, <1>2, <1>4, HistoryIs
<1>7. /\ ShownInv' /\ chat' \in ChatStates /\ chat'.focused = chat.focused
      /\ \A c \in Chans : Shown(chat, c) \subseteq Shown(chat', c)
      /\ \A m \in future[t].messages : \E c \in Chans : m \in Shown(chat', c)
  <2>1. CASE ok /\ t = "pump"
    <3>1. /\ chat' = ingest_message(chat, future[t].messages)
          /\ ghost'.seen = ghost.seen \cup On(chat.focused, future[t].messages)
      BY <1>5, <1>6, <2>1
    <3>2. /\ ShownInv' /\ chat' \in ChatStates /\ chat'.focused = chat.focused
          /\ \A c \in Chans :
                Shown(chat', c) = Shown(chat, c) \cup On(c, future[t].messages)
      BY <1>3, <3>1, IngestKeeps
    <3>3. \A m \in future[t].messages : \E c \in Chans : m \in On(c, future[t].messages)
      BY <1>3, HandedIs DEF On
    <3> QED BY <3>2, <3>3
  <2>2. CASE ~(ok /\ t = "pump")
    <3>1. ghost'.seen = ghost.seen
      BY <1>6, <2>2
    <3>2. \/ chat' = chat
          \/ chat' = update_channels(chat, server.subs \cup Range(server.posted))
      BY <1>5, <2>2
    <3> QED BY <1>3, <2>2, <3>1, <3>2, LookKeeps
  <2> QED BY <2>1, <2>2
<1>8. /\ task' \in [Tasks -> TaskStates]
      /\ task'[t].pc = "ready"
      /\ \A u \in Tasks : u # t => task'[u] = task[u]
      /\ \A u \in Tasks :
            \/ u # t /\ task'[u] = task[u]
            \/ /\ task[u].pc = "waiting" => u = t
               /\ task'[u].pc # "waiting" /\ task'[u].calls = task[u].calls
               /\ task'[u].op = "recv" => u = "pump"
  BY <1>1, <1>3, <1>5, GoesOnIs
<1>9. MountInv' /\ CancelInv'
  <2>1. app.phase # "mounting"
    BY <1>1, <1>3 DEF ChatInv, MountInv
  <2>2. app.to_cancel = <<>> => t # "pump"
    BY <1>3 DEF ChatInv, CancelInv
  <2>3. task'["mount"] = task["mount"] /\ (t # "pump" => task'["pump"] = task["pump"])
    BY <1>1, <1>8, LoopsAre
  <2>4. MountInv'
    BY <1>5, <2>1, <2>3 DEF ChatInv, MountInv
  <2>5. CancelInv'
    BY <1>5, <2>2, <2>3 DEF ChatInv, CancelInv
  <2> QED BY <2>4, <2>5
<1>10. FocusInv'
  <2>1. \A u \in Users : task'[u] = task[u]
    BY <1>1, <1>8, LoopsAre
  <2>2. Selecting' = Selecting /\ \A u \in Selecting : task'[u].channel = task[u].channel
    BY <2>1 DEF Selecting, IsSelection
  <2>3. Sure \subseteq Sure'
    BY <1>3, <1>6 DEF Sure
  <2> QED BY <1>5, <1>6, <1>7, <2>2, <2>3 DEF ChatInv, FocusInv
<1>11. app' \in [phase : {"mounting", "running", "closing", "closed"}, to_cancel : Cancels,
                 python311 : BOOLEAN]
  BY <1>5 DEF ChatInv, ChatType
<1> QED BY <1>1, <1>3, <1>6, <1>7, <1>8, <1>9, <1>10, <1>11, CallKeeps

\* The command of the user ends; a selection sets the focus, or leaves it.
LEMMA CommandKeeps ==
    ASSUME ChatInv, NEW t \in Users, Resume(t)
    PROVE  ChatInv'
<1>1. t \in Tasks /\ t # "mount" /\ t # "pump"
  BY LoopsAre
<1>2. PICK ok \in BOOLEAN : /\ ok <=> future[t].state = "answered"
                            /\ Continue(t, ok, future[t].messages)
  BY <1>1, ResumeIs
<1>3. /\ task[t].pc = "waiting" /\ task[t] \in TaskStates
      /\ future' = [future EXCEPT ![t] = NoFuture] /\ UNCHANGED <<wire, server>>
      /\ future[t].messages = {}
  BY <1>1, <1>2, ResumeIs
<1>4. PICK c \in Chans : c = task[t].channel
  BY <1>3 DEF TaskStates
<1>5. /\ Focuses(t, ok) => IsSelection(t)
      /\ ~MountFails(t, ok)
      /\ IsSelection(t) <=> task[t].op = "subscribe"
  BY <1>1 DEF Focuses, IsSelection, MountFails
<1>6. /\ task' = [u \in Tasks |-> IF u = t THEN [task[u] EXCEPT !.pc = "done"] ELSE task[u]]
      /\ app' = app
      /\ chat' = IF ok /\ task[t].op = "list_channels"
                 THEN update_channels(chat, server.subs \cup Range(server.posted))
                 ELSE IF Focuses(t, ok) THEN focus_channel(chat, c) ELSE chat
  BY <1>1, <1>2, <1>4, <1>5 DEF Continue
<1>7. /\ ghost' \in GhostStates
      /\ ghost'.lost = ghost.lost /\ ghost'.overlap = ghost.overlap
      /\ ghost'.wanted = IF IsSelection(t) /\ ~Focuses(t, ok) THEN chat.focused ELSE ghost.wanted
      /\ ghost.unsure \subseteq ghost'.unsure
      /\ ~ok /\ IsSelection(t) => c \in ghost'.unsure
      /\ ghost'.seen = ghost.seen \cup (IF Focuses(t, ok) THEN Shown(chat, c) ELSE {})
  BY <1>1, <1>2, <1>4, <1>5, HistoryIs
<1>8. /\ ShownInv' /\ chat' \in ChatStates
      /\ chat'.focused = IF Focuses(t, ok) THEN c ELSE chat.focused
      /\ \A d \in Chans : Shown(chat', d) = Shown(chat, d)
  <2>1. CASE Focuses(t, ok)
    <3>1. chat' = focus_channel(chat, c) /\ ghost'.seen = ghost.seen \cup Shown(chat, c)
      BY <1>5, <1>6, <1>7, <2>1
    <3> QED BY <1>3, <2>1, <3>1, FocusKeeps
  <2>2. CASE ~Focuses(t, ok)
    <3>1. ghost'.seen = ghost.seen
      BY <1>7, <2>2
    <3>2. \/ chat' = chat
          \/ chat' = update_channels(chat, server.subs \cup Range(server.posted))
      BY <1>6, <2>2
    <3> QED BY <1>3, <2>2, <3>1, <3>2, LookKeeps
  <2> QED BY <2>1, <2>2
<1>9. PICK k : k = [task[t] EXCEPT !.pc = "done"]
  OBVIOUS
<1>10. k \in TaskStates /\ k.pc = "done" /\ k.calls = task[t].calls /\ k.op = task[t].op
  BY <1>3, <1>9 DEF TaskStates
<1>11. /\ task' \in [Tasks -> TaskStates] /\ task'[t] = k
       /\ \A u \in Tasks : u # t => task'[u] = task[u]
  <2>1. \A u \in Tasks : task'[u] = IF u = t THEN k ELSE task[u]
    BY <1>6, <1>9
  <2>2. task' = [u \in Tasks |-> task'[u]]
    BY <1>6
  <2>3. \A u \in Tasks : task'[u] \in TaskStates
    BY <1>10, <2>1, TasksAre
  <2> QED BY <1>1, <2>1, <2>2, <2>3
<1>12. \A u \in Tasks :
           \/ u # t /\ task'[u] = task[u]
           \/ /\ task[u].pc = "waiting" => u = t
              /\ task'[u].pc # "waiting" /\ task'[u].calls = task[u].calls
              /\ task'[u].op = "recv" => u = "pump"
  <2>1. task[t].op = "recv" => t = "pump"
    BY <1>1, TasksAre DEF FutureOK
  <2> QED BY <1>10, <1>11, <2>1
<1>13. MountInv' /\ CancelInv'
  <2>1. app.phase # "mounting"
    BY <1>1, <1>3 DEF ChatInv, MountInv
  <2>2. task'["mount"] = task["mount"] /\ task'["pump"] = task["pump"]
    BY <1>1, <1>11, LoopsAre
  <2>3. MountInv'
    BY <1>6, <2>1, <2>2 DEF ChatInv, MountInv
  <2>4. CancelInv'
    BY <1>6, <2>2 DEF ChatInv, CancelInv
  <2> QED BY <2>3, <2>4
<1>14. FocusInv'
  <2> SUFFICES ASSUME app'.phase = "running" PROVE FocusInv'
    BY DEF FocusInv
  <2>1. /\ chat.focused \in Sure
        /\ ~ghost.overlap =>
              /\ Selecting = {} => chat.focused = ghost.wanted
              /\ \A u \in Selecting : Selecting = {u} /\ task[u].channel = ghost.wanted
    BY <1>6 DEF ChatInv, FocusInv
  <2>2. Sure \subseteq Sure' /\ ghost'.unsure \subseteq Sure'
    BY <1>3, <1>7 DEF Sure
  <2>3. Selecting' = Selecting \ {t}
    <3>1. /\ task'[t].pc = "done"
          /\ \A u \in Users : u # t => task'[u] = task[u]
      BY <1>10, <1>11, LoopsAre
    <3> QED BY <3>1 DEF Selecting, IsSelection
  <2>4. IsSelection(t) <=> t \in Selecting
    BY <1>3 DEF Selecting
  <2>5. chat'.focused \in Sure'
    <3>1. CASE Focuses(t, ok)
      <4>1. IsSelection(t) /\ task[t].op = "subscribe" /\ chat'.focused = c
        BY <1>5, <1>8, <3>1
      <4>2. ok => c \in Sure
        <5>1. FutureOK(t, future[t], task[t], server.handed, Sure)
          BY <1>1, TasksAre
        <5> QED BY <1>2, <1>4, <4>1, <5>1 DEF FutureOK
      <4> QED BY <1>7, <2>2, <4>1, <4>2
    <3>2. CASE ~Focuses(t, ok)
      BY <1>8, <2>1, <2>2, <3>2
    <3> QED BY <3>1, <3>2
  <2>6. \A u \in Selecting' : task'[u].channel = task[u].channel
    BY <1>11, <2>3, LoopsAre DEF Selecting
  <2>7. ~ghost'.overlap =>
              /\ Selecting' = {} => chat'.focused = ghost'.wanted
              /\ \A u \in Selecting' : Selecting' = {u} /\ task'[u].channel = ghost'.wanted
    <3>1. CASE IsSelection(t)
      <4>1. ~ghost.overlap => Selecting = {t} /\ c = ghost.wanted
        BY <1>4, <2>1, <2>4, <3>1
      <4>2. ~ghost.overlap => chat'.focused = ghost'.wanted
        BY <1>7, <1>8, <3>1, <4>1
      <4> QED BY <1>7, <2>3, <4>1, <4>2
    <3>2. CASE ~IsSelection(t)
      <4>1. Selecting' = Selecting /\ chat'.focused = chat.focused /\ ghost'.wanted = ghost.wanted
        BY <1>5, <1>7, <1>8, <2>3, <2>4, <3>2
      <4> QED BY <1>7, <2>1, <2>6, <4>1
    <3> QED BY <3>1, <3>2
  <2> QED BY <2>5, <2>7 DEF FocusInv
<1>15. app' \in [phase : {"mounting", "running", "closing", "closed"}, to_cancel : Cancels,
                 python311 : BOOLEAN]
  BY <1>6 DEF ChatInv, ChatType
<1> QED BY <1>1, <1>3, <1>7, <1>8, <1>11, <1>12, <1>13, <1>14, <1>15, CallKeeps

\* The mount fails, goes on with its next call, or starts the loops.
LEMMA MountKeeps ==
    ASSUME ChatInv, Resume("mount")
    PROVE  ChatInv'
<1>1. PICK t \in Tasks : t = "mount"
  BY LoopsAre
<1>2. t # "pump" /\ t \notin Users /\ t \notin Loops /\ Resume(t)
  BY <1>1, LoopsAre
<1>3. PICK ok \in BOOLEAN : /\ ok <=> future[t].state = "answered"
                            /\ Continue(t, ok, future[t].messages)
  BY <1>2, ResumeIs
<1>4. /\ task[t].pc = "waiting" /\ task[t] \in TaskStates
      /\ future' = [future EXCEPT ![t] = NoFuture] /\ UNCHANGED <<wire, server>>
      /\ future[t].messages = {}
  BY <1>2, ResumeIs
<1>5. PICK c \in Chans : c = task[t].channel
  BY <1>4 DEF TaskStates
<1>6. PICK op \in Ops : op = task[t].op
  BY <1>4 DEF TaskStates
<1>7. /\ Focuses(t, ok) <=> op = "presence"
      /\ ~IsSelection(t)
      /\ MountFails(t, ok) <=> op \in {"initialize", "subscribe"} /\ ~ok
  BY <1>1, <1>2, <1>6 DEF Focuses, IsSelection, MountFails
<1>8. /\ app.phase = "mounting" /\ app.to_cancel # <<>>
      /\ app.to_cancel = <<"beat", "roster", "pump">>
      /\ \A u \in Tasks \ {t} : task[u].pc = "off"
      /\ op \in {"presence", "list_channels", "list_agents"} => c \in Sure
      /\ op \in {"list_channels", "list_agents"} =>
            chat.focused \in Sure /\ chat.focused = ghost.wanted
  <2>1. app.phase = "mounting"
    BY <1>1, <1>4 DEF ChatInv, MountInv
  <2>2. app.to_cancel = <<"beat", "roster", "pump">>
    BY <2>1 DEF ChatInv, CancelInv
  <2>3. app.to_cancel # <<>>
    BY <2>2
  <2> QED BY <1>1, <1>5, <1>6, <2>1, <2>2, <2>3 DEF ChatInv, MountInv
<1>9. chat' = IF ok /\ op = "list_channels"
              THEN update_channels(chat, server.subs \cup Range(server.posted))
              ELSE IF op = "presence" THEN focus_channel(chat, c) ELSE chat
  BY <1>2, <1>3, <1>5, <1>6, <1>7 DEF Continue
<1>10. /\ ghost' \in GhostStates
       /\ ghost'.lost = ghost.lost /\ ghost'.overlap = ghost.overlap
       /\ ghost'.wanted = IF op = "presence" THEN c ELSE ghost.wanted
       /\ ghost.unsure \subseteq ghost'.unsure
       /\ ghost'.seen = ghost.seen \cup (IF op = "presence" THEN Shown(chat, c) ELSE {})
  BY <1>1, <1>2, <1>3, <1>5, <1>7, HistoryIs
<1>11. /\ ShownInv' /\ chat' \in ChatStates
       /\ chat'.focused = IF op = "presence" THEN c ELSE chat.focused
       /\ \A d \in Chans : Shown(chat', d) = Shown(chat, d)
  <2>1. CASE op = "presence"
    <3>1. chat' = focus_channel(chat, c) /\ ghost'.seen = ghost.seen \cup Shown(chat, c)
      BY <1>9, <1>10, <2>1
    <3> QED BY <1>4, <2>1, <3>1, FocusKeeps
  <2>2. CASE op # "presence"
    <3>1. ghost'.seen = ghost.seen
      BY <1>10, <2>2
    <3>2. \/ chat' = chat
          \/ chat' = update_channels(chat, server.subs \cup Range(server.posted))
      BY <1>9, <2>2
    <3> QED BY <1>4, <2>2, <3>1, <3>2, LookKeeps
  <2> QED BY <2>1, <2>2
<1>12. Sure \subseteq Sure'
  BY <1>4, <1>10 DEF Sure
<1>13. /\ app \in [phase : {"mounting", "running", "closing", "closed"}, to_cancel : Cancels,
                   python311 : BOOLEAN]
       /\ \A u \in Tasks : task[u] \in TaskStates /\ (task[u].op = "recv" => u = "pump")
  BY TasksAre DEF ChatInv, ChatType, FutureOK
<1>14. PICK k : k = [task[t] EXCEPT !.pc = "done"]
  OBVIOUS
<1>15. k \in TaskStates /\ k.pc = "done" /\ k.calls = task[t].calls /\ k.op = op
  BY <1>4, <1>6, <1>14 DEF TaskStates
<1>16. CASE MountFails(t, ok)
  <2>1. op # "list_agents"
    BY <1>7, <1>16
  <2>2. /\ \A u \in Tasks : task'[u] = IF u = t THEN k ELSE task[u]
        /\ task' = [u \in Tasks |-> task'[u]]
        /\ app' = [app EXCEPT !.phase = "closing"]
    BY <1>2, <1>3, <1>6, <1>14, <1>16, <2>1 DEF Continue
  <2>3. /\ task'[t] = k /\ \A u \in Tasks : u # t => task'[u] = task[u]
        /\ task' \in [Tasks -> TaskStates]
    <3>1. \A u \in Tasks : task'[u] \in TaskStates
      BY <1>13, <1>15, <2>2
    <3> QED BY <2>2, <3>1
  <2>4. /\ app' \in [phase : {"mounting", "running", "closing", "closed"}, to_cancel : Cancels,
                     python311 : BOOLEAN]
        /\ app'.phase = "closing" /\ app'.to_cancel = app.to_cancel
    BY <1>13, <2>2
  <2>5. \A u \in Tasks :
            \/ u # t /\ task'[u] = task[u]
            \/ /\ task[u].pc = "waiting" => u = t
               /\ task'[u].pc # "waiting" /\ task'[u].calls = task[u].calls
               /\ task'[u].op = "recv" => u = "pump"
    BY <1>6, <1>13, <1>15, <2>3
  <2>6. MountInv' /\ CancelInv' /\ FocusInv'
    BY <1>1, <1>8, <1>15, <2>3, <2>4 DEF MountInv, CancelInv, FocusInv
  <2> QED BY <1>4, <1>10, <1>11, <2>3, <2>4, <2>5, <2>6, CallKeeps
<1>17. CASE op = "list_agents"
  <2>1. ~MountFails(t, ok) /\ op # "presence"
    BY <1>7, <1>17
  <2>3. PICK started : started = [u \in Loops |-> [task[u] EXCEPT !.pc = "ready", !.op = FirstOp[u]]]
    OBVIOUS
  <2>4. ASSUME NEW u \in Loops
        PROVE  /\ started[u] \in TaskStates /\ started[u].pc = "ready"
               /\ started[u].calls = task[u].calls
               /\ started[u].op = "recv" => u = "pump"
    <3>1. FirstOp[u] \in Ops /\ (FirstOp[u] = "recv" => u = "pump")
      BY DEF FirstOp, Loops, Ops
    <3>2. task[u] \in TaskStates
      BY <1>13, LoopsAre
    <3> QED BY <2>3, <3>1, <3>2 DEF TaskStates
  <2>5. /\ \A u \in Tasks : task'[u] = IF u = t THEN k ELSE IF u \in Loops THEN started[u]
                                       ELSE task[u]
        /\ task' = [u \in Tasks |-> task'[u]]
    <3>1. task' = [u \in Tasks |->
                      IF u = t THEN [task[u] EXCEPT !.pc = "done"]
                      ELSE IF u \in Loops
                      THEN [task[u] EXCEPT !.pc = "ready", !.op = FirstOp[u]]
                      ELSE task[u]]
      BY <1>1, <1>3, <1>6, <1>17 DEF Continue
    <3>2. task' = [u \in Tasks |-> IF u = t THEN k ELSE IF u \in Loops THEN started[u]
                                    ELSE task[u]]
      BY <1>14, <2>3, <3>1
    <3> QED BY <3>2
  <2>6. /\ task'[t] = k
        /\ \A u \in Loops : task'[u] = started[u]
        /\ \A u \in Tasks : u # t /\ u \notin Loops => task'[u] = task[u]
        /\ task' \in [Tasks -> TaskStates]
    <3>1. \A u \in Tasks : task'[u] \in TaskStates
      BY <1>13, <1>15, <2>4, <2>5
    <3> QED BY <1>2, <2>5, <3>1, LoopsAre
  <2>7. /\ app' \in [phase : {"mounting", "running", "closing", "closed"}, to_cancel : Cancels,
                     python311 : BOOLEAN]
        /\ app'.phase = "running" /\ app'.to_cancel = app.to_cancel
    <3>1. app' = [app EXCEPT !.phase = "running"]
      BY <1>1, <1>3, <1>6, <1>17 DEF Continue
    <3> QED BY <1>13, <3>1
  <2>8. \A u \in Tasks :
            \/ u # t /\ task'[u] = task[u]
            \/ /\ task[u].pc = "waiting" => u = t
               /\ task'[u].pc # "waiting" /\ task'[u].calls = task[u].calls
               /\ task'[u].op = "recv" => u = "pump"
    <3> TAKE u \in Tasks
    <3>1. CASE u = t
      BY <1>6, <1>13, <1>15, <2>6, <3>1
    <3>2. CASE u \in Loops
      BY <1>2, <1>8, <2>4, <2>6, <3>2
    <3>3. CASE u # t /\ u \notin Loops
      BY <2>6, <3>3
    <3> QED BY <3>1, <3>2, <3>3
  <2>9. Selecting' = {}
    <3>1. \A u \in Users : u # t /\ u \notin Loops /\ u \in Tasks
      BY <1>2, LoopsAre, ChatAssumption
    <3>2. \A u \in Users : task'[u].pc = "off"
      BY <1>8, <2>6, <3>1
    <3> QED BY <3>2 DEF Selecting
  <2>10. chat'.focused \in Sure' /\ chat'.focused = ghost'.wanted
    BY <1>8, <1>10, <1>11, <1>12, <1>17, <2>1
  <2>11. MountInv' /\ CancelInv' /\ FocusInv'
    BY <1>1, <1>8, <1>15, <2>6, <2>7, <2>9, <2>10 DEF MountInv, CancelInv, FocusInv
  <2> QED BY <1>4, <1>10, <1>11, <2>6, <2>7, <2>8, <2>11, CallKeeps
<1>18. CASE ~MountFails(t, ok) /\ op # "list_agents"
  <2>1. task' = [task EXCEPT ![t].pc = "ready", ![t].op = NextOp(@)] /\ app' = app
    BY <1>2, <1>3, <1>6, <1>18 DEF Continue
  <2>2. /\ task' \in [Tasks -> TaskStates]
        /\ task'[t].pc = "ready" /\ task'[t].op = NextOp(op) /\ task'[t].channel = c
        /\ \A u \in Tasks : u # t => task'[u] = task[u]
        /\ \A u \in Tasks :
              \/ u # t /\ task'[u] = task[u]
              \/ /\ task[u].pc = "waiting" => u = t
                 /\ task'[u].pc # "waiting" /\ task'[u].calls = task[u].calls
                 /\ task'[u].op = "recv" => u = "pump"
    BY <1>4, <1>5, <1>6, <2>1, GoesOnIs
  <2>3. NextOp(op) \in {"presence", "list_channels", "list_agents"} => c \in Sure'
    <3>1. CASE op = "subscribe"
      <4>1. ok
        BY <1>7, <1>18, <3>1
      <4>2. FutureOK(t, future[t], task[t], server.handed, Sure)
        BY TasksAre
      <4> QED BY <1>3, <1>5, <1>6, <1>12, <3>1, <4>1, <4>2 DEF FutureOK
    <3>2. CASE op # "subscribe"
      <4>1. NextOp(op) \in {"presence", "list_channels", "list_agents"}
                => op \in {"presence", "list_channels"}
        BY <1>18, <3>2, NextOpIs
      <4> QED BY <1>8, <1>12, <4>1
    <3> QED BY <3>1, <3>2
  <2>4. NextOp(op) \in {"list_channels", "list_agents"} =>
            chat'.focused \in Sure' /\ chat'.focused = ghost'.wanted
    <3>1. NextOp(op) \in {"list_channels", "list_agents"} => op \in {"presence", "list_channels"}
      BY <1>18, NextOpIs
    <3>2. CASE op = "presence"
      BY <1>8, <1>10, <1>11, <1>12, <3>2
    <3>3. CASE op = "list_channels"
      BY <1>8, <1>10, <1>11, <1>12, <3>3
    <3> QED BY <3>1, <3>2, <3>3
  <2>5. MountInv'
    BY <1>1, <1>8, <2>1, <2>2, <2>3, <2>4 DEF MountInv
  <2>6. CancelInv' /\ FocusInv'
    BY <1>8, <2>1 DEF CancelInv, FocusInv
  <2>7. app' \in [phase : {"mounting", "running", "closing", "closed"}, to_cancel : Cancels,
                  python311 : BOOLEAN]
    BY <1>13, <2>1
  <2> QED BY <1>4, <1>10, <1>11, <2>2, <2>5, <2>6, <2>7, CallKeeps
<1> QED BY <1>16, <1>17, <1>18

LEMMA ChatStepKeeps == ChatInv /\ [ChatStep]_chatVars => ChatInv'
<1> SUFFICES ASSUME ChatInv, [ChatStep]_chatVars PROVE ChatInv'
  OBVIOUS
<1>1. CASE \E t \in Tasks : Ask(t) \/ Resume(t) \/ TimeOut(t)
  <2>1. PICK t \in Tasks : Ask(t) \/ Resume(t) \/ TimeOut(t)
    BY <1>1
  <2>2. CASE Resume(t)
    <3>1. t \in Loops \/ t \in Users \/ t = "mount"
      BY DEF Tasks
    <3> QED BY <2>2, <3>1, LoopKeeps, CommandKeeps, MountKeeps
  <2> QED BY <2>1, <2>2, AskKeeps, TimeOutKeeps
<1>2. CASE \E u \in Users : Submit(u) \/ \E c \in Chans, join \in BOOLEAN : Select(u, c, join)
  <2>1. PICK u \in Users : Submit(u) \/ \E c \in Chans, join \in BOOLEAN : Select(u, c, join)
    BY <1>2
  <2> QED BY <2>1, SubmitKeeps, SelectKeeps
<1>3. CASE Serve \/ Refuse \/ ServeAgain \/ Post \/ ServerDies
  BY <1>3, ServeKeeps, RefuseKeeps, ServeAgainKeeps, PostKeeps, DeathKeeps
<1>4. CASE ReadAnswer \/ EndOfFile \/ Quit \/ CancelNext \/ Stop
  BY <1>4, ReadAnswerKeeps, EndOfFileKeeps, QuitKeeps, CancelKeeps, StopKeeps
<1>5. CASE UNCHANGED chatVars
  <2>1. UNCHANGED <<chat, task, future, wire, server, app, ghost>>
    BY <1>5 DEF chatVars
  <2> QED BY <2>1, TasksAre, ServerIs, UnansweredKeeps
<1> QED BY <1>1, <1>2, <1>3, <1>4, <1>5 DEF ChatStep

\* What is under way, as the property says it.
LEMMA UnderWayIs ==
    ASSUME NEW m, InAnswers(m, wire.answers) \/ InFutures(m, future)
    PROVE  m \in UnderWay
<1>1. CASE InAnswers(m, wire.answers)
  <2>1. PICK i \in DOMAIN wire.answers : m \in wire.answers[i].messages
    BY <1>1 DEF InAnswers
  <2>2. m \in UNION {wire.answers[j].messages : j \in DOMAIN wire.answers}
    BY <2>1
  <2> QED BY <2>2 DEF UnderWay
<1>2. CASE InFutures(m, future)
  <2>1. PICK t \in Tasks : m \in future[t].messages
    BY <1>2 DEF InFutures
  <2>2. m \in UNION {future[u].messages : u \in Tasks}
    BY <2>1
  <2> QED BY <2>2 DEF UnderWay
<1> QED BY <1>1, <1>2

LEMMA ChatInvSays == ChatInv => ChatShowsWhatArrives
<1> SUFFICES ASSUME ChatInv PROVE ChatShowsWhatArrives
  OBVIOUS
<1>1. \A c \in Chans :
          /\ \A i, j \in DOMAIN chat.shown[c] :
                i # j => chat.shown[c][i] \cap chat.shown[c][j] = {}
          /\ \A m \in Shown(chat, c) : server.posted[m] = c
          /\ chat.unread[c] = Cardinality(Shown(chat, c) \ ghost.seen)
  BY DEF ChatInv, ShownInv
<1>2. server.handed \subseteq
          (UNION {Shown(chat, c) : c \in Chans}) \cup UnderWay \cup ghost.lost
  <2>1. ASSUME NEW m \in server.handed
        PROVE  \/ m \in UNION {Shown(chat, c) : c \in Chans}
               \/ m \in UnderWay \/ m \in ghost.lost
    <3>1. CASE \E c \in Chans : m \in Shown(chat, c)
      BY <3>1
    <3>2. CASE InAnswers(m, wire.answers) \/ InFutures(m, future)
      BY <3>2, UnderWayIs
    <3> QED BY <3>1, <3>2 DEF ChatInv, CoverInv
  <2> QED BY <2>1
<1>3. app.phase = "running" =>
          /\ chat.focused \in server.subs \cup ghost.unsure
          /\ (Selecting = {} /\ ~ghost.overlap) => chat.focused = ghost.wanted
  BY DEF ChatInv, FocusInv, Sure
<1> QED BY <1>1, <1>2, <1>3 DEF ChatShowsWhatArrives

\* The feeds show every message that the server handed out, once and on its
\* channel, or it is under way, or it is lost with a late or a cut off answer;
\* the unread counts and the focus are right: for any number of users' commands,
\* channels, calls, messages and faults.
THEOREM ChatShowsWhatArrivesAlways ==
    ASSUME NEW bounds
    PROVE  ChatSpec(bounds) => []ChatShowsWhatArrives
<1>1. ChatInit(bounds) => ChatInv
  BY ChatStarts
<1> QED BY <1>1, ChatStepKeeps, ChatInvSays, PTL DEF ChatSpec

=============================================================================
