----------------------------- MODULE MemoryStore ----------------------------
(***************************************************************************)
(* The in-memory BackingStore (adapters/backing_stores/memory/store.py).   *)
(*                                                                         *)
(* Every operation does all of its work inside "async with self._lock"     *)
(* without awaiting anything, so under one event loop each is one atomic   *)
(* step: one action per operation.  The operations that change nothing     *)
(* (replay, list_agents) are operators on the state; watch() is modelled   *)
(* with the listener that drives it, in module Mailbox.                    *)
(*                                                                         *)
(* Abstractions: sender, correlation_id and reply_to are only echoed and   *)
(* left out; a message body is opaque except for a presence event, which   *)
(* names an agent and a status; a list of subscription patterns is a set   *)
(* (subscribe never adds one twice); a group's member list is the map from *)
(* agents to their status; fnmatch is the relation Matches between         *)
(* channels and patterns; the wall clock "now" does not run backwards.     *)
(***************************************************************************)
EXTENDS Naturals, Sequences, FiniteSets

CONSTANTS
    Agents,        \* agent ids
    Channels,      \* channel names, the presence channel and the groups included
    Rank,          \* the alphabetical position of each channel name
    Presence,      \* the channel "sox/presence"
    Groups,        \* the channels "group/<id>"
    Patterns,      \* subscription patterns
    Matches,       \* fnmatchcase: the <<channel, pattern>> pairs that match
    Opaque,        \* the body of an ordinary message
    None,          \* Python's None
    Limits,        \* the max_messages values callers pass
    Statuses,      \* the statuses a heartbeat may report
    TTLs,          \* the ttl values a heartbeat may carry; 0 is falsy in Python
    DefaultTTL,    \* the ttl used when the caller gives none, or 0
    AckStatuses,   \* the statuses an ack may report
    AckIds,        \* the message ids an ack may name
    MaxMessages,   \* bound: messages ever stored
    MaxTime        \* bound: clock readings

ASSUME StoreAssumption ==
    /\ \A c \in Channels : Rank[c] \in Nat
    /\ \A c, d \in Channels : Rank[c] = Rank[d] => c = d
    /\ Presence \in Channels
    /\ Groups \subseteq Channels
    /\ Groups \subseteq Patterns
    /\ Matches \subseteq Channels \X Patterns
    /\ \A g \in Groups, c \in Channels : <<c, g>> \in Matches <=> c = g
    /\ Limits \subseteq Nat
    /\ TTLs \subseteq Nat
    /\ DefaultTTL \in Nat
    /\ IsFiniteSet(Agents)
    /\ Opaque \notin [agent : Agents, status : Statuses]
    /\ None \notin [status : Statuses, recorded_at : Nat, expires_at : Nat]
    /\ MaxMessages \in Nat
    /\ MaxTime \in Nat

VARIABLES
    messages,        \* _messages, in insertion order
    next_id,         \* _next_id
    channel_seq,     \* _channel_seq
    subscriptions,   \* _subscriptions
    ack_records,     \* _ack_records
    liveness,        \* _liveness
    groups,          \* _groups
    now,             \* time.time()
    returned,        \* history: the message ids recv returned to each agent, in order
    discarded        \* history: the message ids unsubscribe settled unread

vars == <<messages, next_id, channel_seq, subscriptions, ack_records,
          liveness, groups, now, returned, discarded>>

-----------------------------------------------------------------------------

Event == [agent : Agents, status : Statuses]

Message == [id : Nat, channel : Channels, body : Event \cup {Opaque},
            sent_at : Nat, seq : Nat, delivered_to : SUBSET Agents]

LiveRecord == [status : Statuses, recorded_at : Nat, expires_at : Nat]

AckRecord == [agent : Agents, status : AckStatuses]

Init ==
    /\ messages = <<>>
    /\ next_id = 1
    /\ channel_seq = [c \in Channels |-> 0]
    /\ subscriptions = [a \in Agents |-> {}]
    /\ ack_records = [m \in AckIds |-> None]
    /\ liveness = [a \in Agents |-> None]
    /\ groups = [g \in Groups |-> [a \in Agents |-> "none"]]
    /\ now = 0
    /\ returned = [a \in Agents |-> <<>>]
    /\ discarded = [a \in Agents |-> {}]

-----------------------------------------------------------------------------
(* Sending.                                                                *)

\* Mutant of NewMessage: sequence numbers drawn from the store-wide counter.
NewMessageSeqFromId(channel, body) ==
    [id |-> next_id, channel |-> channel, body |-> body, sent_at |-> now,
     seq |-> next_id, delivered_to |-> {}]

\* The envelope under which the store files a body: the next id of the store
\* and the next sequence number of the channel.
NewMessage(channel, body) ==
    [id |-> next_id, channel |-> channel, body |-> body, sent_at |-> now,
     seq |-> channel_seq[channel] + 1, delivered_to |-> {}]

\* Mutant of Store: the id counter is not advanced.
StoreReusingIds(channel, body) ==
    /\ Len(messages) < MaxMessages
    /\ messages' = Append(messages, NewMessage(channel, body))
    /\ UNCHANGED next_id
    /\ channel_seq' = [channel_seq EXCEPT ![channel] = @ + 1]

Store(channel, body) ==
    /\ Len(messages) < MaxMessages
    /\ messages' = Append(messages, NewMessage(channel, body))
    /\ next_id' = next_id + 1
    /\ channel_seq' = [channel_seq EXCEPT ![channel] = @ + 1]

Send(channel) ==
    /\ Store(channel, Opaque)
    /\ UNCHANGED <<subscriptions, ack_records, liveness, groups, now,
                   returned, discarded>>

\* The backpressure figure of a send: messages of the channel nobody received yet.
QueueDepth(channel) ==
    Cardinality({i \in DOMAIN messages :
                    /\ messages[i].channel = channel
                    /\ messages[i].delivered_to = {}})

-----------------------------------------------------------------------------
(* Receiving.                                                              *)

\* The channels a subscribes to by some pattern.
MatchesAgent(a) ==
    {c \in Channels : \E p \in subscriptions[a] : <<c, p>> \in Matches}

\* The channels a recv looks at: the given list, or every subscribed channel.
Scope(a, channels) == IF channels = None THEN MatchesAgent(a) ELSE channels

\* Mutant of Eligible: what was delivered before is eligible again.
EligibleAgain(a, channels) ==
    {i \in DOMAIN messages : messages[i].channel \in Scope(a, channels)}

\* Mutant of Eligible: agents compete for messages.
EligibleForOne(a, channels) ==
    {i \in DOMAIN messages :
        /\ messages[i].delivered_to = {}
        /\ messages[i].channel \in Scope(a, channels)}

Eligible(a, channels) ==
    {i \in DOMAIN messages :
        /\ a \notin messages[i].delivered_to
        /\ messages[i].channel \in Scope(a, channels)}

\* Mutant of Taken: the newest max_messages instead of the oldest.
TakenNewest(a, channels, max_messages) ==
    LET eligible == Eligible(a, channels)
    IN  {i \in eligible : Cardinality({j \in eligible : j >= i}) <= max_messages}

\* The scan stops once max_messages eligible messages have been collected.
Taken(a, channels, max_messages) ==
    LET eligible == Eligible(a, channels)
    IN  {i \in eligible : Cardinality({j \in eligible : j <= i}) <= max_messages}

\* Mutant of Before: ties on sent_at put the higher id first.
BeforeTiesReversed(i, j) ==
    LET m == messages[i]
        n == messages[j]
    IN  \/ Rank[m.channel] < Rank[n.channel]
        \/ /\ m.channel = n.channel
           /\ \/ m.sent_at < n.sent_at
              \/ m.sent_at = n.sent_at /\ m.id > n.id

\* The sort key (channel, sent_at, id).
Before(i, j) ==
    LET m == messages[i]
        n == messages[j]
    IN  \/ Rank[m.channel] < Rank[n.channel]
        \/ /\ m.channel = n.channel
           /\ \/ m.sent_at < n.sent_at
              \/ m.sent_at = n.sent_at /\ m.id < n.id

\* The sorted listing of a set of positions (there is exactly one).
Sorted(S) ==
    {s \in [1 .. Cardinality(S) -> S] :
        /\ \A i \in S : \E k \in DOMAIN s : s[k] = i
        /\ \A k, l \in DOMAIN s : k < l => Before(s[k], s[l])}

\* Mutant of Mark: the list of agents is nested instead of extended.
MarkNested(a, S) ==
    messages' = [i \in DOMAIN messages |->
                    IF i \in S
                    THEN [messages[i] EXCEPT !.delivered_to = @ \cup {{a}}]
                    ELSE messages[i]]

Mark(a, S) ==
    messages' = [i \in DOMAIN messages |->
                    IF i \in S
                    THEN [messages[i] EXCEPT !.delivered_to = @ \cup {a}]
                    ELSE messages[i]]

\* A drain that finds nothing changes nothing and is left to stuttering.
Recv(a, channels, max_messages) ==
    LET taken == Taken(a, channels, max_messages)
    IN  /\ taken # {}
        /\ Mark(a, taken)
        /\ \E batch \in Sorted(taken) :
              returned' = [returned EXCEPT ![a] = @ \o batch]
        /\ UNCHANGED <<next_id, channel_seq, subscriptions, ack_records,
                       liveness, groups, now, discarded>>

-----------------------------------------------------------------------------
(* Subscriptions.                                                          *)

Subscribe(a, pattern) ==
    /\ subscriptions' = [subscriptions EXCEPT ![a] = @ \cup {pattern}]
    /\ UNCHANGED <<messages, next_id, channel_seq, ack_records, liveness,
                   groups, now, returned, discarded>>

\* The pending messages an unsubscribe settles: those a removed pattern matches,
\* whether or not a remaining pattern matches them too.
Cleared(a, removed) ==
    {i \in DOMAIN messages :
        /\ a \notin messages[i].delivered_to
        /\ \E p \in removed : <<messages[i].channel, p>> \in Matches}

Unsubscribe(a, patterns) ==
    LET removed == subscriptions[a] \cap patterns
    IN  /\ removed # {}
        /\ Mark(a, Cleared(a, removed))
        /\ subscriptions' = [subscriptions EXCEPT ![a] = @ \ removed]
        /\ discarded' = [discarded EXCEPT ![a] = @ \cup Cleared(a, removed)]
        /\ UNCHANGED <<next_id, channel_seq, ack_records, liveness, groups,
                       now, returned>>

-----------------------------------------------------------------------------
(* Acknowledgements and presence.                                          *)

\* An ack overwrites whatever was recorded for the message id, by anyone.
Ack(a, message_id, status) ==
    /\ ack_records' = [ack_records EXCEPT
                          ![message_id] = [agent |-> a, status |-> status]]
    /\ UNCHANGED <<messages, next_id, channel_seq, subscriptions, liveness,
                   groups, now, returned, discarded>>

ExpiresAt(ttl) == now + (IF ttl = 0 THEN DefaultTTL ELSE ttl)

\* Mutant of Heartbeat: an existing record is only prolonged.
HeartbeatOnlyProlongs(a, status, ttl) ==
    /\ Store(Presence, [agent |-> a, status |-> status])
    /\ liveness' = [liveness EXCEPT ![a] =
                       [status |-> IF @ = None THEN status ELSE @.status,
                        recorded_at |-> now, expires_at |-> ExpiresAt(ttl)]]
    /\ UNCHANGED <<subscriptions, ack_records, groups, now, returned, discarded>>

\* The liveness record and the event on the presence channel are one step.
Heartbeat(a, status, ttl) ==
    /\ Store(Presence, [agent |-> a, status |-> status])
    /\ liveness' = [liveness EXCEPT ![a] = [status |-> status,
                                            recorded_at |-> now,
                                            expires_at |-> ExpiresAt(ttl)]]
    /\ UNCHANGED <<subscriptions, ack_records, groups, now, returned, discarded>>

\* list_agents: the presence state shown for an agent that has a record.
PresenceState(a) ==
    CASE liveness[a].status = "offline" -> "offline"
      [] liveness[a].status # "offline" /\ liveness[a].expires_at <= now -> "stale"
      [] OTHER -> liveness[a].status

-----------------------------------------------------------------------------
(* Groups.                                                                 *)

\* Creating a group that exists throws its member list away.
GroupCreate(creator, g) ==
    /\ groups' = [groups EXCEPT ![g] =
                     [a \in Agents |-> IF a = creator THEN "active" ELSE "none"]]
    /\ subscriptions' = [subscriptions EXCEPT ![creator] = @ \cup {g}]
    /\ UNCHANGED <<messages, next_id, channel_seq, ack_records, liveness, now,
                   returned, discarded>>

GroupInvite(inviter, g, invitee) ==
    /\ groups[g][inviter] = "active"
    /\ groups' = [groups EXCEPT ![g][invitee] =
                     IF @ = "none" THEN "invited" ELSE @]
    /\ UNCHANGED <<messages, next_id, channel_seq, subscriptions, ack_records,
                   liveness, now, returned, discarded>>

\* Mutant of GroupJoin: joining needs no invitation.
GroupJoinUninvited(a, g) ==
    /\ groups' = [groups EXCEPT ![g][a] = "active"]
    /\ subscriptions' = [subscriptions EXCEPT ![a] = @ \cup {g}]
    /\ UNCHANGED <<messages, next_id, channel_seq, ack_records, liveness, now,
                   returned, discarded>>

\* The caller is subscribed even when it holds no invitation.
GroupJoin(a, g) ==
    /\ groups' = [groups EXCEPT ![g][a] = IF @ = "invited" THEN "active" ELSE @]
    /\ subscriptions' = [subscriptions EXCEPT ![a] = @ \cup {g}]
    /\ UNCHANGED <<messages, next_id, channel_seq, ack_records, liveness, now,
                   returned, discarded>>

GroupLeave(a, g) ==
    /\ groups' = [groups EXCEPT ![g][a] = "none"]
    /\ subscriptions' = [subscriptions EXCEPT ![a] = @ \ {g}]
    /\ UNCHANGED <<messages, next_id, channel_seq, ack_records, liveness, now,
                   returned, discarded>>

-----------------------------------------------------------------------------

\* replay: the first "limit" messages of a channel from sequence number "since"
\* on (the scan is over the whole log; ties on seq are ordered by id), and
\* whether more follow.
\* Mutant of ReplayMatches: "since" is exclusive.
ReplayMatchesAfter(channel, since) ==
    {i \in DOMAIN messages :
        messages[i].channel = channel /\ messages[i].seq > since}

ReplayMatches(channel, since) ==
    {i \in DOMAIN messages :
        messages[i].channel = channel /\ messages[i].seq >= since}

ReplayPage(channel, since, limit) ==
    LET matches == ReplayMatches(channel, since)
    IN  {i \in matches :
            Cardinality({j \in matches :
                            \/ messages[j].seq < messages[i].seq
                            \/ messages[j].seq = messages[i].seq /\ j <= i}) <= limit}

HasMore(channel, since, limit) ==
    Cardinality(ReplayMatches(channel, since)) > limit

-----------------------------------------------------------------------------

Tick ==
    /\ now < MaxTime
    /\ now' = now + 1
    /\ UNCHANGED <<messages, next_id, channel_seq, subscriptions, ack_records,
                   liveness, groups, returned, discarded>>

Next ==
    \/ \E c \in Channels : Send(c)
    \/ \E a \in Agents, cs \in {None} \cup (SUBSET Channels \ {{}}), k \in Limits :
          Recv(a, cs, k)
    \/ \E a \in Agents, p \in Patterns : Subscribe(a, p)
    \/ \E a \in Agents, ps \in SUBSET Patterns \ {{}} : Unsubscribe(a, ps)
    \/ \E a \in Agents, m \in AckIds, s \in AckStatuses : Ack(a, m, s)
    \/ \E a \in Agents, s \in Statuses, t \in TTLs : Heartbeat(a, s, t)
    \/ \E a \in Agents, g \in Groups : GroupCreate(a, g)
    \/ \E a, b \in Agents, g \in Groups : GroupInvite(a, g, b)
    \/ \E a \in Agents, g \in Groups : GroupJoin(a, g)
    \/ \E a \in Agents, g \in Groups : GroupLeave(a, g)
    \/ Tick

Spec == Init /\ [][Next]_vars

-----------------------------------------------------------------------------
(* Properties.                                                             *)

\* Every variable holds a value of its kind.
TypeOK ==
    /\ messages \in Seq(Message)
    /\ next_id \in Nat
    /\ channel_seq \in [Channels -> Nat]
    /\ subscriptions \in [Agents -> SUBSET Patterns]
    /\ ack_records \in [AckIds -> AckRecord \cup {None}]
    /\ liveness \in [Agents -> LiveRecord \cup {None}]
    /\ groups \in [Groups -> [Agents -> {"none", "invited", "active"}]]
    /\ now \in Nat
    /\ returned \in [Agents -> Seq(Nat)]
    /\ discarded \in [Agents -> SUBSET Nat]

\* The stored ids are 1, 2, 3, ... in insertion order: _next_id is never reused
\* although send and heartbeat both draw from it.
IdsAreDense ==
    /\ next_id = Len(messages) + 1
    /\ \A i \in DOMAIN messages : messages[i].id = i

\* On each channel the messages carry the sequence numbers 1 .. n in insertion
\* order, without gap or duplicate, whichever mix of send and heartbeat filed them.
SeqGapFree ==
    \A c \in Channels :
        /\ \A i, j \in DOMAIN messages :
              (messages[i].channel = c /\ messages[j].channel = c /\ i < j)
                 => messages[i].seq < messages[j].seq
        /\ {messages[i].seq : i \in {j \in DOMAIN messages : messages[j].channel = c}}
              = 1 .. channel_seq[c]

\* The messages of a channel that are settled for an agent are a prefix of the
\* channel: no interleaving of filtered, truncated and full drains with
\* unsubscribes leaves an unread message behind a read one.
SettledIsPrefix ==
    \A a \in Agents : \A i, j \in DOMAIN messages :
        (/\ i < j
         /\ messages[i].channel = messages[j].channel
         /\ a \in messages[j].delivered_to)
            => a \in messages[i].delivered_to

\* Exactly once: delivered_to is the record of what an agent was handed or lost
\* by unsubscribing, no message is both, and none is handed out twice.
DeliveredOnce ==
    \A a \in Agents :
        /\ \A x, y \in DOMAIN returned[a] :
              returned[a][x] = returned[a][y] => x = y
        /\ \A x \in DOMAIN returned[a] : returned[a][x] \notin discarded[a]
        /\ \A i \in DOMAIN messages :
              a \in messages[i].delivered_to
                 <=> \/ i \in discarded[a]
                     \/ \E x \in DOMAIN returned[a] : returned[a][x] = i

\* An agent reads each channel in sequence order, over all of its recv calls
\* together: sorting a batch by (channel, sent_at, id) never inverts seq.
ReadInOrder ==
    \A a \in Agents : \A x, y \in DOMAIN returned[a] :
        LET m == messages[returned[a][x]]
            n == messages[returned[a][y]]
        IN  (x < y /\ m.channel = n.channel) => m.seq < n.seq

\* The newest server event about an agent on the presence channel reports the
\* status its liveness record holds: list_agents and a subscriber of
\* sox/presence cannot disagree about what was last reported.
PresenceAgrees ==
    \A a \in Agents :
        LET events == {i \in DOMAIN messages :
                          messages[i].body # Opaque /\ messages[i].body.agent = a}
        IN  /\ events = {} <=> liveness[a] = None
            /\ \A i \in events :
                  (\A j \in events : j <= i)
                     => messages[i].body.status = liveness[a].status

\* A client that pages through a channel with replay, asking next from the last
\* sequence number it saw plus one, misses nothing: a page is exactly the next
\* "limit" sequence numbers and has_more says whether the channel goes on.
ReplayPagesAreComplete ==
    \A c \in Channels : \A since \in 1 .. MaxMessages + 1 : \A limit \in Limits :
        LET page == {messages[i].seq : i \in ReplayPage(c, since, limit)}
        IN  /\ page = {n \in 1 .. channel_seq[c] : since <= n /\ n < since + limit}
            /\ HasMore(c, since, limit) <=> since + limit <= channel_seq[c]

\* An agent becomes an active member only by creating the group or by accepting
\* an invitation, and only an active member can have invited it.
MembershipIsEarned ==
    [][\A g \in Groups, a \in Agents :
          /\ (groups[g][a] # "active" /\ groups'[g][a] = "active")
                => \/ groups[g][a] = "invited"
                   \/ \A b \in Agents \ {a} : groups'[g][b] = "none"
          /\ (groups[g][a] = "none" /\ groups'[g][a] = "invited")
                => \E b \in Agents : groups[g][b] = "active"]_groups

\* The port's promise: channels are numbered logs that agents consume in order,
\* once.  delivered_to is read as one cursor per agent and channel.
SeqsOf(c, S) == {messages[i].seq : i \in {j \in S : messages[j].channel = c}}

Port == INSTANCE ChannelStore WITH
    head <- channel_seq,
    seen <- [a \in Agents |-> [c \in Channels |->
                SeqsOf(c, {i \in DOMAIN messages : a \in messages[i].delivered_to})]],
    got  <- [a \in Agents |-> [c \in Channels |->
                SeqsOf(c, {returned[a][x] : x \in DOMAIN returned[a]})]]

\* The memory store implements the port.
ImplementsPort == Port!Spec

=============================================================================
