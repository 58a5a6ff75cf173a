--------------------------- MODULE FilesystemStore --------------------------
(***************************************************************************)
(* The filesystem BackingStore (adapters/backing_stores/filesystem/        *)
(* store.py): a directory per channel, a file per message, and per agent a *)
(* file of subscriptions and, per channel, a file of delivered names.      *)
(*                                                                         *)
(* No operation awaits anything, so within a process an operation is not   *)
(* interrupted; but several processes open one directory and no lock is    *)
(* shared between them.  An operation is therefore one step per file it    *)
(* reads or replaces, and a process does one operation at a time.  A file  *)
(* is replaced by renaming a finished temporary file over it, so a read    *)
(* sees an old or a new version; what a process that dies leaves in a      *)
(* temporary file nobody looks at.  Liveness and groups live in the memory *)
(* of each process.                                                        *)
(*                                                                         *)
(* A process calls the store for one agent (an MCP server, a chat session, *)
(* a stop hook) or for several (the HTTP server).  Abstractions: a message *)
(* file keeps its name and seq; the name, a time stamp and a random        *)
(* suffix, is the rank of the stamp among all stamps taken; patterns are   *)
(* the channels they match; looking up the patterns and listing the        *)
(* channels, or listing a channel and looking up what is delivered there,  *)
(* is one step.                                                            *)
(***************************************************************************)
EXTENDS Naturals, FiniteSets, Sequences, SequencesExt

CONSTANTS
    Procs,         \* processes that have the directory open
    Agents,        \* agent ids
    Channels,      \* channel names, groups and the presence channel included
    Groups,        \* the channels "group/<id>"
    Presence,      \* the channel sox/presence
    Statuses,      \* the statuses of a heartbeat
    None,          \* Python's None
    Limits,        \* max_messages values
    Scenarios,     \* what may be mixed: operations, the channels they name, the calls
                   \* (process and agent) made, the patterns there are at the start
    MaxMessages,   \* bound: names ever taken for message files
    MaxFaults      \* bound: processes that die

Operations == {"send", "recv", "subscribe", "unsubscribe", "watch", "heartbeat", "ack",
               "groups"}

ASSUME FilesystemAssumption ==
    /\ IsFiniteSet(Procs)
    /\ Groups \subseteq Channels
    /\ Presence \in Channels \ Groups
    /\ None \notin Statuses
    /\ Limits \subseteq Nat \ {0}
    /\ Scenarios \subseteq [operations : SUBSET Operations, channels : SUBSET Channels,
                           callers : SUBSET (Procs \X Agents), followed : SUBSET Channels]
    /\ MaxMessages \in Nat
    /\ MaxFaults \in Nat

VARIABLES
    files,         \* the message files: channel, name and seq
    dirs,          \* the channels that have a directory
    delivered,     \* per agent and channel, the names in delivered/<agent>.json
    subscriptions, \* per agent, the patterns in its subscriptions file
    seen,          \* per process and agent, the names its watch() has seen, or None
    liveness,      \* per process, _liveness: the statuses it was told
    acks,          \* per process, _ack_records: who acknowledged a name last, or None
    groups,        \* per process, _groups: the member lists it keeps
    proc,          \* per process, the operation in progress and its local variables
    stamp,         \* the stamps taken by send so far
    faults,        \* processes that died
    scenario,      \* what is mixed
    returned,      \* history: per agent, the names recv returned
    again,         \* history: per agent, the names recv returned a second time
    settled,       \* history: per agent, what a drain or an unsubscribe has marked
    overlapped,    \* history: agents two of whose processes rewrote its files at once
    crowded        \* history: channels on which two processes were numbering at once

history == <<returned, again, settled, overlapped, crowded>>

vars == <<files, dirs, delivered, subscriptions, seen, liveness, acks, groups, proc,
          stamp, faults, scenario, history>>

\* What only messages and their readers depend on, and what only groups and
\* heartbeats do.
mail == <<files, dirs, delivered, subscriptions, seen>>
memory == <<liveness, acks, groups>>

-----------------------------------------------------------------------------

Idle == [at |-> "idle"]

Goto(p, state) == proc' = [proc EXCEPT ![p] = state]

At(p, place) == proc[p].at = place

\* A process at rest begins an operation of the scenario for one of its agents.
Begin(p, a, operation) ==
    /\ operation \in scenario.operations
    /\ <<p, a>> \in scenario.callers
    /\ At(p, "idle")

NoWatch == [a \in Agents |-> None]

NoAcks == [n \in 1 .. MaxMessages |-> None]

NoMembers == [g \in Groups |-> [a \in Agents |-> "none"]]

Init ==
    /\ files = {}
    /\ dirs = {}
    /\ delivered = [a \in Agents |-> [c \in Channels |-> {}]]
    /\ scenario \in Scenarios
    /\ subscriptions = [a \in Agents |-> scenario.followed]
    /\ seen = [p \in Procs |-> NoWatch]
    /\ liveness = [p \in Procs |-> [a \in Agents |-> None]]
    /\ acks = [p \in Procs |-> NoAcks]
    /\ groups = [p \in Procs |-> NoMembers]
    /\ proc = [p \in Procs |-> Idle]
    /\ stamp = 0
    /\ faults = 0
    /\ returned = [a \in Agents |-> {}]
    /\ again = [a \in Agents |-> {}]
    /\ settled = [a \in Agents |-> {}]
    /\ overlapped = {}
    /\ crowded = {}

\* _list_message_files and _get_delivered_set.
Names(c) == {f.name : f \in {f \in files : f.channel = c}}

Pending(a, c) == Names(c) \ delivered[a][c]

\* The places at which a process is about to replace a file of its agent from
\* an older version it has read.
Rewriting(p) == proc[p].at \in {"scan", "mark", "mark write", "patterns"}

\* History: a process enters such a place for agent a, and maybe is not alone.
NoteOverlap(p, a) ==
    overlapped' = overlapped \cup
        {proc[q].agent : q \in {q \in Procs \ {p} : Rewriting(q) /\ proc[q].agent = a}}

-----------------------------------------------------------------------------
(* send: take a stamp, count the files, write one more.                    *)

\* Mutant of TakeStamp: the name has no random suffix and the clock is coarse.
TakeStampCoarse(p, c) ==
    /\ stamp < MaxMessages
    /\ stamp' \in {stamp, stamp + 1}
    /\ Goto(p, [at |-> "send", channel |-> c, name |-> stamp'])

\* The stamp and, with it, the name are taken before anything is written.
TakeStamp(p, c) ==
    /\ stamp < MaxMessages
    /\ stamp' = stamp + 1
    /\ Goto(p, [at |-> "send", channel |-> c, name |-> stamp'])

Send(p, a, c) ==
    /\ Begin(p, a, "send")
    /\ TakeStamp(p, c)
    /\ UNCHANGED <<mail, memory, faults, scenario, history>>

\* Mutant of SendCount: the first message is number 0.
SendCountFromZero(p) ==
    LET c == proc[p].channel
    IN  /\ At(p, "send")
        /\ dirs' = dirs \cup {c}
        /\ Goto(p, [at |-> "send write", channel |-> c, name |-> proc[p].name,
                    seq |-> Cardinality(Names(c))])
        /\ UNCHANGED <<files, delivered, subscriptions, seen, memory, stamp, faults,
                       scenario, history>>

SendCount(p) ==
    LET c == proc[p].channel
        numbering == {q \in Procs \ {p} : At(q, "send write") /\ proc[q].channel = c}
    IN  /\ At(p, "send")
        /\ dirs' = dirs \cup {c}
        /\ Goto(p, [at |-> "send write", channel |-> c, name |-> proc[p].name,
                    seq |-> Cardinality(Names(c)) + 1])
        /\ crowded' = IF numbering = {} THEN crowded ELSE crowded \cup {c}
        /\ UNCHANGED <<files, delivered, subscriptions, seen, memory, stamp, faults,
                       scenario, returned, again, settled, overlapped>>

SendWrite(p) ==
    /\ At(p, "send write")
    /\ files' = files \cup {[channel |-> proc[p].channel, name |-> proc[p].name,
                             seq |-> proc[p].seq]}
    /\ Goto(p, Idle)
    /\ UNCHANGED <<dirs, delivered, subscriptions, seen, memory, stamp, faults,
                   scenario, history>>

-----------------------------------------------------------------------------
(* recv and unsubscribe: scan channels, then mark channel by channel.      *)

\* Enter the scan of the channels `targets`; `drain` for recv.
ScanOf(a, drain, targets, limit) ==
    [at |-> IF targets = {} THEN "mark" ELSE "scan", agent |-> a, drain |-> drain,
     left |-> targets, todo |-> {}, limit |-> limit, batch |-> {}]

\* recv without an explicit list drains the known channels it is subscribed
\* to; an explicit list is taken as it is.
RecvBegin(p, a, scope, limit) ==
    LET targets == IF scope = None THEN dirs \cap subscriptions[a] ELSE scope
    IN  /\ Begin(p, a, "recv")
        /\ Goto(p, ScanOf(a, TRUE, targets, limit))
        /\ NoteOverlap(p, a)
        /\ UNCHANGED <<mail, memory, stamp, faults, scenario, returned, again, settled, crowded>>

\* The first n names in the order of the file names.
Oldest(names, n) ==
    {name \in names : Cardinality({m \in names : m < name}) < n}

\* The names of the batch on channel c.
Found(p, c) == {m.name : m \in {m \in proc[p].batch : m.channel = c}}

\* One channel, in the order the file system lists them.  recv scans all of
\* them until the batch is full and then marks; unsubscribe marks a channel
\* before it scans the next.
Scan(p) ==
    LET s == proc[p]
    IN  /\ \/ s.at = "scan"
           \/ s.at = "mark" /\ s.todo = {} /\ ~s.drain
        /\ \E c \in s.left :
              LET found == IF s.drain THEN Oldest(Pending(s.agent, c), s.limit - Cardinality(s.batch))
                                      ELSE Pending(s.agent, c)
                  left == s.left \ {c}
              IN  Goto(p, [s EXCEPT !.at = IF s.drain /\ left # {} THEN "scan" ELSE "mark",
                                    !.left = left,
                                    !.todo = IF found = {} THEN @ ELSE @ \cup {c},
                                    !.batch = @ \cup [channel : {c}, name : found]])
        /\ UNCHANGED <<mail, memory, stamp, faults, scenario, history>>

\* Mutant of MarkRead: the marks already there are not kept.
MarkReadFresh(p) ==
    /\ At(p, "mark")
    /\ \E c \in proc[p].todo :
          Goto(p, [at |-> "mark write", agent |-> proc[p].agent, channel |-> c,
                   names |-> Found(p, c), then |-> [proc[p] EXCEPT !.todo = @ \ {c}]])
    /\ UNCHANGED <<mail, memory, stamp, faults, scenario, history>>

\* _mark_delivered: read the delivered file of the next channel ...
MarkRead(p) ==
    /\ At(p, "mark")
    /\ \E c \in proc[p].todo :
          Goto(p, [at |-> "mark write", agent |-> proc[p].agent, channel |-> c,
                   names |-> delivered[proc[p].agent][c] \cup Found(p, c),
                   then |-> [proc[p] EXCEPT !.todo = @ \ {c}]])
    /\ UNCHANGED <<mail, memory, stamp, faults, scenario, history>>

\* ... and replace it by the union.
MarkWrite(p) ==
    LET a == proc[p].agent
    IN  /\ At(p, "mark write")
        /\ delivered' = [delivered EXCEPT ![a][proc[p].channel] = proc[p].names]
        /\ settled' = [settled EXCEPT ![a] = @ \cup proc[p].names]
        /\ Goto(p, proc[p].then)
        /\ UNCHANGED <<files, dirs, subscriptions, seen, memory, stamp, faults, scenario,
                       returned, again, overlapped, crowded>>

\* recv returns the batch; unsubscribe returns how many it discarded.
Return(p) ==
    LET a == proc[p].agent
        names == IF proc[p].drain THEN {m.name : m \in proc[p].batch} ELSE {}
    IN  /\ At(p, "mark")
        /\ proc[p].todo = {}
        /\ proc[p].left = {}
        /\ returned' = [returned EXCEPT ![a] = @ \cup names]
        /\ again' = [again EXCEPT ![a] = @ \cup (names \cap returned[a])]
        /\ Goto(p, Idle)
        /\ UNCHANGED <<mail, memory, stamp, faults, scenario, settled, overlapped, crowded>>

-----------------------------------------------------------------------------
(* Subscriptions: the file is read, and replaced by what was read changed. *)

\* `new` is what the file will hold, `then` where the operation goes on.
RewritePatterns(p, a, new, then) ==
    /\ Goto(p, [at |-> "patterns", agent |-> a, new |-> new, then |-> then])
    /\ NoteOverlap(p, a)

\* A pattern that is there already is not written again.
Follow(p, a, c) ==
    IF c \in subscriptions[a]
    THEN UNCHANGED <<proc, overlapped>>
    ELSE RewritePatterns(p, a, subscriptions[a] \cup {c}, Idle)

Subscribe(p, a, c) ==
    /\ Begin(p, a, "subscribe")
    /\ Follow(p, a, c)
    /\ UNCHANGED <<mail, memory, stamp, faults, scenario, returned, again, settled, crowded>>

\* With no pattern removed, nothing is written and nothing is discarded.
Unsubscribe(p, a, channels) ==
    LET removed == subscriptions[a] \cap channels
    IN  /\ Begin(p, a, "unsubscribe")
        /\ removed # {}
        /\ RewritePatterns(p, a, subscriptions[a] \ removed,
                           ScanOf(a, FALSE, removed, MaxMessages))
        /\ UNCHANGED <<mail, memory, stamp, faults, scenario, returned, again, settled, crowded>>

PatternsWrite(p) ==
    /\ At(p, "patterns")
    /\ subscriptions' = [subscriptions EXCEPT ![proc[p].agent] = proc[p].new]
    /\ Goto(p, proc[p].then)
    /\ UNCHANGED <<files, dirs, delivered, seen, memory, stamp, faults, scenario, history>>

-----------------------------------------------------------------------------
(* watch: polls while the process is at rest.                              *)

\* Whatever is marked delivered on the channels of the agent counts as seen.
WatchStart(p, a) ==
    /\ Begin(p, a, "watch")
    /\ seen[p][a] = None
    /\ seen' = [seen EXCEPT ![p][a] =
                  UNION {delivered[a][c] : c \in dirs \cap subscriptions[a]}]
    /\ UNCHANGED <<files, dirs, delivered, subscriptions, memory, proc, stamp, faults,
                   scenario, history>>

\* Mutant of Unseen: a cursor, so that only names behind the last one are new.
UnseenBehind(p, a, c) == {n \in Names(c) : \A m \in seen[p][a] : m < n}

Unseen(p, a, c) == Names(c) \ seen[p][a]

\* One channel of a round: the names not seen before are yielded, unless they
\* are marked delivered, and count as seen.
WatchPoll(p, a) ==
    /\ At(p, "idle")
    /\ seen[p][a] # None
    /\ \E c \in dirs \cap subscriptions[a] :
          /\ Unseen(p, a, c) # {}
          /\ seen' = [seen EXCEPT ![p][a] = @ \cup Unseen(p, a, c)]
    /\ UNCHANGED <<files, dirs, delivered, subscriptions, memory, proc, stamp, faults,
                   scenario, history>>

-----------------------------------------------------------------------------
(* Heartbeats, acks and groups, in the memory of the process.              *)

Heartbeat(p, a, status) ==
    /\ Begin(p, a, "heartbeat")
    /\ liveness' = [liveness EXCEPT ![p][a] = status]
    /\ TakeStamp(p, Presence)
    /\ UNCHANGED <<mail, acks, groups, faults, scenario, history>>

\* Whether there is such a message is not looked at.
Ack(p, a, n) ==
    /\ Begin(p, a, "ack")
    /\ acks' = [acks EXCEPT ![p][n] = a]
    /\ UNCHANGED <<mail, liveness, groups, proc, stamp, faults, scenario, history>>

GroupCreate(p, a, g) ==
    /\ Begin(p, a, "groups")
    /\ groups' = [groups EXCEPT ![p][g] =
                    [b \in Agents |-> IF b = a THEN "active" ELSE "none"]]
    /\ Follow(p, a, g)
    /\ UNCHANGED <<mail, liveness, acks, stamp, faults, scenario, returned, again, settled, crowded>>

\* ValueError unless this process knows the caller as an active member.
GroupInvite(p, a, g, invitee) ==
    /\ Begin(p, a, "groups")
    /\ groups[p][g][a] = "active"
    /\ groups' = [groups EXCEPT ![p][g][invitee] = IF @ = "none" THEN "invited" ELSE @]
    /\ UNCHANGED <<mail, liveness, acks, proc, stamp, faults, scenario, history>>

\* Mutant of GroupJoin: the channel of the group is not followed.
GroupJoinDeaf(p, a, g) ==
    /\ Begin(p, a, "groups")
    /\ groups' = [groups EXCEPT ![p][g][a] = IF @ = "invited" THEN "active" ELSE @]
    /\ UNCHANGED <<mail, liveness, acks, proc, stamp, faults, scenario, history>>

\* Joining without an invitation known here makes nobody a member; the channel
\* is followed all the same.
GroupJoin(p, a, g) ==
    /\ Begin(p, a, "groups")
    /\ groups' = [groups EXCEPT ![p][g][a] = IF @ = "invited" THEN "active" ELSE @]
    /\ Follow(p, a, g)
    /\ UNCHANGED <<mail, liveness, acks, stamp, faults, scenario, returned, again, settled, crowded>>

GroupLeave(p, a, g) ==
    /\ Begin(p, a, "groups")
    /\ groups' = [groups EXCEPT ![p][g][a] = "none"]
    /\ RewritePatterns(p, a, subscriptions[a] \ {g}, Idle)
    /\ UNCHANGED <<mail, liveness, acks, stamp, faults, scenario, returned, again, settled, crowded>>

-----------------------------------------------------------------------------

\* The process dies: its memory and the operation in progress are gone.
Die(p) ==
    /\ faults < MaxFaults
    /\ faults' = faults + 1
    /\ Goto(p, Idle)
    /\ seen' = [seen EXCEPT ![p] = NoWatch]
    /\ liveness' = [liveness EXCEPT ![p] = [a \in Agents |-> None]]
    /\ acks' = [acks EXCEPT ![p] = NoAcks]
    /\ groups' = [groups EXCEPT ![p] = NoMembers]
    /\ UNCHANGED <<files, dirs, delivered, subscriptions, stamp, scenario, history>>

\* A process goes on with the operation it has begun.
Continue(p) ==
    \/ SendCount(p)
    \/ SendWrite(p)
    \/ Scan(p)
    \/ MarkRead(p)
    \/ MarkWrite(p)
    \/ Return(p)
    \/ PatternsWrite(p)

\* An agent calls an operation of a process, naming channels of the scenario.
Call(p, a) ==
    \/ \E c \in scenario.channels : Send(p, a, c)
    \/ \E cs \in {None} \cup (SUBSET scenario.channels \ {{}}), k \in Limits :
          RecvBegin(p, a, cs, k)
    \/ \E c \in scenario.channels : Subscribe(p, a, c)
    \/ \E cs \in SUBSET scenario.channels \ {{}} : Unsubscribe(p, a, cs)
    \/ WatchStart(p, a)
    \/ \E s \in Statuses : Heartbeat(p, a, s)
    \/ \E n \in 1 .. MaxMessages : Ack(p, a, n)
    \/ \E g \in Groups : GroupCreate(p, a, g)
    \/ \E g \in Groups, b \in Agents : GroupInvite(p, a, g, b)
    \/ \E g \in Groups : GroupJoin(p, a, g)
    \/ \E g \in Groups : GroupLeave(p, a, g)

Next ==
    \/ \E p \in Procs, a \in Agents : Call(p, a)
    \/ \E p \in Procs, a \in Agents : WatchPoll(p, a)
    \/ \E p \in Procs : Continue(p)
    \/ \E p \in Procs : Die(p)

\* An operation that has begun runs to its end, and the event loop of a process
\* resumes a waiting watch() again and again between other operations.
Spec ==
    /\ Init /\ [][Next]_vars
    /\ \A p \in Procs : WF_vars(Continue(p))
    /\ \A p \in Procs, a \in Agents : SF_vars(WatchPoll(p, a))

-----------------------------------------------------------------------------
(* Properties.                                                             *)

File == [channel : Channels, name : Nat \ {0}, seq : Nat]

\* Every variable holds a value of its kind; a name is used once; a file lies
\* in the directory of its channel.
TypeOK ==
    /\ files \subseteq File
    /\ \A f, g \in files : f.name = g.name => f = g
    /\ {f.channel : f \in files} \subseteq dirs
    /\ delivered \in [Agents -> [Channels -> SUBSET (1 .. stamp)]]
    /\ subscriptions \in [Agents -> SUBSET Channels]
    /\ seen \in [Procs -> [Agents -> (SUBSET (1 .. stamp)) \cup {None}]]
    /\ liveness \in [Procs -> [Agents -> Statuses \cup {None}]]
    /\ acks \in [Procs -> [1 .. MaxMessages -> Agents \cup {None}]]
    /\ groups \in [Procs -> [Groups -> [Agents -> {"none", "invited", "active"}]]]
    /\ DOMAIN proc = Procs
    /\ stamp \in 0 .. MaxMessages
    /\ faults \in 0 .. MaxFaults
    /\ {returned, again, settled} \subseteq [Agents -> SUBSET (1 .. stamp)]
    /\ overlapped \subseteq Agents
    /\ crowded \subseteq Channels

\* spec/ports/backing-store.md section 2.2: recv returns no message to an agent
\* twice, and what a drain or an unsubscribe has settled stays settled, whatever
\* other processes send or drain for other agents, and wherever one dies.  The
\* delivered file is rewritten without a lock, so this needs that no two
\* processes drain or unsubscribe for the agent at the same time.
DrainsAreExact ==
    \A a \in Agents \ overlapped :
        /\ again[a] = {}
        /\ settled[a] = UNION {delivered[a][c] : c \in Channels}
        /\ returned[a] \subseteq settled[a]

\* spec/ports/backing-store.md section 3.3: the messages of a channel are
\* numbered 1, 2, 3, ... without gap or duplicate, though the number is a count
\* of files taken before the file is written, and senders die in between; this
\* needs that no two processes send on the channel at the same time.
SeqGapFree ==
    \A c \in Channels \ crowded :
        LET here == {f \in files : f.channel = c}
        IN  /\ {f.seq : f \in here} = 1 .. Cardinality(here)

\* An active member of a group gets what is sent to the group: as long as the
\* process that keeps the group is the only one its agent uses, is between two
\* operations and nobody unsubscribes, the member is subscribed to the group's
\* channel.
MembersFollow ==
    \A p \in Procs, a \in Agents, g \in Groups :
        /\ groups[p][g][a] = "active"
        /\ \A q \in Procs : <<q, a>> \in scenario.callers => q = p
        /\ At(p, "idle")
        /\ "unsubscribe" \notin scenario.operations
        => g \in subscriptions[a]

\* Nothing on a channel the agent follows is new to its watch().
CaughtUp(p, a) ==
    seen[p][a] # None => \A c \in dirs \cap subscriptions[a] : Names(c) \subseteq seen[p][a]

\* spec/ports/backing-store.md section 2.5: watch() skips nothing.  Again and
\* again it has seen all there is on the channels its agent follows, although a
\* file may appear after files with later names were seen, drains and new
\* subscriptions come between two rounds, and processes die.
WatchSees == \A p \in Procs, a \in Agents : []<>CaughtUp(p, a)

=============================================================================
