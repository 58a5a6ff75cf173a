----------------------- MODULE FilesystemStore_proofs -----------------------
(***************************************************************************)
(* Proofs about FilesystemStore, for any number of processes, agents,      *)
(* channels, groups, messages and deaths, and any mix of operations.       *)
(*                                                                         *)
(* The invariant Inv is in parts, one per concern, and each part is kept   *)
(* for its own reason: a stamp is taken once (NamesOK), a channel that is  *)
(* not crowded has one process numbering (NumbersOK), an agent that is not *)
(* overlapped has one process rewriting its files (DrainsOK), and a member *)
(* of a group is subscribed by the step that makes it one (MembersOK).     *)
(***************************************************************************)
EXTENDS FilesystemStore, FiniteSetTheorems, TLAPS

-----------------------------------------------------------------------------
(* The inductive invariant.                                                *)

\* The states of a process, when n stamps have been taken.
ScanState(n) ==
    [at : {"scan", "mark"}, agent : Agents, drain : BOOLEAN, left : SUBSET Channels,
     todo : SUBSET Channels, limit : Limits \cup {MaxMessages},
     batch : SUBSET [channel : Channels, name : 1 .. n]]

ProcState(n) ==
    UNION {{Idle},
           [at : {"send"}, channel : Channels, name : 1 .. n],
           [at : {"send write"}, channel : Channels, name : 1 .. n, seq : Nat],
           ScanState(n),
           [at : {"mark write"}, agent : Agents, channel : Channels,
            names : SUBSET (1 .. n), then : ScanState(n)],
           [at : {"patterns"}, agent : Agents, new : SUBSET Channels,
            then : {Idle} \cup ScanState(n)]}

Sending(p) == proc[p].at \in {"send", "send write"}

Scanning(p) == proc[p].at \in {"scan", "mark"}

\* A name is taken by one sender, and by no file before the sender writes it.
NamesOK ==
    /\ IsFiniteSet(files)
    /\ \A f \in files : f \in File /\ f.name \in 1 .. stamp /\ f.channel \in dirs
    /\ \A f, g \in files : f.name = g.name => f = g
    /\ \A p \in Procs : Sending(p) => \A f \in files : f.name # proc[p].name
    /\ \A p, q \in Procs : Sending(p) /\ Sending(q) /\ proc[p].name = proc[q].name => p = q
    /\ \A p \in Procs : At(p, "send write") => proc[p].channel \in dirs

\* An operation goes on for the agent it was begun for.
ThenOK(s) ==
    /\ s.at = "mark write" => s.then.agent = s.agent
    /\ s.at = "patterns" /\ s.then # Idle =>
          s.then.agent = s.agent /\ s.then.todo = {} /\ s.then.batch = {}

ProcsOK ==
    /\ proc = [p \in Procs |-> proc[p]]
    /\ \A p \in Procs : proc[p] \in ProcState(stamp) /\ ThenOK(proc[p])

Here(c) == {f \in files : f.channel = c}

\* On a channel that is not crowded one process at most is numbering, and the
\* number it holds is the next one.
Numbered(c) ==
    /\ Cardinality(Names(c)) = Cardinality(Here(c))
    /\ {f.seq : f \in Here(c)} = 1 .. Cardinality(Here(c))
    /\ \A p, q \in Procs :
          /\ At(p, "send write") /\ proc[p].channel = c
          /\ At(q, "send write") /\ proc[q].channel = c
          => p = q
    /\ \A p \in Procs : At(p, "send write") /\ proc[p].channel = c
                           => proc[p].seq = Cardinality(Here(c)) + 1

NumbersOK == \A c \in Channels \ crowded : Numbered(c)

\* Only names of files of the channel are found on it, marked or about to be.
BatchFound(s) == \A m \in s.batch : m.name \in Names(m.channel)

Carried(p) ==
    /\ Scanning(p) => BatchFound(proc[p])
    /\ At(p, "mark write") =>
          proc[p].names \subseteq Names(proc[p].channel) /\ BatchFound(proc[p].then)

FoundOK ==
    /\ \A a \in Agents, c \in Channels : delivered[a][c] \subseteq Names(c)
    /\ \A p \in Procs : Carried(p)

\* The batch s of a is new to a; what is not on the channels in todo or on c is marked.
BatchOK(a, s, cs) ==
    \A m \in s.batch : /\ m.name \notin returned[a]
                       /\ m.channel \in cs \/ m.name \in delivered[a][m.channel]

RewritesFor(a, p) == Rewriting(p) /\ proc[p].agent = a

\* What p is about to write for a is what is there and what it has found.
Held(a, p) ==
    /\ Scanning(p) => BatchOK(a, proc[p], proc[p].todo)
    /\ At(p, "mark write") =>
          /\ BatchOK(a, proc[p].then, proc[p].then.todo \cup {proc[p].channel})
          /\ delivered[a][proc[p].channel] \subseteq proc[p].names
          /\ \A m \in proc[p].then.batch :
                m.channel = proc[p].channel => m.name \in proc[p].names

\* What recv has returned to a, what is marked and what was marked agree.
Accounted(a) ==
    /\ again[a] = {}
    /\ settled[a] = UNION {delivered[a][c] : c \in Channels}
    /\ returned[a] \subseteq settled[a]

\* One process at most rewrites the files of a.
Drained(a) ==
    /\ Accounted(a)
    /\ \A p \in Procs : RewritesFor(a, p) => Held(a, p)
    /\ \A p, q \in Procs : RewritesFor(a, p) /\ RewritesFor(a, q) => p = q

DrainsOK == \A a \in Agents \ overlapped : Drained(a)

\* The agent uses this process alone and unsubscribes from nothing.
Settled(p, a) ==
    /\ \A q \in Procs : <<q, a>> \in scenario.callers => q = p
    /\ "unsubscribe" \notin scenario.operations

\* A member is subscribed, or about to be.
Subscribed(p, a, g) ==
    IF At(p, "patterns") /\ proc[p].agent = a
    THEN g \in proc[p].new
    ELSE g \in subscriptions[a]

MembersOK ==
    /\ scenario \in Scenarios
    /\ \A p \in Procs : At(p, "patterns") => <<p, proc[p].agent>> \in scenario.callers
    /\ \A p \in Procs, a \in Agents, g \in Groups :
          groups[p][g][a] = "active" /\ Settled(p, a) => Subscribed(p, a, g)

Inv ==
    /\ TypeOK
    /\ ProcsOK
    /\ NamesOK
    /\ NumbersOK
    /\ FoundOK
    /\ DrainsOK
    /\ MembersOK

-----------------------------------------------------------------------------
(* What the steps do to files, marks and operations in progress.           *)

\* A process at rest begins to rewrite the patterns of an agent.
Rewrites(p) ==
    \E a \in Agents, new \in SUBSET Channels : \E then :
        /\ At(p, "idle") /\ <<p, a>> \in scenario.callers
        /\ \/ then = Idle
           \/ \E targets \in SUBSET Channels : then = ScanOf(a, FALSE, targets, MaxMessages)
        /\ RewritePatterns(p, a, new, then)
        /\ UNCHANGED <<mail, stamp, returned, again, settled, crowded>>

\* A process at rest takes a stamp for a message on some channel.
Stamps(p) ==
    /\ At(p, "idle")
    /\ \E c \in Channels : TakeStamp(p, c)
    /\ UNCHANGED <<mail, history>>

core == <<files, dirs, delivered, proc, stamp, history>>

LEMMA ScenarioOK ==
    ASSUME scenario \in Scenarios
    PROVE  /\ scenario.channels \subseteq Channels
           /\ scenario.callers \subseteq Procs \X Agents
           /\ scenario.followed \subseteq Channels
  BY FilesystemAssumption

LEMMA FollowCases ==
    ASSUME TypeOK, NEW p \in Procs, NEW a \in Agents, NEW c \in Channels,
           At(p, "idle"), <<p, a>> \in scenario.callers, Follow(p, a, c),
           UNCHANGED <<mail, stamp, returned, again, settled, crowded>>
    PROVE  Rewrites(p) \/ UNCHANGED core
<1>1. CASE c \in subscriptions[a]
  BY <1>1 DEF Follow, core, mail, history
<1>2. CASE c \notin subscriptions[a]
  <2>1. subscriptions[a] \cup {c} \in SUBSET Channels
    BY DEF TypeOK
  <2> QED
    BY <1>2, <2>1 DEF Follow, Rewrites
<1> QED
  BY <1>1, <1>2

\* Every step is one of these, seen from the files and the operations.
LEMMA CoreCases ==
    ASSUME TypeOK, scenario \in Scenarios, [Next]_vars
    PROVE  \/ \E p \in Procs : Stamps(p) \/ Rewrites(p)
           \/ \E p \in Procs, a \in Agents, limit \in Limits,
                 scope \in {None} \cup SUBSET Channels : RecvBegin(p, a, scope, limit)
           \/ \E p \in Procs : Continue(p) \/ Die(p)
           \/ UNCHANGED core
<1>1. CASE UNCHANGED vars
  BY <1>1 DEF vars, core
<1>2. ASSUME NEW p \in Procs, NEW a \in Agents, WatchPoll(p, a)
      PROVE  UNCHANGED core
  BY <1>2 DEF WatchPoll, core
<1>3. ASSUME NEW p \in Procs, NEW a \in Agents, Call(p, a)
      PROVE  \/ Stamps(p) \/ Rewrites(p)
             \/ \E limit \in Limits, scope \in {None} \cup SUBSET Channels :
                   RecvBegin(p, a, scope, limit)
             \/ UNCHANGED core
  <2>1. scenario.channels \subseteq Channels /\ Groups \subseteq Channels
        /\ Presence \in Channels
    BY ScenarioOK, FilesystemAssumption
  <2>2. ASSUME NEW c \in scenario.channels, Send(p, a, c)
        PROVE  Stamps(p)
    BY <2>1, <2>2 DEF Send, Begin, Stamps
  <2>3. ASSUME NEW c \in scenario.channels, Subscribe(p, a, c)
        PROVE  Rewrites(p) \/ UNCHANGED core
    BY <2>1, <2>3, FollowCases DEF Subscribe, Begin
  <2>4. ASSUME NEW cs \in SUBSET scenario.channels, Unsubscribe(p, a, cs)
        PROVE  Rewrites(p)
    <3> DEFINE removed == subscriptions[a] \cap cs
               new == subscriptions[a] \ removed
               then == ScanOf(a, FALSE, removed, MaxMessages)
    <3>1. removed \in SUBSET Channels /\ new \in SUBSET Channels
      BY DEF TypeOK
    <3>2. /\ At(p, "idle") /\ <<p, a>> \in scenario.callers
          /\ RewritePatterns(p, a, new, then)
          /\ UNCHANGED <<mail, stamp, returned, again, settled, crowded>>
      BY <2>4 DEF Unsubscribe, Begin
    <3>3. \E targets \in SUBSET Channels : then = ScanOf(a, FALSE, targets, MaxMessages)
      BY <3>1
    <3> HIDE DEF new, then
    <3> QED
      BY <3>1, <3>2, <3>3 DEF Rewrites
  <2>5. CASE WatchStart(p, a)
    BY <2>5 DEF WatchStart, core
  <2>6. ASSUME NEW s \in Statuses, Heartbeat(p, a, s)
        PROVE  Stamps(p)
    BY <2>1, <2>6 DEF Heartbeat, Begin, Stamps
  <2>7. ASSUME NEW n, Ack(p, a, n)
        PROVE  UNCHANGED core
    BY <2>7 DEF Ack, core, mail
  <2>8. ASSUME NEW g \in Groups, GroupCreate(p, a, g)
        PROVE  Rewrites(p) \/ UNCHANGED core
    BY <2>1, <2>8, FollowCases DEF GroupCreate, Begin
  <2>9. ASSUME NEW g \in Groups, NEW b \in Agents, GroupInvite(p, a, g, b)
        PROVE  UNCHANGED core
    BY <2>9 DEF GroupInvite, core, mail
  <2>10. ASSUME NEW g \in Groups, GroupJoin(p, a, g)
         PROVE  Rewrites(p) \/ UNCHANGED core
    BY <2>1, <2>10, FollowCases DEF GroupJoin, Begin
  <2>11. ASSUME NEW g \in Groups, GroupLeave(p, a, g)
         PROVE  Rewrites(p)
    <3>1. subscriptions[a] \ {g} \in SUBSET Channels
      BY DEF TypeOK
    <3> QED
      BY <2>11, <3>1 DEF GroupLeave, Begin, Rewrites
  <2> QED
    BY <1>3, <2>1, <2>2, <2>3, <2>4, <2>5, <2>6, <2>7, <2>8, <2>9, <2>10, <2>11 DEF Call
<1> QED
  BY <1>1, <1>2, <1>3 DEF Next

-----------------------------------------------------------------------------
(* The states of the processes.                                            *)

LEMMA StatesGrow ==
    ASSUME NEW n \in Nat, NEW m \in Nat, n <= m
    PROVE  /\ ScanState(n) \subseteq ScanState(m)
           /\ ProcState(n) \subseteq ProcState(m)
<1>1. 1 .. n \subseteq 1 .. m
  OBVIOUS
<1>2. ScanState(n) \subseteq ScanState(m)
  BY <1>1 DEF ScanState
<1>3. ASSUME NEW s \in ProcState(n)
      PROVE  s \in ProcState(m)
  <2>1. CASE s = Idle
    BY <2>1 DEF ProcState
  <2>2. CASE s \in [at : {"send"}, channel : Channels, name : 1 .. n]
    BY <1>1, <2>2 DEF ProcState
  <2>3. CASE s \in [at : {"send write"}, channel : Channels, name : 1 .. n, seq : Nat]
    BY <1>1, <2>3 DEF ProcState
  <2>4. CASE s \in ScanState(n)
    BY <1>2, <2>4 DEF ProcState
  <2>5. CASE s \in [at : {"mark write"}, agent : Agents, channel : Channels,
                    names : SUBSET (1 .. n), then : ScanState(n)]
    BY <1>1, <1>2, <2>5 DEF ProcState
  <2>6. CASE s \in [at : {"patterns"}, agent : Agents, new : SUBSET Channels,
                    then : {Idle} \cup ScanState(n)]
    BY <1>2, <2>6 DEF ProcState
  <2> QED
    BY <2>1, <2>2, <2>3, <2>4, <2>5, <2>6 DEF ProcState
<1> QED
  BY <1>2, <1>3

LEMMA IdleIsIdle == Idle.at = "idle"
  BY DEF Idle

LEMMA ScanFields ==
    ASSUME NEW n, NEW s \in ScanState(n)
    PROVE  /\ s.at \in {"scan", "mark"} /\ s.agent \in Agents /\ s.drain \in BOOLEAN
           /\ s.left \subseteq Channels /\ s.todo \subseteq Channels
           /\ s.limit \in Limits \cup {MaxMessages}
           /\ s.batch \subseteq [channel : Channels, name : 1 .. n]
           /\ s # Idle /\ ThenOK(s)
           /\ s = [at |-> s.at, agent |-> s.agent, drain |-> s.drain, left |-> s.left,
                   todo |-> s.todo, limit |-> s.limit, batch |-> s.batch]
<1>1. s.at \in {"scan", "mark"}
  BY DEF ScanState
<1> QED
  BY <1>1, IdleIsIdle DEF ScanState, ThenOK

\* Where a process is tells what it holds.
LEMMA ShapeOf ==
    ASSUME NEW n, NEW s \in ProcState(n)
    PROVE  \/ s.at = "idle" /\ s = Idle
           \/ s.at = "send" /\ s \in [at : {"send"}, channel : Channels, name : 1 .. n]
           \/ /\ s.at = "send write"
              /\ s \in [at : {"send write"}, channel : Channels, name : 1 .. n, seq : Nat]
           \/ s.at \in {"scan", "mark"} /\ s \in ScanState(n)
           \/ /\ s.at = "mark write"
              /\ s \in [at : {"mark write"}, agent : Agents, channel : Channels,
                        names : SUBSET (1 .. n), then : ScanState(n)]
           \/ /\ s.at = "patterns"
              /\ s \in [at : {"patterns"}, agent : Agents, new : SUBSET Channels,
                        then : {Idle} \cup ScanState(n)]
<1>1. CASE s = Idle
  BY <1>1, IdleIsIdle
<1>2. CASE s \in [at : {"send"}, channel : Channels, name : 1 .. n]
  BY <1>2
<1>3. CASE s \in [at : {"send write"}, channel : Channels, name : 1 .. n, seq : Nat]
  BY <1>3
<1>4. CASE s \in ScanState(n)
  BY <1>4, ScanFields
<1>5. CASE s \in [at : {"mark write"}, agent : Agents, channel : Channels,
                  names : SUBSET (1 .. n), then : ScanState(n)]
  BY <1>5
<1>6. CASE s \in [at : {"patterns"}, agent : Agents, new : SUBSET Channels,
                  then : {Idle} \cup ScanState(n)]
  BY <1>6
<1> QED
  BY <1>1, <1>2, <1>3, <1>4, <1>5, <1>6 DEF ProcState

LEMMA Shapes ==
    ASSUME ProcsOK, NEW p \in Procs
    PROVE  /\ At(p, "send") => proc[p].channel \in Channels /\ proc[p].name \in 1 .. stamp
           /\ At(p, "send write") =>
                 proc[p].channel \in Channels /\ proc[p].name \in 1 .. stamp /\ proc[p].seq \in Nat
           /\ Scanning(p) => proc[p] \in ScanState(stamp)
           /\ At(p, "mark write") =>
                 /\ proc[p].agent \in Agents /\ proc[p].channel \in Channels
                 /\ proc[p].names \subseteq 1 .. stamp /\ proc[p].then \in ScanState(stamp)
                 /\ proc[p].then.agent = proc[p].agent
           /\ At(p, "patterns") =>
                 /\ proc[p].agent \in Agents /\ proc[p].new \subseteq Channels
                 /\ \/ proc[p].then = Idle
                    \/ /\ proc[p].then \in ScanState(stamp)
                       /\ proc[p].then.agent = proc[p].agent
                       /\ proc[p].then.todo = {} /\ proc[p].then.batch = {}
<1>1. PICK s : s = proc[p] /\ s \in ProcState(stamp) /\ ThenOK(s)
  BY DEF ProcsOK
<1>2. s.at = "send" => s.channel \in Channels /\ s.name \in 1 .. stamp
  BY <1>1, ShapeOf
<1>3. s.at = "send write" => s.channel \in Channels /\ s.name \in 1 .. stamp /\ s.seq \in Nat
  BY <1>1, ShapeOf
<1>4. s.at \in {"scan", "mark"} => s \in ScanState(stamp)
  BY <1>1, ShapeOf
<1>5. s.at = "mark write" => /\ s.agent \in Agents /\ s.channel \in Channels
                             /\ s.names \subseteq 1 .. stamp /\ s.then \in ScanState(stamp)
                             /\ s.then.agent = s.agent
  BY <1>1, ShapeOf DEF ThenOK
<1>6. s.at = "patterns" => /\ s.agent \in Agents /\ s.new \subseteq Channels
                           /\ \/ s.then = Idle
                              \/ /\ s.then \in ScanState(stamp)
                                 /\ s.then.agent = s.agent
                                 /\ s.then.todo = {} /\ s.then.batch = {}
  <2>1. ASSUME s.at = "patterns"
        PROVE  s \in [at : {"patterns"}, agent : Agents, new : SUBSET Channels,
                      then : {Idle} \cup ScanState(stamp)]
    BY <1>1, <2>1, ShapeOf
  <2>2. ASSUME s.at = "patterns", s.then # Idle
        PROVE  s.then.agent = s.agent /\ s.then.todo = {} /\ s.then.batch = {}
    BY <1>1, <2>2 DEF ThenOK
  <2> QED
    BY <2>1, <2>2
<1> QED
  BY <1>1, <1>2, <1>3, <1>4, <1>5, <1>6 DEF At, Scanning

\* One process moves.
Moves(p, state) ==
    /\ proc'[p] = state
    /\ \A q \in Procs \ {p} : proc'[q] = proc[q]

LEMMA GotoMoves ==
    ASSUME ProcsOK, NEW p \in Procs, NEW state, Goto(p, state)
    PROVE  Moves(p, state) /\ proc' = [q \in Procs |-> proc'[q]]
  BY DEF ProcsOK, Goto, Moves

LEMMA GotoKeeps ==
    ASSUME ProcsOK, NEW p \in Procs, stamp \in Nat, stamp' \in Nat, stamp <= stamp',
           NEW state \in ProcState(stamp'), ThenOK(state), Goto(p, state)
    PROVE  ProcsOK'
<1>1. Moves(p, state) /\ proc' = [q \in Procs |-> proc'[q]]
  BY GotoMoves
<1>2. ASSUME NEW q \in Procs
      PROVE  proc'[q] \in ProcState(stamp') /\ ThenOK(proc'[q])
  BY <1>1, StatesGrow DEF Moves, ProcsOK
<1>3. \A q \in Procs : (proc[q] \in ProcState(stamp) /\ ThenOK(proc[q]))'
  BY <1>2 DEF ProcState, ScanState, ThenOK
<1> QED
  BY <1>1, <1>3 DEF ProcsOK

-----------------------------------------------------------------------------
(* The steps of an operation.                                              *)

Base == TypeOK /\ ProcsOK /\ NamesOK

LEMMA StampsNat == ASSUME Base PROVE stamp \in Nat
  BY DEF Base, TypeOK

LEMMA NamesAreStamps ==
    ASSUME Base, NEW c
    PROVE  Names(c) \subseteq 1 .. stamp /\ IsFiniteSet(Names(c)) /\ IsFiniteSet(Here(c))
<1>1. Names(c) \subseteq 1 .. stamp
  BY DEF Base, NamesOK, Names
<1>2. IsFiniteSet(Names(c))
  <2>1. IsFiniteSet(1 .. stamp)
    BY StampsNat, FS_Interval
  <2> QED
    BY <1>1, <2>1, FS_Subset
<1>3. IsFiniteSet(Here(c))
  BY FS_Subset DEF Base, NamesOK, Here
<1> QED
  BY <1>1, <1>2, <1>3

LEMMA FreshScan ==
    ASSUME Base, NEW a \in Agents, NEW drain \in BOOLEAN, NEW targets \in SUBSET Channels,
           NEW limit \in Limits \cup {MaxMessages}
    PROVE  /\ ScanOf(a, drain, targets, limit) \in ScanState(stamp)
           /\ ScanOf(a, drain, targets, limit).agent = a
           /\ ScanOf(a, drain, targets, limit).todo = {}
           /\ ScanOf(a, drain, targets, limit).batch = {}
  BY DEF ScanOf, ScanState

\* A scan adds to the batch names that wait for the agent on one channel.
LEMMA ScanEffect ==
    ASSUME Base, NEW p \in Procs, Scan(p)
    PROVE  \E c \in Channels : \E found, state :
              /\ Scanning(p) /\ Goto(p, state)
              /\ found \subseteq Pending(proc[p].agent, c)
              /\ state \in ScanState(stamp) /\ state.agent = proc[p].agent
              /\ proc[p].todo \subseteq state.todo /\ (found # {} => c \in state.todo)
              /\ state.batch = proc[p].batch \cup [channel : {c}, name : found]
              /\ UNCHANGED <<mail, memory, stamp, faults, scenario, history>>
<1>1. PICK s : s = proc[p]
  OBVIOUS
<1>2. Scanning(p) /\ s \in ScanState(stamp)
  <2>1. Scanning(p)
    BY DEF Scan, Scanning
  <2> QED
    BY <1>1, <2>1, Shapes DEF Base
<1>3. PICK c, found, at, left, todo :
         /\ c \in s.left
         /\ found \subseteq Pending(s.agent, c)
         /\ at \in {"scan", "mark"} /\ left = s.left \ {c}
         /\ todo = IF found = {} THEN s.todo ELSE s.todo \cup {c}
         /\ Goto(p, [s EXCEPT !.at = at, !.left = left, !.todo = todo,
                              !.batch = s.batch \cup [channel : {c}, name : found]])
  BY <1>1 DEF Scan, Oldest
<1>4. PICK batch : batch = s.batch \cup [channel : {c}, name : found]
  OBVIOUS
<1>5. PICK state : state = [at |-> at, agent |-> s.agent, drain |-> s.drain, left |-> left,
                            todo |-> todo, limit |-> s.limit, batch |-> batch]
  OBVIOUS
<1>6. Goto(p, state)
  <2>1. PICK new : new = [s EXCEPT !.at = at, !.left = left, !.todo = todo, !.batch = batch]
    OBVIOUS
  <2>2. new = state
    <3>1. DOMAIN s = {"at", "agent", "drain", "left", "todo", "limit", "batch"}
      BY <1>2 DEF ScanState
    <3>2. /\ DOMAIN new = DOMAIN s /\ new = [x \in DOMAIN new |-> new[x]]
          /\ new.at = at /\ new.left = left /\ new.todo = todo /\ new.batch = batch
          /\ new.agent = s.agent /\ new.drain = s.drain /\ new.limit = s.limit
      BY <2>1, <3>1
    <3> QED
      BY <1>5, <3>1, <3>2
  <2> QED
    BY <1>3, <1>4, <2>1, <2>2
<1>7. /\ s.agent \in Agents /\ s.drain \in BOOLEAN /\ s.left \subseteq Channels
      /\ s.todo \subseteq Channels /\ s.limit \in Limits \cup {MaxMessages}
      /\ s.batch \subseteq [channel : Channels, name : 1 .. stamp]
  BY <1>2, ScanFields
<1>8. c \in Channels /\ found \subseteq 1 .. stamp
  BY <1>3, <1>7, NamesAreStamps DEF Pending
<1>9. batch \subseteq [channel : Channels, name : 1 .. stamp]
  BY <1>4, <1>7, <1>8
<1>10. state \in ScanState(stamp)
  BY <1>3, <1>5, <1>7, <1>8, <1>9 DEF ScanState
<1>11. UNCHANGED <<mail, memory, stamp, faults, scenario, history>>
  BY DEF Scan
<1> QED
  BY <1>1, <1>2, <1>3, <1>4, <1>5, <1>6, <1>8, <1>10, <1>11

\* Before a delivered file is replaced, it is read.
LEMMA MarkReadEffect ==
    ASSUME Base, NEW p \in Procs, MarkRead(p)
    PROVE  \E c \in proc[p].todo : \E then, state :
              /\ Scanning(p) /\ Goto(p, state) /\ c \in Channels
              /\ then \in ScanState(stamp) /\ then.agent = proc[p].agent
              /\ then.todo = proc[p].todo \ {c} /\ then.batch = proc[p].batch
              /\ state = [at |-> "mark write", agent |-> proc[p].agent, channel |-> c,
                          names |-> delivered[proc[p].agent][c] \cup Found(p, c),
                          then |-> then]
              /\ UNCHANGED <<mail, memory, stamp, faults, scenario, history>>
<1>1. PICK s : s = proc[p]
  OBVIOUS
<1>2. Scanning(p) /\ s \in ScanState(stamp) /\ s.at = "mark"
  <2>1. proc[p].at = "mark"
    BY DEF MarkRead, At
  <2>2. Scanning(p)
    BY <2>1 DEF Scanning
  <2> QED
    BY <1>1, <2>1, <2>2, Shapes DEF Base
<1>3. PICK c \in s.todo :
         Goto(p, [at |-> "mark write", agent |-> s.agent, channel |-> c,
                  names |-> delivered[s.agent][c] \cup Found(p, c),
                  then |-> [s EXCEPT !.todo = s.todo \ {c}]])
  BY <1>1 DEF MarkRead
<1>4. PICK then : then = [at |-> s.at, agent |-> s.agent, drain |-> s.drain, left |-> s.left,
                          todo |-> s.todo \ {c}, limit |-> s.limit, batch |-> s.batch]
  OBVIOUS
<1>5. [s EXCEPT !.todo = s.todo \ {c}] = then
  BY <1>2, <1>4, ScanFields
<1>6. /\ s.agent \in Agents /\ s.drain \in BOOLEAN /\ s.left \subseteq Channels
      /\ s.todo \subseteq Channels /\ s.limit \in Limits \cup {MaxMessages}
      /\ s.batch \subseteq [channel : Channels, name : 1 .. stamp]
      /\ s.at \in {"scan", "mark"}
  BY <1>2, ScanFields
<1>7. then \in ScanState(stamp)
  BY <1>4, <1>6 DEF ScanState
<1>8. UNCHANGED <<mail, memory, stamp, faults, scenario, history>>
  BY DEF MarkRead
<1> QED
  BY <1>1, <1>2, <1>3, <1>4, <1>5, <1>6, <1>7, <1>8

LEMMA FoundAreStamps ==
    ASSUME Base, NEW p \in Procs, Scanning(p), NEW c
    PROVE  Found(p, c) \subseteq 1 .. stamp
<1>1. proc[p].batch \subseteq [channel : Channels, name : 1 .. stamp]
  BY Shapes, ScanFields DEF Base
<1> QED
  BY <1>1 DEF Found

\* The states stay well-formed.
LEMMA ProcsKeep ==
    ASSUME Base, scenario \in Scenarios, [Next]_vars
    PROVE  ProcsOK'
<1>0. ProcsOK /\ stamp \in Nat /\ TypeOK
  BY StampsNat DEF Base
<1>1. ASSUME NEW p \in Procs, Stamps(p)
      PROVE  ProcsOK'
  <2>1. PICK c \in Channels : TakeStamp(p, c)
    BY <1>1 DEF Stamps
  <2>2. PICK state : /\ state = [at |-> "send", channel |-> c, name |-> stamp + 1]
                     /\ Goto(p, state) /\ stamp' = stamp + 1
    BY <2>1 DEF TakeStamp
  <2>3. state \in ProcState(stamp') /\ ThenOK(state)
    <3>1. state \in [at : {"send"}, channel : Channels, name : 1 .. stamp'] /\ state.at = "send"
      BY <1>0, <2>2
    <3> QED
      BY <3>1 DEF ProcState, ThenOK
  <2> QED
    BY <1>0, <2>2, <2>3, GotoKeeps
<1>2. ASSUME NEW p \in Procs, Rewrites(p)
      PROVE  ProcsOK'
  <2>1. PICK a \in Agents, new \in SUBSET Channels : \E then :
           /\ \/ then = Idle
              \/ \E targets \in SUBSET Channels : then = ScanOf(a, FALSE, targets, MaxMessages)
           /\ RewritePatterns(p, a, new, then)
           /\ UNCHANGED stamp
    BY <1>2 DEF Rewrites
  <2>2. PICK then : /\ \/ then = Idle
                       \/ /\ then \in ScanState(stamp) /\ then.agent = a
                          /\ then.todo = {} /\ then.batch = {}
                    /\ RewritePatterns(p, a, new, then)
                    /\ UNCHANGED stamp
    <3>1. \A targets \in SUBSET Channels :
             LET s == ScanOf(a, FALSE, targets, MaxMessages)
             IN  s \in ScanState(stamp) /\ s.agent = a /\ s.todo = {} /\ s.batch = {}
      BY FreshScan
    <3> QED
      BY <2>1, <3>1
  <2>3. PICK state : /\ state = [at |-> "patterns", agent |-> a, new |-> new, then |-> then]
                     /\ Goto(p, state)
    BY <2>2 DEF RewritePatterns
  <2>4. state \in ProcState(stamp') /\ ThenOK(state)
    BY <2>2, <2>3 DEF ProcState, ThenOK
  <2> QED
    BY <1>0, <2>2, <2>3, <2>4, GotoKeeps
<1>3. ASSUME NEW p \in Procs, Goto(p, Idle), stamp' = stamp
      PROVE  ProcsOK'
  <2>1. Idle \in ProcState(stamp') /\ ThenOK(Idle)
    BY IdleIsIdle DEF ProcState, ThenOK
  <2> QED
    BY <1>0, <1>3, <2>1, GotoKeeps
<1>4. ASSUME NEW p \in Procs, NEW state \in ScanState(stamp), Goto(p, state), stamp' = stamp
      PROVE  ProcsOK'
  <2>1. state \in ProcState(stamp') /\ ThenOK(state)
    BY <1>4, ScanFields DEF ProcState
  <2> QED
    BY <1>0, <1>4, <2>1, GotoKeeps
<1>5. ASSUME NEW p \in Procs, NEW a \in Agents, NEW limit \in Limits,
             NEW scope \in {None} \cup SUBSET Channels, RecvBegin(p, a, scope, limit)
      PROVE  ProcsOK'
  <2>1. PICK targets : targets = IF scope = None THEN dirs \cap subscriptions[a] ELSE scope
    OBVIOUS
  <2>2. targets \subseteq Channels
    BY <1>0, <2>1 DEF TypeOK
  <2>3. PICK state : state = ScanOf(a, TRUE, targets, limit) /\ Goto(p, state)
    BY <1>5, <2>1 DEF RecvBegin
  <2>4. state \in ScanState(stamp)
    BY <2>2, <2>3, FreshScan
  <2>5. Goto(p, state) /\ stamp' = stamp
    BY <1>5, <2>3 DEF RecvBegin
  <2> QED
    BY <1>4, <2>4, <2>5
<1>6. ASSUME NEW p \in Procs, SendCount(p)
      PROVE  ProcsOK'
  <2>1. PICK c, seq : c = proc[p].channel /\ seq = Cardinality(Names(c)) + 1
    OBVIOUS
  <2>2. PICK state : /\ state = [at |-> "send write", channel |-> c, name |-> proc[p].name,
                                 seq |-> seq]
                     /\ Goto(p, state) /\ stamp' = stamp /\ At(p, "send")
    BY <1>6, <2>1 DEF SendCount
  <2>3. c \in Channels /\ proc[p].name \in 1 .. stamp
    BY <1>0, <2>1, <2>2, Shapes
  <2>4. seq \in Nat
    <3>1. Cardinality(Names(c)) \in Nat
      BY NamesAreStamps, FS_CardinalityType
    <3> QED
      BY <2>1, <3>1
  <2>5. Goto(p, state) /\ stamp' = stamp
    BY <2>2
  <2>6. state \in ProcState(stamp') /\ ThenOK(state)
    BY <2>2, <2>3, <2>4 DEF ProcState, ThenOK
  <2> QED
    BY <1>0, <2>5, <2>6, GotoKeeps
<1>7. ASSUME NEW p \in Procs, MarkRead(p)
      PROVE  ProcsOK'
  <2>1. PICK c, then, state :
              /\ Scanning(p) /\ Goto(p, state) /\ c \in Channels
              /\ then \in ScanState(stamp) /\ then.agent = proc[p].agent
              /\ state = [at |-> "mark write", agent |-> proc[p].agent, channel |-> c,
                          names |-> delivered[proc[p].agent][c] \cup Found(p, c),
                          then |-> then]
              /\ stamp' = stamp
    BY <1>7, MarkReadEffect
  <2>2. proc[p].agent \in Agents
    BY <1>0, <2>1, Shapes, ScanFields
  <2>3. Found(p, c) \subseteq 1 .. stamp /\ delivered[proc[p].agent][c] \subseteq 1 .. stamp
    <3>1. Scanning(p) /\ c \in Channels
      BY <2>1
    <3> QED
      BY <1>0, <2>2, <3>1, FoundAreStamps DEF TypeOK
  <2>4. PICK names : /\ names = delivered[proc[p].agent][c] \cup Found(p, c)
                     /\ names \subseteq 1 .. stamp
    BY <2>3
  <2>5. Goto(p, state) /\ stamp' = stamp
    BY <2>1
  <2>6. state = [at |-> "mark write", agent |-> proc[p].agent, channel |-> c,
                 names |-> names, then |-> then]
    BY <2>1, <2>4
  <2>7. c \in Channels /\ then \in ScanState(stamp) /\ then.agent = proc[p].agent
    BY <2>1
  <2>8. state \in ProcState(stamp') /\ ThenOK(state)
    BY <2>2, <2>4, <2>5, <2>6, <2>7 DEF ProcState, ThenOK
  <2> QED
    BY <1>0, <2>5, <2>8, GotoKeeps
<1>8. ASSUME NEW p \in Procs, Continue(p)
      PROVE  ProcsOK'
  <2>1. CASE SendWrite(p) \/ Return(p)
    BY <1>3, <2>1 DEF SendWrite, Return
  <2>2. CASE Scan(p)
    BY <1>4, <2>2, ScanEffect
  <2>3. CASE MarkWrite(p)
    <3>1. proc[p].then \in ScanState(stamp)
      BY <1>0, <2>3, Shapes DEF MarkWrite
    <3> QED
      BY <1>4, <2>3, <3>1 DEF MarkWrite
  <2>4. CASE PatternsWrite(p)
    <3>1. proc[p].then = Idle \/ proc[p].then \in ScanState(stamp)
      BY <1>0, <2>4, Shapes DEF PatternsWrite
    <3> QED
      BY <1>3, <1>4, <2>4, <3>1 DEF PatternsWrite
  <2> QED
    BY <1>6, <1>7, <1>8, <2>1, <2>2, <2>3, <2>4 DEF Continue
<1>9. ASSUME NEW p \in Procs, Die(p)
      PROVE  ProcsOK'
  BY <1>3, <1>9 DEF Die
<1>10. CASE UNCHANGED core
  BY <1>0, <1>10 DEF core, ProcsOK, ProcState, ScanState, ThenOK
<1> QED
  BY <1>0, <1>1, <1>2, <1>5, <1>8, <1>9, <1>10, CoreCases

-----------------------------------------------------------------------------
(* Files and senders.                                                      *)

\* A process moves, and is not sending afterwards; no file is written.
Quiet(p) ==
    /\ \E state : Moves(p, state) /\ state.at \notin {"send", "send write"}
    /\ UNCHANGED <<files, dirs, stamp, crowded>>

LEMMA GotoQuiet ==
    ASSUME ProcsOK, NEW p \in Procs, NEW state, Goto(p, state),
           state.at \notin {"send", "send write"}, UNCHANGED <<files, dirs, stamp, crowded>>
    PROVE  Quiet(p)
  BY GotoMoves DEF Quiet

\* Seen from the files, every step is one of these.
LEMMA FileCases ==
    ASSUME Base, scenario \in Scenarios, [Next]_vars
    PROVE  \/ \E p \in Procs : Stamps(p) \/ SendCount(p) \/ SendWrite(p) \/ Quiet(p)
           \/ UNCHANGED core
<1>0. ProcsOK /\ TypeOK
  BY DEF Base
<1>1. ASSUME NEW p \in Procs, Rewrites(p)
      PROVE  Quiet(p)
  <2>1. PICK a, new, then : /\ RewritePatterns(p, a, new, then)
                            /\ UNCHANGED <<mail, stamp, crowded>>
    BY <1>1 DEF Rewrites
  <2>2. PICK state : state = [at |-> "patterns", agent |-> a, new |-> new, then |-> then]
                     /\ Goto(p, state)
    BY <2>1 DEF RewritePatterns
  <2>3. state.at = "patterns"
    BY <2>2
  <2> QED
    BY <1>0, <2>1, <2>2, <2>3, GotoQuiet DEF mail
<1>2. ASSUME NEW p \in Procs, NEW a \in Agents, NEW limit \in Limits,
             NEW scope \in {None} \cup SUBSET Channels, RecvBegin(p, a, scope, limit)
      PROVE  Quiet(p)
  <2>1. PICK targets : targets = IF scope = None THEN dirs \cap subscriptions[a] ELSE scope
    OBVIOUS
  <2>2. targets \subseteq Channels
    BY <1>0, <2>1 DEF TypeOK
  <2>3. PICK state : state = ScanOf(a, TRUE, targets, limit) /\ Goto(p, state)
    BY <1>2, <2>1 DEF RecvBegin
  <2>4. state.at \in {"scan", "mark"}
    BY <2>2, <2>3, FreshScan, ScanFields
  <2>5. UNCHANGED <<files, dirs, stamp, crowded>>
    BY <1>2 DEF RecvBegin, mail
  <2> QED
    BY <1>0, <2>3, <2>4, <2>5, GotoQuiet
<1>3. ASSUME NEW p \in Procs, Goto(p, Idle), UNCHANGED <<files, dirs, stamp, crowded>>
      PROVE  Quiet(p)
  BY <1>0, <1>3, IdleIsIdle, GotoQuiet
<1>4. ASSUME NEW p \in Procs, NEW state \in ScanState(stamp), Goto(p, state),
             UNCHANGED <<files, dirs, stamp, crowded>>
      PROVE  Quiet(p)
  BY <1>0, <1>4, ScanFields, GotoQuiet
<1>5. ASSUME NEW p \in Procs, Continue(p)
      PROVE  SendCount(p) \/ SendWrite(p) \/ Quiet(p)
  <2>1. CASE Return(p)
    BY <1>3, <2>1 DEF Return, mail
  <2>2. CASE Scan(p)
    BY <1>4, <2>2, ScanEffect DEF mail, history
  <2>3. CASE MarkWrite(p)
    <3>1. proc[p].then \in ScanState(stamp)
      BY <1>0, <2>3, Shapes DEF MarkWrite
    <3> QED
      BY <1>4, <2>3, <3>1 DEF MarkWrite
  <2>4. CASE PatternsWrite(p)
    <3>1. proc[p].then = Idle \/ proc[p].then \in ScanState(stamp)
      BY <1>0, <2>4, Shapes DEF PatternsWrite
    <3> QED
      BY <1>3, <1>4, <2>4, <3>1 DEF PatternsWrite, history
  <2>5. CASE MarkRead(p)
    <3>1. PICK c, then, state :
             /\ Goto(p, state)
             /\ state = [at |-> "mark write", agent |-> proc[p].agent, channel |-> c,
                         names |-> delivered[proc[p].agent][c] \cup Found(p, c),
                         then |-> then]
             /\ UNCHANGED <<mail, memory, stamp, faults, scenario, history>>
      BY <2>5, MarkReadEffect
    <3>2. Goto(p, state) /\ state.at = "mark write"
      BY <3>1
    <3>3. UNCHANGED <<files, dirs, stamp, crowded>>
      BY <3>1 DEF mail, history
    <3> QED
      BY <1>0, <3>2, <3>3, GotoQuiet
  <2> QED
    BY <1>5, <2>1, <2>2, <2>3, <2>4, <2>5 DEF Continue
<1>6. ASSUME NEW p \in Procs, Die(p)
      PROVE  Quiet(p)
  BY <1>3, <1>6 DEF Die, history
<1> QED
  BY <1>0, <1>1, <1>2, <1>5, <1>6, CoreCases

\* NamesOK, fact by fact.
LEMMA NamesFacts ==
    ASSUME NamesOK
    PROVE  /\ IsFiniteSet(files)
           /\ \A f \in files : f \in File
           /\ \A f \in files : f.name \in 1 .. stamp
           /\ \A f \in files : f.channel \in dirs
           /\ \A f, g \in files : f.name = g.name => f = g
           /\ \A p \in Procs : Sending(p) => \A f \in files : f.name # proc[p].name
           /\ \A p, q \in Procs : Sending(p) /\ Sending(q) /\ proc[p].name = proc[q].name => p = q
           /\ \A p \in Procs : At(p, "send write") => proc[p].channel \in dirs
  BY DEF NamesOK

\* The stamp never goes back.
LEMMA StampGrows ==
    ASSUME Base, scenario \in Scenarios, [Next]_vars
    PROVE  stamp' \in Nat /\ stamp <= stamp'
<1>1. stamp \in Nat
  BY StampsNat
<1>2. ASSUME NEW p \in Procs, Stamps(p)
      PROVE  stamp' = stamp + 1
  BY <1>2 DEF Stamps, TakeStamp
<1>3. ASSUME NEW p \in Procs, SendCount(p) \/ SendWrite(p) \/ Quiet(p)
      PROVE  stamp' = stamp
  BY <1>3 DEF SendCount, SendWrite, Quiet
<1>5. stamp' = stamp \/ stamp' = stamp + 1
  <2>1. \/ \E p \in Procs : Stamps(p) \/ SendCount(p) \/ SendWrite(p) \/ Quiet(p)
        \/ UNCHANGED core
    BY FileCases
  <2>2. UNCHANGED core => stamp' = stamp
    BY DEF core
  <2> QED
    BY <1>2, <1>3, <2>1, <2>2
<1> QED
  BY <1>1, <1>5

\* Names stay apart.
LEMMA NamesKeep ==
    ASSUME Base, scenario \in Scenarios, [Next]_vars
    PROVE  NamesOK'
<1>0. ProcsOK /\ NamesOK /\ stamp \in Nat
  BY StampsNat DEF Base
<1>a. /\ IsFiniteSet(files)
      /\ \A f \in files : f \in File
      /\ \A f \in files : f.channel \in dirs
      /\ \A f, g \in files : f.name = g.name => f = g
  BY <1>0, NamesFacts
<1>b. \A f \in files : f.name \in 1 .. stamp
  BY <1>0, NamesFacts
<1>c. \A p \in Procs : Sending(p) => \A f \in files : f.name # proc[p].name
  BY <1>0, NamesFacts
<1>d. \A p, q \in Procs : Sending(p) /\ Sending(q) /\ proc[p].name = proc[q].name => p = q
  BY <1>0, NamesFacts
<1>e. \A p \in Procs : At(p, "send write") => proc[p].channel \in dirs
  BY <1>0, NamesFacts
<1>1. ASSUME NEW p \in Procs, Stamps(p)
      PROVE  NamesOK'
  <2>1. PICK c \in Channels : TakeStamp(p, c)
    BY <1>1 DEF Stamps
  <2>2. PICK state : /\ state = [at |-> "send", channel |-> c, name |-> stamp + 1]
                     /\ Goto(p, state) /\ stamp' = stamp + 1
    BY <2>1 DEF TakeStamp
  <2>3. Moves(p, state) /\ state.name = stamp + 1 /\ state.at = "send"
    BY <1>0, <2>2, GotoMoves
  <2>4. files' = files /\ dirs' = dirs
    BY <1>1 DEF Stamps, mail
  <2>5. \A q \in Procs : Sending(q) => proc[q].name \in 1 .. stamp
    BY <1>0, Shapes DEF Sending, At
  <2>7. ASSUME NEW q \in Procs, Sending(q)'
        PROVE  IF q = p THEN proc'[q].name = stamp + 1
               ELSE proc'[q].name = proc[q].name /\ Sending(q) /\ proc[q].name \in 1 .. stamp
    BY <2>3, <2>5, <2>7 DEF Moves, Sending
  <2>8. \A q \in Procs : At(q, "send write")' => proc'[q].channel \in dirs
    BY <1>e, <2>3 DEF Moves, At
  <2>9. \A f \in files : f.name \in 1 .. stamp'
    <3>1. stamp' = stamp + 1
      BY <2>2
    <3>2. 1 .. stamp \subseteq 1 .. stamp'
      BY <1>0, <3>1
    <3> QED
      BY <1>b, <3>2
  <2>10. ASSUME NEW q \in Procs, Sending(q)', NEW f \in files
         PROVE  f.name # proc'[q].name
    <3>1. stamp + 1 \notin 1 .. stamp
      BY <1>0
    <3> QED
      BY <1>b, <1>c, <2>7, <2>10, <3>1
  <2>11. \A q, r \in Procs : Sending(q)' /\ Sending(r)' /\ proc'[q].name = proc'[r].name
                                => q = r
    <3> SUFFICES ASSUME NEW q \in Procs, NEW r \in Procs, Sending(q)', Sending(r)',
                        proc'[q].name = proc'[r].name
                 PROVE  q = r
      OBVIOUS
    <3>1. q # p => proc'[q].name = proc[q].name /\ Sending(q) /\ proc[q].name \in 1 .. stamp
      BY <2>7
    <3>2. r # p => proc'[r].name = proc[r].name /\ Sending(r) /\ proc[r].name \in 1 .. stamp
      BY <2>7
    <3>3. q = p => proc'[q].name = stamp + 1
      BY <2>7
    <3>4. r = p => proc'[r].name = stamp + 1
      BY <2>7
    <3>5. stamp + 1 \notin 1 .. stamp
      BY <1>0
    <3> QED
      BY <1>d, <3>1, <3>2, <3>3, <3>4, <3>5
  <2> QED
    BY <1>a, <2>4, <2>8, <2>9, <2>10, <2>11 DEF NamesOK, File
<1>2. ASSUME NEW p \in Procs, SendCount(p)
      PROVE  NamesOK'
  <2>1. PICK c, seq : c = proc[p].channel /\ seq = Cardinality(Names(c)) + 1
    OBVIOUS
  <2>2. PICK state : /\ state = [at |-> "send write", channel |-> c, name |-> proc[p].name,
                                 seq |-> seq]
                     /\ Goto(p, state)
    BY <1>2, <2>1 DEF SendCount
  <2>3. /\ At(p, "send") /\ stamp' = stamp /\ files' = files /\ dirs' = dirs \cup {c}
    BY <1>2, <2>1 DEF SendCount
  <2>4. Moves(p, state) /\ state.name = proc[p].name /\ state.channel = c
    BY <1>0, <2>2, GotoMoves
  <2>5. Sending(p)
    BY <2>3 DEF Sending, At
  <2>6. \A q \in Procs : Sending(q)' => Sending(q) /\ proc'[q].name = proc[q].name
    BY <2>4, <2>5 DEF Moves, Sending
  <2>7. \A q \in Procs : At(q, "send write")' => proc'[q].channel \in dirs'
    BY <1>e, <2>3, <2>4 DEF Moves, At
  <2>8. \A q \in Procs : Sending(q)' => \A f \in files : f.name # proc'[q].name
    BY <1>c, <2>6
  <2>9. \A q, r \in Procs : Sending(q)' /\ Sending(r)' /\ proc'[q].name = proc'[r].name => q = r
    BY <1>d, <2>6
  <2> QED
    BY <1>a, <1>b, <2>3, <2>7, <2>8, <2>9 DEF NamesOK, File
<1>3. ASSUME NEW p \in Procs, SendWrite(p)
      PROVE  NamesOK'
  <2>1. PICK new : new = [channel |-> proc[p].channel, name |-> proc[p].name, seq |-> proc[p].seq]
    OBVIOUS
  <2>2. /\ At(p, "send write") /\ Goto(p, Idle) /\ stamp' = stamp /\ dirs' = dirs
        /\ files' = files \cup {new}
    BY <1>3, <2>1 DEF SendWrite
  <2>3. Moves(p, Idle) /\ Sending(p)
    BY <1>0, <2>2, GotoMoves DEF Sending, At
  <2>4. /\ proc[p].channel \in Channels /\ proc[p].name \in 1 .. stamp /\ proc[p].seq \in Nat
        /\ proc[p].channel \in dirs
    BY <1>0, <1>e, <2>2, Shapes
  <2>5. new \in File /\ new.name = proc[p].name /\ new.channel \in dirs
    BY <1>0, <2>1, <2>4 DEF File
  <2>6. \A f \in files : f.name # new.name
    BY <1>c, <2>3, <2>5
  <2>7. \A q \in Procs : Sending(q)' => q # p /\ Sending(q) /\ proc'[q] = proc[q]
    BY <2>3, IdleIsIdle DEF Moves, Sending
  <2>8. IsFiniteSet(files')
    BY <1>a, <2>2, FS_AddElement
  <2>9. \A q \in Procs : Sending(q)' => \A f \in files' : f.name # proc'[q].name
    BY <1>c, <1>d, <2>2, <2>3, <2>5, <2>7
  <2>10. \A q, r \in Procs : Sending(q)' /\ Sending(r)' /\ proc'[q].name = proc'[r].name => q = r
    BY <1>d, <2>7
  <2>11. \A q \in Procs : At(q, "send write")' => proc'[q].channel \in dirs'
    BY <1>e, <2>2, <2>3, IdleIsIdle DEF Moves, At
  <2>12. \A f \in files' : f \in File /\ f.name \in 1 .. stamp' /\ f.channel \in dirs'
    BY <1>a, <1>b, <2>2, <2>4, <2>5
  <2>13. \A f, g \in files' : f.name = g.name => f = g
    BY <1>a, <2>2, <2>6
  <2> QED
    BY <2>8, <2>9, <2>10, <2>11, <2>12, <2>13 DEF NamesOK, File
<1>4. ASSUME NEW p \in Procs, Quiet(p)
      PROVE  NamesOK'
  <2>1. PICK state : Moves(p, state) /\ state.at \notin {"send", "send write"}
    BY <1>4 DEF Quiet
  <2>2. \A q \in Procs : Sending(q)' => Sending(q) /\ proc'[q] = proc[q]
    BY <2>1 DEF Moves, Sending
  <2>3. \A q \in Procs : At(q, "send write")' => At(q, "send write") /\ proc'[q] = proc[q]
    BY <2>1 DEF Moves, At
  <2>4. files' = files /\ dirs' = dirs /\ stamp' = stamp
    BY <1>4 DEF Quiet
  <2>5. \A q \in Procs : Sending(q)' => \A f \in files : f.name # proc'[q].name
    BY <1>c, <2>2
  <2>6. \A q, r \in Procs : Sending(q)' /\ Sending(r)' /\ proc'[q].name = proc'[r].name => q = r
    BY <1>d, <2>2
  <2>7. \A q \in Procs : At(q, "send write")' => proc'[q].channel \in dirs
    BY <1>e, <2>3
  <2> QED
    BY <1>a, <1>b, <2>4, <2>5, <2>6, <2>7 DEF NamesOK, File
<1>5. CASE UNCHANGED core
  <2>1. proc' = proc /\ files' = files /\ dirs' = dirs /\ stamp' = stamp
    BY <1>5 DEF core
  <2>2. \A q \in Procs : (Sending(q)' => Sending(q)) /\ (At(q, "send write")' => At(q, "send write"))
    BY <2>1 DEF Sending, At
  <2> QED
    BY <1>a, <1>b, <1>c, <1>d, <1>e, <2>1, <2>2 DEF NamesOK, File
<1> QED
  BY <1>1, <1>2, <1>3, <1>4, <1>5, FileCases

-----------------------------------------------------------------------------
(* Numbers.                                                                *)

\* A channel stays numbered when nobody new is numbering and no file is added.
LEMMA NumberedStays ==
    ASSUME NEW c, Numbered(c), files' = files,
           \A q \in Procs : At(q, "send write")' => At(q, "send write") /\ proc'[q] = proc[q]
    PROVE  Numbered(c)'
<1>1. Names(c)' = Names(c) /\ Here(c)' = Here(c)
  BY DEF Names, Here
<1>2. \A p, q \in Procs :
         /\ At(p, "send write")' /\ proc'[p].channel = c
         /\ At(q, "send write")' /\ proc'[q].channel = c
         => p = q
  BY DEF Numbered
<1>3. \A p \in Procs : At(p, "send write")' /\ proc'[p].channel = c
                          => proc'[p].seq = Cardinality(Here(c)) + 1
  BY DEF Numbered
<1>4. Cardinality(Names(c)) = Cardinality(Here(c)) /\ {f.seq : f \in Here(c)} = 1 .. Cardinality(Here(c))
  BY DEF Numbered
<1> QED
  BY <1>1, <1>2, <1>3, <1>4 DEF Numbered

LEMMA NumbersKeep ==
    ASSUME Base, NumbersOK, scenario \in Scenarios, [Next]_vars
    PROVE  NumbersOK'
<1>0. ProcsOK /\ NamesOK
  BY DEF Base
<1>1. ASSUME files' = files, crowded' = crowded,
             \A q \in Procs : At(q, "send write")' => At(q, "send write") /\ proc'[q] = proc[q]
      PROVE  NumbersOK'
  BY <1>1, NumberedStays DEF NumbersOK
<1>2. ASSUME NEW p \in Procs, Stamps(p)
      PROVE  NumbersOK'
  <2>1. PICK c \in Channels : TakeStamp(p, c)
    BY <1>2 DEF Stamps
  <2>2. PICK state : /\ state = [at |-> "send", channel |-> c, name |-> stamp']
                     /\ Goto(p, state)
    BY <2>1 DEF TakeStamp
  <2>3. Moves(p, state) /\ state.at = "send"
    BY <1>0, <2>2, GotoMoves
  <2>4. files' = files /\ crowded' = crowded
    BY <1>2 DEF Stamps, mail, history
  <2>5. \A q \in Procs : At(q, "send write")' => At(q, "send write") /\ proc'[q] = proc[q]
    BY <2>3 DEF Moves, At
  <2> QED
    BY <1>1, <2>4, <2>5
<1>3. ASSUME NEW p \in Procs, Quiet(p)
      PROVE  NumbersOK'
  <2>1. PICK state : Moves(p, state) /\ state.at \notin {"send", "send write"}
    BY <1>3 DEF Quiet
  <2>2. \A q \in Procs : At(q, "send write")' => At(q, "send write") /\ proc'[q] = proc[q]
    BY <2>1 DEF Moves, At
  <2> QED
    BY <1>1, <1>3, <2>2 DEF Quiet
<1>4. CASE UNCHANGED core
  <2>1. \A q \in Procs : At(q, "send write")' => At(q, "send write") /\ proc'[q] = proc[q]
    BY <1>4 DEF core, At
  <2> QED
    BY <1>1, <1>4, <2>1 DEF core, history
<1>5. ASSUME NEW p \in Procs, SendCount(p)
      PROVE  NumbersOK'
  <2>1. PICK c, seq : c = proc[p].channel /\ seq = Cardinality(Names(c)) + 1
    OBVIOUS
  <2>2. PICK state : /\ state = [at |-> "send write", channel |-> c, name |-> proc[p].name,
                                 seq |-> seq]
                     /\ Goto(p, state)
    BY <1>5, <2>1 DEF SendCount
  <2>3. /\ files' = files
        /\ crowded' = IF {q \in Procs \ {p} : At(q, "send write") /\ proc[q].channel = c} = {}
                      THEN crowded ELSE crowded \cup {c}
    BY <1>5, <2>1 DEF SendCount
  <2>4. Moves(p, state) /\ state.channel = c /\ state.seq = seq
    BY <1>0, <2>2, GotoMoves
  <2> SUFFICES ASSUME NEW d \in Channels \ crowded'
               PROVE  Numbered(d)'
    BY DEF NumbersOK
  <2>5. Numbered(d) /\ d \notin crowded
    BY <2>3 DEF NumbersOK
  <2>6. Names(d)' = Names(d) /\ Here(d)' = Here(d)
    BY <2>3 DEF Names, Here
  <2>7. d = c => \A q \in Procs \ {p} : ~(At(q, "send write") /\ proc[q].channel = c)
    BY <2>3
  <2>8. \A q \in Procs : q # p => proc'[q] = proc[q] /\ (At(q, "send write")' => At(q, "send write"))
    BY <2>4 DEF Moves, At
  <2>9. proc'[p].channel = c /\ proc'[p].seq = seq
    BY <2>4 DEF Moves
  <2>10. \A q, r \in Procs :
            /\ At(q, "send write")' /\ proc'[q].channel = d
            /\ At(r, "send write")' /\ proc'[r].channel = d
            => q = r
    BY <2>5, <2>7, <2>8, <2>9 DEF Numbered
  <2>11. Cardinality(Names(d)) = Cardinality(Here(d)) /\ {f.seq : f \in Here(d)} = 1 .. Cardinality(Here(d))
    BY <2>5 DEF Numbered
  <2>12. \A q \in Procs : At(q, "send write")' /\ proc'[q].channel = d
                             => proc'[q].seq = Cardinality(Here(d)) + 1
    <3>1. \A q \in Procs : At(q, "send write") /\ proc[q].channel = d
                              => proc[q].seq = Cardinality(Here(d)) + 1
      BY <2>5 DEF Numbered
    <3>2. d = c => seq = Cardinality(Here(d)) + 1
      BY <2>1, <2>11
    <3> QED
      BY <2>8, <2>9, <3>1, <3>2
  <2> QED
    BY <2>6, <2>10, <2>11, <2>12 DEF Numbered
<1>6. ASSUME NEW p \in Procs, SendWrite(p)
      PROVE  NumbersOK'
  <2>1. PICK c, new : /\ c = proc[p].channel
                      /\ new = [channel |-> c, name |-> proc[p].name, seq |-> proc[p].seq]
    OBVIOUS
  <2>2. /\ At(p, "send write") /\ Goto(p, Idle) /\ crowded' = crowded
        /\ files' = files \cup {new}
    BY <1>6, <2>1 DEF SendWrite, history
  <2>3. Moves(p, Idle) /\ Sending(p)
    BY <1>0, <2>2, GotoMoves DEF Sending, At
  <2>4. new.channel = c /\ new.name = proc[p].name /\ new.seq = proc[p].seq
    BY <2>1
  <2>5. \A f \in files : f.name # new.name
    BY <1>0, <2>3, <2>4, NamesFacts
  <2>6. \A q \in Procs : At(q, "send write")' => q # p /\ At(q, "send write") /\ proc'[q] = proc[q]
    BY <2>3, IdleIsIdle DEF Moves, At
  <2> SUFFICES ASSUME NEW d \in Channels \ crowded'
               PROVE  Numbered(d)'
    BY DEF NumbersOK
  <2>7. Numbered(d)
    BY <2>2 DEF NumbersOK
  <2>8. /\ Cardinality(Names(d)) = Cardinality(Here(d))
        /\ {f.seq : f \in Here(d)} = 1 .. Cardinality(Here(d))
        /\ At(p, "send write") /\ proc[p].channel = d => proc[p].seq = Cardinality(Here(d)) + 1
    BY <2>7 DEF Numbered
  <2>9. \A q, r \in Procs :
            /\ At(q, "send write")' /\ proc'[q].channel = d
            /\ At(r, "send write")' /\ proc'[r].channel = d
            => q = r
    BY <2>6, <2>7 DEF Numbered
  <2>10. CASE d # c
    <3>1. Here(d)' = Here(d)
      BY <2>2, <2>4, <2>10 DEF Here
    <3>2. Names(d)' = {f.name : f \in Here(d)'} /\ Names(d) = {f.name : f \in Here(d)}
      BY DEF Names, Here
    <3>3. Names(d)' = Names(d)
      BY <3>1, <3>2
    <3>4. \A q \in Procs : At(q, "send write")' /\ proc'[q].channel = d
                              => proc'[q].seq = Cardinality(Here(d)) + 1
      BY <2>6, <2>7 DEF Numbered
    <3> QED
      BY <2>8, <2>9, <3>1, <3>3, <3>4 DEF Numbered
  <2>11. CASE d = c
    <3>1. Here(d)' = Here(d) \cup {new} /\ new \notin Here(d)
      BY <2>2, <2>4, <2>5, <2>11 DEF Here
    <3>2. Names(d)' = {f.name : f \in Here(d)'} /\ Names(d) = {f.name : f \in Here(d)}
      BY DEF Names, Here
    <3>3. Names(d)' = Names(d) \cup {new.name} /\ new.name \notin Names(d)
      BY <2>5, <3>1, <3>2 DEF Here
    <3>4. PICK n : n = Cardinality(Here(d))
      OBVIOUS
    <3>5. n \in Nat /\ Cardinality(Here(d)') = n + 1 /\ Cardinality(Names(d)') = n + 1
      <4>1. IsFiniteSet(Here(d)) /\ IsFiniteSet(Names(d))
        BY NamesAreStamps
      <4>2. n \in Nat
        BY <3>4, <4>1, FS_CardinalityType
      <4>3. Cardinality(Here(d)') = n + 1
        BY <3>1, <3>4, <4>1, FS_AddElement
      <4>4. Cardinality(Names(d)') = n + 1
        BY <2>8, <3>3, <3>4, <4>1, FS_AddElement
      <4> QED
        BY <4>2, <4>3, <4>4
    <3>6. {f.seq : f \in Here(d)'} = 1 .. n + 1
      <4>1. new.seq = n + 1
        BY <2>1, <2>2, <2>4, <2>8, <2>11, <3>4
      <4>2. {f.seq : f \in Here(d)'} = {f.seq : f \in Here(d)} \cup {n + 1}
        BY <3>1, <4>1
      <4>3. 1 .. n + 1 = 1 .. n \cup {n + 1}
        BY <3>5
      <4> QED
        BY <2>8, <3>4, <4>2, <4>3
    <3>7. \A q \in Procs : ~(At(q, "send write")' /\ proc'[q].channel = d)
      BY <2>1, <2>2, <2>6, <2>7, <2>11 DEF Numbered
    <3> QED
      BY <3>5, <3>6, <3>7 DEF Numbered
  <2> QED
    BY <2>10, <2>11
<1> QED
  BY <1>2, <1>3, <1>4, <1>5, <1>6, FileCases

-----------------------------------------------------------------------------
(* Who changes what.                                                       *)

Groupwise(p, a) ==
    \/ \E g \in Groups : GroupCreate(p, a, g) \/ GroupJoin(p, a, g) \/ GroupLeave(p, a, g)
    \/ \E g \in Groups, b \in Agents : GroupInvite(p, a, g, b)

Dies == \E p \in Procs : Die(p)

Changes ==
    /\ scenario' = scenario
    /\ faults' = faults \/ Dies
    /\ subscriptions' = subscriptions \/ \E p \in Procs : PatternsWrite(p)
    /\ seen' = seen \/ Dies \/ \E p \in Procs, a \in Agents : WatchStart(p, a) \/ WatchPoll(p, a)
    /\ liveness' = liveness \/ Dies
          \/ \E p \in Procs, a \in Agents, s \in Statuses : Heartbeat(p, a, s)
    /\ acks' = acks \/ Dies
          \/ \E p \in Procs, a \in Agents, n \in 1 .. MaxMessages : Ack(p, a, n)
    /\ groups' = groups \/ Dies \/ \E p \in Procs, a \in Agents : Groupwise(p, a)
    /\ (delivered' = delivered /\ settled' = settled) \/ \E p \in Procs : MarkWrite(p)
    /\ (returned' = returned /\ again' = again) \/ \E p \in Procs : Return(p)
    /\ stamp' = stamp \/ (stamp < MaxMessages /\ stamp' = stamp + 1)

LEMMA CallChanges ==
    ASSUME NEW p \in Procs, NEW a \in Agents, Call(p, a)
    PROVE  Changes
<1>1. ASSUME NEW c \in scenario.channels, Send(p, a, c)
      PROVE  Changes
  BY <1>1 DEF Send, TakeStamp, Changes, mail, memory, history
<1>2. ASSUME NEW cs, NEW k, RecvBegin(p, a, cs, k)
      PROVE  Changes
  BY <1>2 DEF RecvBegin, Changes, mail, memory
<1>3. ASSUME NEW c, Subscribe(p, a, c)
      PROVE  Changes
  BY <1>3 DEF Subscribe, Changes, mail, memory
<1>4. ASSUME NEW cs, Unsubscribe(p, a, cs)
      PROVE  Changes
  BY <1>4 DEF Unsubscribe, Changes, mail, memory
<1>5. CASE WatchStart(p, a)
  BY <1>5 DEF WatchStart, Changes, memory, history
<1>6. ASSUME NEW s \in Statuses, Heartbeat(p, a, s)
      PROVE  Changes
  BY <1>6 DEF Heartbeat, TakeStamp, Changes, mail, history
<1>7. ASSUME NEW n \in 1 .. MaxMessages, Ack(p, a, n)
      PROVE  Changes
  BY <1>7 DEF Ack, Changes, mail, history
<1>8. ASSUME NEW g \in Groups, GroupCreate(p, a, g)
      PROVE  Changes
  <2>1. Groupwise(p, a)
    BY <1>8 DEF Groupwise
  <2> QED
    BY <1>8, <2>1 DEF GroupCreate, Changes, mail
<1>9. ASSUME NEW g \in Groups, NEW b \in Agents, GroupInvite(p, a, g, b)
      PROVE  Changes
  <2>1. Groupwise(p, a)
    BY <1>9 DEF Groupwise
  <2> QED
    BY <1>9, <2>1 DEF GroupInvite, Changes, mail, history
<1>10. ASSUME NEW g \in Groups, GroupJoin(p, a, g)
       PROVE  Changes
  <2>1. Groupwise(p, a)
    BY <1>10 DEF Groupwise
  <2> QED
    BY <1>10, <2>1 DEF GroupJoin, Changes, mail
<1>11. ASSUME NEW g \in Groups, GroupLeave(p, a, g)
       PROVE  Changes
  <2>1. Groupwise(p, a)
    BY <1>11 DEF Groupwise
  <2> QED
    BY <1>11, <2>1 DEF GroupLeave, Changes, mail
<1> QED
  BY <1>1, <1>2, <1>3, <1>4, <1>5, <1>6, <1>7, <1>8, <1>9, <1>10, <1>11 DEF Call

LEMMA StepChanges ==
    ASSUME [Next]_vars
    PROVE  Changes
<1>1. CASE UNCHANGED vars
  BY <1>1 DEF vars, Changes, history
<1>2. ASSUME NEW p \in Procs, NEW a \in Agents, WatchPoll(p, a)
      PROVE  Changes
  BY <1>2 DEF WatchPoll, Changes, memory, history
<1>3. ASSUME NEW p \in Procs, Die(p)
      PROVE  Changes
  <2>1. Dies
    BY <1>3 DEF Dies
  <2> QED
    BY <1>3, <2>1 DEF Die, Changes, history
<1>4. ASSUME NEW p \in Procs, Continue(p)
      PROVE  Changes
  <2>1. CASE SendCount(p)
    BY <2>1 DEF SendCount, Changes, memory
  <2>2. CASE SendWrite(p)
    BY <2>2 DEF SendWrite, Changes, memory, history
  <2>3. CASE Scan(p)
    BY <2>3 DEF Scan, Changes, mail, memory, history
  <2>4. CASE MarkRead(p)
    BY <2>4 DEF MarkRead, Changes, mail, memory, history
  <2>5. CASE MarkWrite(p)
    <3>1. UNCHANGED <<subscriptions, seen, memory, stamp, faults, scenario, returned, again>>
      BY <2>5 DEF MarkWrite
    <3> QED
      BY <2>5, <3>1 DEF Changes, memory
  <2>6. CASE Return(p)
    <3>1. UNCHANGED <<mail, memory, stamp, faults, scenario, settled>>
      BY <2>6 DEF Return
    <3> QED
      BY <2>6, <3>1 DEF Changes, mail, memory
  <2>7. CASE PatternsWrite(p)
    <3>1. UNCHANGED <<delivered, seen, memory, stamp, faults, scenario, history>>
      BY <2>7 DEF PatternsWrite
    <3> QED
      BY <2>7, <3>1 DEF Changes, memory, history
  <2> QED
    BY <1>4, <2>1, <2>2, <2>3, <2>4, <2>5, <2>6, <2>7 DEF Continue
<1> QED
  BY <1>1, <1>2, <1>3, <1>4, CallChanges DEF Next

-----------------------------------------------------------------------------
(* Types.                                                                  *)

\* One entry of a function of functions is replaced.
LEMMA NestedExcept ==
    ASSUME NEW A, NEW B, NEW V, NEW f \in [A -> [B -> V]], NEW x \in A, NEW y \in B, NEW v \in V
    PROVE  [f EXCEPT ![x][y] = v] \in [A -> [B -> V]]
<1>1. PICK row : row = [f[x] EXCEPT ![y] = v]
  OBVIOUS
<1>2. f[x] \in [B -> V]
  OBVIOUS
<1>3. row \in [B -> V]
  BY <1>1, <1>2
<1>4. [f EXCEPT ![x][y] = v] = [f EXCEPT ![x] = row]
  BY <1>1
<1> QED
  BY <1>3, <1>4

LEMMA DeliveredTyped ==
    ASSUME Base, scenario \in Scenarios, [Next]_vars
    PROVE  delivered' \in [Agents -> [Channels -> SUBSET (1 .. stamp')]]
<1>1. stamp \in Nat /\ stamp' \in Nat /\ stamp <= stamp'
  BY StampsNat, StampGrows
<1>2. SUBSET (1 .. stamp) \subseteq SUBSET (1 .. stamp')
  BY <1>1
<1>3. delivered \in [Agents -> [Channels -> SUBSET (1 .. stamp)]]
  BY DEF Base, TypeOK
<1>4. ASSUME NEW p \in Procs, MarkWrite(p)
      PROVE  delivered' \in [Agents -> [Channels -> SUBSET (1 .. stamp)]]
  <2>1. PICK a, c, names : a = proc[p].agent /\ c = proc[p].channel /\ names = proc[p].names
    OBVIOUS
  <2>2. delivered' = [delivered EXCEPT ![a][c] = names] /\ At(p, "mark write")
    BY <1>4, <2>1 DEF MarkWrite
  <2>3. a \in Agents /\ c \in Channels /\ names \in SUBSET (1 .. stamp)
    BY <2>1, <2>2, Shapes DEF Base
  <2> QED
    BY <1>3, <2>2, <2>3, NestedExcept
<1>5. delivered' \in [Agents -> [Channels -> SUBSET (1 .. stamp)]]
  BY <1>3, <1>4, StepChanges DEF Changes
<1> QED
  BY <1>2, <1>5

LEMMA SubscriptionsTyped ==
    ASSUME Base, [Next]_vars
    PROVE  subscriptions' \in [Agents -> SUBSET Channels]
<1>1. subscriptions \in [Agents -> SUBSET Channels]
  BY DEF Base, TypeOK
<1>2. ASSUME NEW p \in Procs, PatternsWrite(p)
      PROVE  subscriptions' \in [Agents -> SUBSET Channels]
  <2>1. PICK a, new : a = proc[p].agent /\ new = proc[p].new
    OBVIOUS
  <2>2. subscriptions' = [subscriptions EXCEPT ![a] = new] /\ At(p, "patterns")
    BY <1>2, <2>1 DEF PatternsWrite
  <2>3. a \in Agents /\ new \in SUBSET Channels
    BY <2>1, <2>2, Shapes DEF Base
  <2> QED
    BY <1>1, <2>2, <2>3
<1> QED
  BY <1>1, <1>2, StepChanges DEF Changes

LEMMA SeenTyped ==
    ASSUME Base, scenario \in Scenarios, [Next]_vars
    PROVE  seen' \in [Procs -> [Agents -> (SUBSET (1 .. stamp')) \cup {None}]]
<1>1. stamp \in Nat /\ stamp' \in Nat /\ stamp <= stamp'
  BY StampsNat, StampGrows
<1>2. PICK Sets : Sets = (SUBSET (1 .. stamp)) \cup {None}
  OBVIOUS
<1>3. Sets \subseteq (SUBSET (1 .. stamp')) \cup {None}
  BY <1>1, <1>2
<1>4. seen \in [Procs -> [Agents -> Sets]]
  BY <1>2 DEF Base, TypeOK
<1>5. ASSUME NEW p \in Procs, Die(p)
      PROVE  seen' \in [Procs -> [Agents -> Sets]]
  <2>1. NoWatch \in [Agents -> Sets]
    <3>1. None \in Sets
      BY <1>2
    <3> QED
      BY <3>1 DEF NoWatch
  <2>2. seen' = [seen EXCEPT ![p] = NoWatch]
    BY <1>5 DEF Die
  <2> QED
    BY <1>4, <2>1, <2>2
<1>6. ASSUME NEW p \in Procs, NEW a \in Agents, WatchStart(p, a)
      PROVE  seen' \in [Procs -> [Agents -> Sets]]
  <2>1. PICK new : new = UNION {delivered[a][c] : c \in dirs \cap subscriptions[a]}
    OBVIOUS
  <2>2. seen' = [seen EXCEPT ![p][a] = new]
    BY <1>6, <2>1 DEF WatchStart
  <2>3. \A c \in dirs \cap subscriptions[a] : delivered[a][c] \subseteq 1 .. stamp
    BY DEF Base, TypeOK
  <2>4. new \in Sets
    BY <1>2, <2>1, <2>3
  <2> QED
    BY <1>4, <2>2, <2>4, NestedExcept
<1>7. ASSUME NEW p \in Procs, NEW a \in Agents, WatchPoll(p, a)
      PROVE  seen' \in [Procs -> [Agents -> Sets]]
  <2>1. PICK c : /\ seen' = [seen EXCEPT ![p][a] = @ \cup Unseen(p, a, c)]
                 /\ seen[p][a] # None
    BY <1>7 DEF WatchPoll
  <2>2. PICK new : new = seen[p][a] \cup Unseen(p, a, c)
    OBVIOUS
  <2>3. seen' = [seen EXCEPT ![p][a] = new]
    BY <2>1, <2>2
  <2>4. Unseen(p, a, c) \subseteq 1 .. stamp
    BY NamesAreStamps DEF Unseen
  <2>5. seen[p][a] \subseteq 1 .. stamp
    BY <1>2, <1>4, <2>1
  <2>6. new \in Sets
    BY <1>2, <2>2, <2>4, <2>5
  <2> QED
    BY <1>4, <2>3, <2>6, NestedExcept
<1>8. seen' \in [Procs -> [Agents -> Sets]]
  BY <1>4, <1>5, <1>6, <1>7, StepChanges DEF Changes, Dies
<1> QED
  BY <1>3, <1>8

LEMMA MemoryTyped ==
    ASSUME Base, [Next]_vars
    PROVE  /\ liveness' \in [Procs -> [Agents -> Statuses \cup {None}]]
           /\ acks' \in [Procs -> [1 .. MaxMessages -> Agents \cup {None}]]
           /\ groups' \in [Procs -> [Groups -> [Agents -> {"none", "invited", "active"}]]]
<1>1. /\ liveness \in [Procs -> [Agents -> Statuses \cup {None}]]
      /\ acks \in [Procs -> [1 .. MaxMessages -> Agents \cup {None}]]
      /\ groups \in [Procs -> [Groups -> [Agents -> {"none", "invited", "active"}]]]
  BY DEF Base, TypeOK
<1>2. ASSUME NEW p \in Procs, Die(p)
      PROVE  /\ liveness' \in [Procs -> [Agents -> Statuses \cup {None}]]
             /\ acks' \in [Procs -> [1 .. MaxMessages -> Agents \cup {None}]]
             /\ groups' \in [Procs -> [Groups -> [Agents -> {"none", "invited", "active"}]]]
  <2>1. NoAcks \in [1 .. MaxMessages -> Agents \cup {None}]
    BY DEF NoAcks
  <2>2. NoMembers \in [Groups -> [Agents -> {"none", "invited", "active"}]]
    BY DEF NoMembers
  <2>3. acks' = [acks EXCEPT ![p] = NoAcks] /\ groups' = [groups EXCEPT ![p] = NoMembers]
        /\ liveness' = [liveness EXCEPT ![p] = [a \in Agents |-> None]]
    BY <1>2 DEF Die
  <2> QED
    BY <1>1, <2>1, <2>2, <2>3
<1>3. ASSUME NEW p \in Procs, NEW a \in Agents, NEW s \in Statuses, Heartbeat(p, a, s)
      PROVE  liveness' \in [Procs -> [Agents -> Statuses \cup {None}]]
  BY <1>1, <1>3, NestedExcept DEF Heartbeat
<1>4. ASSUME NEW p \in Procs, NEW a \in Agents, NEW n \in 1 .. MaxMessages, Ack(p, a, n)
      PROVE  acks' \in [Procs -> [1 .. MaxMessages -> Agents \cup {None}]]
  BY <1>1, <1>4, NestedExcept DEF Ack
<1>5. ASSUME NEW p \in Procs, NEW a \in Agents, Groupwise(p, a)
      PROVE  groups' \in [Procs -> [Groups -> [Agents -> {"none", "invited", "active"}]]]
  <2>1. ASSUME NEW g \in Groups, NEW row \in [Agents -> {"none", "invited", "active"}],
               groups' = [groups EXCEPT ![p][g] = row]
        PROVE  groups' \in [Procs -> [Groups -> [Agents -> {"none", "invited", "active"}]]]
    BY <1>1, <2>1, NestedExcept
  <2>2. ASSUME NEW g \in Groups, NEW b \in Agents, NEW v \in {"none", "invited", "active"},
               groups' = [groups EXCEPT ![p][g][b] = v]
        PROVE  groups' \in [Procs -> [Groups -> [Agents -> {"none", "invited", "active"}]]]
    <3>1. PICK row : row = [groups[p][g] EXCEPT ![b] = v]
      OBVIOUS
    <3>2. groups[p][g] \in [Agents -> {"none", "invited", "active"}]
      BY <1>1
    <3>3. row \in [Agents -> {"none", "invited", "active"}]
      BY <3>1, <3>2
    <3>4. groups' = [groups EXCEPT ![p][g] = row]
      BY <2>2, <3>1
    <3> QED
      BY <2>1, <3>3, <3>4
  <2>3. ASSUME NEW g \in Groups, NEW b \in Agents
        PROVE  groups[p][g][b] \in {"none", "invited", "active"}
    BY <1>1
  <2>4. ASSUME NEW g \in Groups, GroupCreate(p, a, g)
        PROVE  groups' \in [Procs -> [Groups -> [Agents -> {"none", "invited", "active"}]]]
    BY <2>1, <2>4 DEF GroupCreate
  <2>5. ASSUME NEW g \in Groups, NEW b \in Agents, GroupInvite(p, a, g, b)
        PROVE  groups' \in [Procs -> [Groups -> [Agents -> {"none", "invited", "active"}]]]
    <3>1. PICK v : v = IF groups[p][g][b] = "none" THEN "invited" ELSE groups[p][g][b]
      OBVIOUS
    <3>2. groups' = [groups EXCEPT ![p][g][b] = v]
      BY <2>5, <3>1 DEF GroupInvite
    <3>3. v \in {"none", "invited", "active"}
      BY <2>3, <3>1
    <3> QED
      BY <2>2, <3>2, <3>3
  <2>6. ASSUME NEW g \in Groups, GroupJoin(p, a, g)
        PROVE  groups' \in [Procs -> [Groups -> [Agents -> {"none", "invited", "active"}]]]
    <3>1. PICK v : v = IF groups[p][g][a] = "invited" THEN "active" ELSE groups[p][g][a]
      OBVIOUS
    <3>2. groups' = [groups EXCEPT ![p][g][a] = v]
      BY <2>6, <3>1 DEF GroupJoin
    <3>3. v \in {"none", "invited", "active"}
      BY <2>3, <3>1
    <3> QED
      BY <2>2, <3>2, <3>3
  <2>7. ASSUME NEW g \in Groups, GroupLeave(p, a, g)
        PROVE  groups' \in [Procs -> [Groups -> [Agents -> {"none", "invited", "active"}]]]
    BY <2>2, <2>7 DEF GroupLeave
  <2> QED
    BY <1>5, <2>4, <2>5, <2>6, <2>7 DEF Groupwise
<1>6. Changes
  BY StepChanges
<1>7. liveness' \in [Procs -> [Agents -> Statuses \cup {None}]]
  BY <1>1, <1>2, <1>3, <1>6 DEF Changes, Dies
<1>8. acks' \in [Procs -> [1 .. MaxMessages -> Agents \cup {None}]]
  BY <1>1, <1>2, <1>4, <1>6 DEF Changes, Dies
<1>9. groups' \in [Procs -> [Groups -> [Agents -> {"none", "invited", "active"}]]]
  BY <1>1, <1>2, <1>5, <1>6 DEF Changes, Dies
<1> QED
  BY <1>7, <1>8, <1>9

-----------------------------------------------------------------------------
(* Drains.                                                                 *)

Marks == <<delivered, settled, returned, again>>

\* Process p moves, and rewrites nothing afterwards.
Rests(p) ==
    /\ \E state : Moves(p, state) /\ state.at \in {"idle", "send", "send write"}
    /\ UNCHANGED <<Marks, overlapped>>

\* Process p begins to rewrite the files of a; nothing is found yet.
Enters(p, a) ==
    /\ \E state :
          /\ Moves(p, state) /\ state.at \in {"scan", "mark", "patterns"} /\ state.agent = a
          /\ state.at \in {"scan", "mark"} => state.batch = {}
    /\ ~Rewriting(p)
    /\ NoteOverlap(p, a)
    /\ UNCHANGED <<files, Marks>>

LEMMA DrainCases ==
    ASSUME Base, scenario \in Scenarios, [Next]_vars
    PROVE  \/ \E p \in Procs : \/ Rests(p) \/ Scan(p) \/ MarkRead(p) \/ MarkWrite(p)
                               \/ Return(p) \/ PatternsWrite(p)
           \/ \E p \in Procs, a \in Agents : Enters(p, a)
           \/ UNCHANGED core
<1>0. ProcsOK /\ TypeOK
  BY DEF Base
<1>1. ASSUME NEW p \in Procs, Rewrites(p)
      PROVE  \E a \in Agents : Enters(p, a)
  <2>1. PICK a \in Agents, new \in SUBSET Channels : \E then :
           /\ At(p, "idle")
           /\ RewritePatterns(p, a, new, then)
           /\ UNCHANGED <<mail, stamp, returned, again, settled, crowded>>
    BY <1>1 DEF Rewrites
  <2>2. PICK then : RewritePatterns(p, a, new, then)
    BY <2>1
  <2>3. PICK state : state = [at |-> "patterns", agent |-> a, new |-> new, then |-> then]
                     /\ Goto(p, state)
    BY <2>2 DEF RewritePatterns
  <2>4. Moves(p, state) /\ state.at = "patterns" /\ state.agent = a
    BY <1>0, <2>3, GotoMoves
  <2>5. NoteOverlap(p, a) /\ UNCHANGED <<files, Marks>> /\ ~Rewriting(p)
    BY <2>1, <2>2 DEF RewritePatterns, mail, Marks, At, Rewriting
  <2> QED
    BY <2>4, <2>5 DEF Enters
<1>2. ASSUME NEW p \in Procs, NEW a \in Agents, NEW limit \in Limits,
             NEW scope \in {None} \cup SUBSET Channels, RecvBegin(p, a, scope, limit)
      PROVE  Enters(p, a)
  <2>1. PICK targets : targets = IF scope = None THEN dirs \cap subscriptions[a] ELSE scope
    OBVIOUS
  <2>2. targets \subseteq Channels
    BY <1>0, <2>1 DEF TypeOK
  <2>3. PICK state : state = ScanOf(a, TRUE, targets, limit) /\ Goto(p, state)
    BY <1>2, <2>1 DEF RecvBegin
  <2>4. state.at \in {"scan", "mark"} /\ state.agent = a /\ state.batch = {}
    <3>1. state \in ScanState(stamp)
      BY <2>2, <2>3, FreshScan
    <3>2. state.agent = a /\ state.batch = {}
      BY <2>3 DEF ScanOf
    <3> QED
      BY <3>1, <3>2, ScanFields
  <2>5. NoteOverlap(p, a) /\ UNCHANGED <<files, Marks>> /\ ~Rewriting(p)
    BY <1>2 DEF RecvBegin, Begin, mail, Marks, At, Rewriting
  <2>6. Moves(p, state)
    BY <1>0, <2>3, GotoMoves
  <2> QED
    BY <2>4, <2>5, <2>6 DEF Enters
<1>3. ASSUME NEW p \in Procs, Stamps(p)
      PROVE  Rests(p)
  <2>1. PICK c \in Channels : TakeStamp(p, c)
    BY <1>3 DEF Stamps
  <2>2. PICK state : /\ state = [at |-> "send", channel |-> c, name |-> stamp']
                     /\ Goto(p, state)
    BY <2>1 DEF TakeStamp
  <2>3. Moves(p, state) /\ state.at = "send"
    BY <1>0, <2>2, GotoMoves
  <2>4. UNCHANGED <<Marks, overlapped>>
    BY <1>3 DEF Stamps, mail, history, Marks
  <2> QED
    BY <2>3, <2>4 DEF Rests
<1>4. ASSUME NEW p \in Procs, SendCount(p)
      PROVE  Rests(p)
  <2>1. PICK state : /\ state = [at |-> "send write", channel |-> proc[p].channel,
                                 name |-> proc[p].name,
                                 seq |-> Cardinality(Names(proc[p].channel)) + 1]
                     /\ Goto(p, state)
    BY <1>4 DEF SendCount
  <2>2. Moves(p, state) /\ state.at = "send write"
    BY <1>0, <2>1, GotoMoves
  <2>3. UNCHANGED <<Marks, overlapped>>
    BY <1>4 DEF SendCount, Marks
  <2> QED
    BY <2>2, <2>3 DEF Rests
<1>5. ASSUME NEW p \in Procs, Goto(p, Idle), UNCHANGED <<delivered, history>>
      PROVE  Rests(p)
  <2>1. Moves(p, Idle)
    BY <1>0, <1>5, GotoMoves
  <2> QED
    BY <1>5, <2>1, IdleIsIdle DEF Rests, history, Marks
<1>6. ASSUME NEW p \in Procs, SendWrite(p) \/ Die(p)
      PROVE  Rests(p)
  BY <1>5, <1>6 DEF SendWrite, Die
<1>7. ASSUME NEW p \in Procs, Continue(p)
      PROVE  \/ Rests(p) \/ Scan(p) \/ MarkRead(p) \/ MarkWrite(p)
             \/ Return(p) \/ PatternsWrite(p)
  BY <1>4, <1>6, <1>7 DEF Continue
<1>8. CASE \E p \in Procs : Stamps(p) \/ Rewrites(p)
  BY <1>1, <1>3, <1>8
<1>9. CASE \E p \in Procs, a \in Agents, limit \in Limits,
               scope \in {None} \cup SUBSET Channels : RecvBegin(p, a, scope, limit)
  BY <1>2, <1>9
<1>10. CASE \E p \in Procs : Continue(p) \/ Die(p)
  BY <1>6, <1>7, <1>10
<1> QED
  BY <1>0, <1>8, <1>9, <1>10, CoreCases

LEMMA HistoryTyped ==
    ASSUME Base, scenario \in Scenarios, [Next]_vars
    PROVE  /\ {returned', again', settled'} \subseteq [Agents -> SUBSET (1 .. stamp')]
           /\ overlapped' \subseteq Agents
           /\ crowded' \subseteq Channels
<1>0. ProcsOK /\ TypeOK
  BY DEF Base
<1>1. stamp \in Nat /\ stamp' \in Nat /\ stamp <= stamp'
  BY StampsNat, StampGrows
<1>2. [Agents -> SUBSET (1 .. stamp)] \subseteq [Agents -> SUBSET (1 .. stamp')]
  <2>1. SUBSET (1 .. stamp) \subseteq SUBSET (1 .. stamp')
    BY <1>1
  <2> QED
    BY <2>1
<1>3. /\ returned \in [Agents -> SUBSET (1 .. stamp)]
      /\ again \in [Agents -> SUBSET (1 .. stamp)]
      /\ settled \in [Agents -> SUBSET (1 .. stamp)]
      /\ overlapped \subseteq Agents /\ crowded \subseteq Channels
  BY <1>0 DEF TypeOK
<1>4. ASSUME NEW p \in Procs, MarkWrite(p)
      PROVE  settled' \in [Agents -> SUBSET (1 .. stamp)]
  <2>1. PICK a, names : a = proc[p].agent /\ names = proc[p].names
    OBVIOUS
  <2>2. settled' = [settled EXCEPT ![a] = @ \cup names] /\ At(p, "mark write")
    BY <1>4, <2>1 DEF MarkWrite
  <2>3. names \subseteq 1 .. stamp
    BY <1>0, <2>1, <2>2, Shapes
  <2>4. \A b \in Agents : settled[b] \cup names \subseteq 1 .. stamp
    BY <1>3, <2>3
  <2> QED
    BY <1>3, <2>2, <2>4
<1>5. ASSUME NEW p \in Procs, Return(p)
      PROVE  /\ returned' \in [Agents -> SUBSET (1 .. stamp)]
             /\ again' \in [Agents -> SUBSET (1 .. stamp)]
  <2>1. PICK a, names : /\ a = proc[p].agent
                        /\ names = IF proc[p].drain THEN {m.name : m \in proc[p].batch} ELSE {}
    OBVIOUS
  <2>2. /\ proc[p].at = "mark"
        /\ returned' = [returned EXCEPT ![a] = @ \cup names]
        /\ again' = [again EXCEPT ![a] = @ \cup (names \cap returned[a])]
    BY <1>5, <2>1 DEF Return, At
  <2>3. proc[p].batch \subseteq [channel : Channels, name : 1 .. stamp]
    <3>1. proc[p] \in ScanState(stamp)
      BY <1>0, <2>2, Shapes DEF Scanning
    <3> QED
      BY <3>1, ScanFields
  <2>4. names \subseteq 1 .. stamp
    BY <2>1, <2>3
  <2>5. \A b \in Agents : /\ returned[b] \cup names \subseteq 1 .. stamp
                          /\ again[b] \cup (names \cap returned[a]) \subseteq 1 .. stamp
    BY <1>3, <2>4
  <2> QED
    BY <1>3, <2>2, <2>5
<1>6. ASSUME NEW p, NEW a \in Agents, NoteOverlap(p, a)
      PROVE  overlapped' \subseteq Agents
  BY <1>3, <1>6 DEF NoteOverlap
<1>7. overlapped' \subseteq Agents
  <2>1. ASSUME NEW p \in Procs,
               Rests(p) \/ Scan(p) \/ MarkRead(p) \/ MarkWrite(p) \/ Return(p) \/ PatternsWrite(p)
        PROVE  overlapped' = overlapped
    BY <2>1 DEF Rests, Scan, MarkRead, MarkWrite, Return, PatternsWrite, history
  <2>2. ASSUME NEW p \in Procs, NEW a \in Agents, Enters(p, a)
        PROVE  overlapped' \subseteq Agents
    BY <1>6, <2>2 DEF Enters
  <2>3. UNCHANGED core => overlapped' = overlapped
    BY DEF core, history
  <2> QED
    BY <1>3, <2>1, <2>2, <2>3, DrainCases
<1>8. crowded' \subseteq Channels
  <2>1. ASSUME NEW p \in Procs, SendCount(p)
        PROVE  crowded' \subseteq Channels
    <3>1. proc[p].channel \in Channels
      BY <1>0, <2>1, Shapes DEF SendCount
    <3> QED
      BY <1>3, <2>1, <3>1 DEF SendCount
  <2>2. ASSUME NEW p \in Procs, Stamps(p) \/ SendWrite(p) \/ Quiet(p)
        PROVE  crowded' = crowded
    BY <2>2 DEF Stamps, SendWrite, Quiet, history
  <2>3. UNCHANGED core => crowded' = crowded
    BY DEF core, history
  <2> QED
    BY <1>3, <2>1, <2>2, <2>3, FileCases
<1>9. /\ returned' \in [Agents -> SUBSET (1 .. stamp)]
      /\ again' \in [Agents -> SUBSET (1 .. stamp)]
      /\ settled' \in [Agents -> SUBSET (1 .. stamp)]
  BY <1>3, <1>4, <1>5, StepChanges DEF Changes
<1> QED
  BY <1>2, <1>7, <1>8, <1>9

LEMMA TypeKeep ==
    ASSUME Base, scenario \in Scenarios, [Next]_vars
    PROVE  TypeOK'
<1>1. stamp \in 0 .. MaxMessages /\ faults \in 0 .. MaxFaults /\ stamp \in Nat
  BY StampsNat DEF Base, TypeOK
<1>2. stamp' \in 0 .. MaxMessages
  <2>1. stamp' = stamp \/ (stamp < MaxMessages /\ stamp' = stamp + 1)
    BY StepChanges DEF Changes
  <2> QED
    BY <1>1, <2>1, FilesystemAssumption
<1>3. faults' \in 0 .. MaxFaults
  <2>1. faults' = faults \/ (faults < MaxFaults /\ faults' = faults + 1)
    BY StepChanges DEF Changes, Dies, Die
  <2> QED
    BY <1>1, <2>1, FilesystemAssumption
<1>4. (DOMAIN proc)' = Procs
  BY ProcsKeep DEF ProcsOK
<1>5. /\ files' \subseteq File
      /\ \A f, g \in files' : f.name = g.name => f = g
      /\ {f.channel : f \in files'} \subseteq dirs'
  <2>1. NamesOK'
    BY NamesKeep
  <2> QED
    BY <2>1 DEF NamesOK, File
<1> QED
  BY <1>2, <1>3, <1>4, <1>5, DeliveredTyped, SubscriptionsTyped, SeenTyped, MemoryTyped,
     HistoryTyped DEF TypeOK, File

LEMMA FilesGrow ==
    ASSUME Base, scenario \in Scenarios, [Next]_vars
    PROVE  \A c : Names(c) \subseteq Names(c)'
<1>1. files \subseteq files'
  <2>1. ASSUME NEW p \in Procs, Stamps(p) \/ SendCount(p) \/ SendWrite(p) \/ Quiet(p)
        PROVE  files \subseteq files'
    BY <2>1 DEF Stamps, SendCount, SendWrite, Quiet, mail
  <2> QED
    BY <2>1, FileCases DEF core
<1> QED
  BY <1>1 DEF Names

LEMMA FoundKeep ==
    ASSUME Base, FoundOK, scenario \in Scenarios, [Next]_vars
    PROVE  FoundOK'
<1>0. ProcsOK /\ TypeOK
  BY DEF Base
<1>1. \A c : Names(c) \subseteq Names(c)'
  BY FilesGrow
<1>2. /\ \A a \in Agents, c \in Channels : delivered[a][c] \subseteq Names(c)'
      /\ \A s : BatchFound(s) => BatchFound(s)'
      /\ \A p \in Procs : Carried(p)
  BY <1>1 DEF FoundOK, BatchFound
<1>3. ASSUME NEW p \in Procs, NEW state, Moves(p, state), delivered' = delivered,
             state.at \in {"scan", "mark"} => BatchFound(state)',
             state.at = "mark write" => /\ state.names \subseteq Names(state.channel)'
                                        /\ BatchFound(state.then)'
      PROVE  FoundOK'
  <2>1. ASSUME NEW q \in Procs
        PROVE  Carried(q)'
    <3>1. CASE q = p
      BY <1>3, <3>1 DEF Carried, Moves, Scanning, At, BatchFound
    <3>2. CASE q # p
      <4>1. proc'[q] = proc[q] /\ Carried(q)
        BY <1>2, <1>3, <3>2 DEF Moves
      <4> QED
        BY <1>1, <4>1 DEF Carried, Scanning, At, BatchFound
    <3> QED
      BY <3>1, <3>2
  <2> QED
    BY <1>2, <1>3, <2>1 DEF FoundOK
<1>4. CASE UNCHANGED core
  <2>1. \A p \in Procs : Carried(p)'
    BY <1>1, <1>2, <1>4 DEF core, Carried, Scanning, At, BatchFound
  <2> QED
    BY <1>2, <1>4, <2>1 DEF core, FoundOK
<1>5. ASSUME NEW p \in Procs, Rests(p)
      PROVE  FoundOK'
  <2>1. PICK state : Moves(p, state) /\ state.at \in {"idle", "send", "send write"}
    BY <1>5 DEF Rests
  <2> QED
    BY <1>3, <1>5, <2>1 DEF Rests, Marks
<1>6. ASSUME NEW p \in Procs, NEW a \in Agents, Enters(p, a)
      PROVE  FoundOK'
  <2>1. PICK state :
           /\ Moves(p, state) /\ state.at \in {"scan", "mark", "patterns"}
           /\ state.at \in {"scan", "mark"} => state.batch = {}
    BY <1>6 DEF Enters
  <2>2. state.at \in {"scan", "mark"} => BatchFound(state)'
    BY <2>1 DEF BatchFound
  <2>3. delivered' = delivered
    BY <1>6 DEF Enters, Marks
  <2> QED
    BY <1>3, <2>1, <2>2, <2>3
<1>7. ASSUME NEW p \in Procs, Scan(p)
      PROVE  FoundOK'
  <2>1. PICK c \in Channels : \E found, state :
              /\ Scanning(p) /\ Goto(p, state)
              /\ found \subseteq Pending(proc[p].agent, c)
              /\ state \in ScanState(stamp)
              /\ state.batch = proc[p].batch \cup [channel : {c}, name : found]
              /\ UNCHANGED <<mail, memory, stamp, faults, scenario, history>>
    BY <1>7, ScanEffect
  <2>2. PICK found, state :
              /\ Scanning(p) /\ Goto(p, state)
              /\ found \subseteq Pending(proc[p].agent, c)
              /\ state \in ScanState(stamp)
              /\ state.batch = proc[p].batch \cup [channel : {c}, name : found]
    BY <2>1
  <2>3. Moves(p, state) /\ state.at \in {"scan", "mark"}
    BY <1>0, <2>2, GotoMoves, ScanFields
  <2>4. delivered' = delivered
    BY <2>1 DEF mail
  <2>5. BatchFound(proc[p])
    BY <1>2, <2>2 DEF Carried
  <2>6. found \subseteq Names(c)
    BY <2>2 DEF Pending
  <2>7. BatchFound(state)
    BY <2>2, <2>5, <2>6 DEF BatchFound
  <2> QED
    BY <1>2, <1>3, <2>3, <2>4, <2>7
<1>8. ASSUME NEW p \in Procs, MarkRead(p)
      PROVE  FoundOK'
  <2>1. PICK c, then, state :
              /\ Scanning(p) /\ Goto(p, state) /\ c \in Channels
              /\ then.batch = proc[p].batch
              /\ state = [at |-> "mark write", agent |-> proc[p].agent, channel |-> c,
                          names |-> delivered[proc[p].agent][c] \cup Found(p, c),
                          then |-> then]
              /\ UNCHANGED <<mail, memory, stamp, faults, scenario, history>>
    BY <1>8, MarkReadEffect
  <2>2. /\ Moves(p, state) /\ state.at = "mark write" /\ state.channel = c /\ state.then = then
        /\ state.names = delivered[proc[p].agent][c] \cup Found(p, c)
    BY <1>0, <2>1, GotoMoves
  <2>3. delivered' = delivered
    BY <2>1 DEF mail
  <2>4. BatchFound(proc[p])
    BY <1>2, <2>1 DEF Carried
  <2>5. BatchFound(then)
    BY <2>1, <2>4 DEF BatchFound
  <2>6. Found(p, c) \subseteq Names(c)
    BY <2>4 DEF Found, BatchFound
  <2>7. delivered[proc[p].agent][c] \subseteq Names(c)
    <3>1. proc[p].agent \in Agents
      BY <1>0, <2>1, Shapes, ScanFields
    <3> QED
      BY <2>1, <3>1 DEF FoundOK
  <2>8. state.names \subseteq Names(state.channel)'
    BY <1>1, <2>2, <2>6, <2>7
  <2> QED
    BY <1>2, <1>3, <2>2, <2>3, <2>5, <2>8
<1>9. ASSUME NEW p \in Procs, MarkWrite(p)
      PROVE  FoundOK'
  <2>1. PICK a, c, names : a = proc[p].agent /\ c = proc[p].channel /\ names = proc[p].names
    OBVIOUS
  <2>2. PICK then : then = proc[p].then /\ Goto(p, then) /\ At(p, "mark write")
    BY <1>9 DEF MarkWrite
  <2>3. /\ a \in Agents /\ c \in Channels /\ then \in ScanState(stamp)
        /\ delivered' = [delivered EXCEPT ![a][c] = names]
    BY <1>0, <1>9, <2>1, <2>2, Shapes DEF MarkWrite
  <2>4. Moves(p, then) /\ then.at \in {"scan", "mark"}
    BY <1>0, <2>2, <2>3, GotoMoves, ScanFields
  <2>5. names \subseteq Names(c) /\ BatchFound(then)
    BY <1>2, <2>1, <2>2 DEF Carried
  <2>6. \A b \in Agents, d \in Channels : delivered'[b][d] \subseteq Names(d)'
    <3>1. \A b \in Agents, d \in Channels :
             delivered'[b][d] = IF b = a /\ d = c THEN names ELSE delivered[b][d]
      BY <1>0, <2>3 DEF TypeOK
    <3> QED
      BY <1>1, <1>2, <2>5, <3>1
  <2>7. ASSUME NEW q \in Procs
        PROVE  Carried(q)'
    <3>1. CASE q = p
      BY <1>2, <2>4, <2>5, <3>1 DEF Carried, Moves, Scanning, At, BatchFound
    <3>2. CASE q # p
      <4>1. proc'[q] = proc[q] /\ Carried(q)
        BY <1>2, <2>4, <3>2 DEF Moves
      <4> QED
        BY <1>1, <4>1 DEF Carried, Scanning, At, BatchFound
    <3> QED
      BY <3>1, <3>2
  <2> QED
    BY <2>6, <2>7 DEF FoundOK
<1>10. ASSUME NEW p \in Procs, Return(p)
       PROVE  FoundOK'
  <2>1. Moves(p, Idle) /\ delivered' = delivered
    BY <1>0, <1>10, GotoMoves DEF Return, mail
  <2> QED
    BY <1>3, <2>1, IdleIsIdle
<1>11. ASSUME NEW p \in Procs, PatternsWrite(p)
       PROVE  FoundOK'
  <2>1. PICK then : then = proc[p].then /\ Goto(p, then) /\ At(p, "patterns") /\ delivered' = delivered
    BY <1>11 DEF PatternsWrite
  <2>2. Moves(p, then)
    BY <1>0, <2>1, GotoMoves
  <2>3. \/ then.at = "idle"
        \/ then.at \in {"scan", "mark"} /\ then.batch = {}
    BY <1>0, <2>1, Shapes, ScanFields, IdleIsIdle
  <2>4. then.at \in {"scan", "mark"} => BatchFound(then)'
    BY <2>3 DEF BatchFound
  <2> QED
    BY <1>3, <2>1, <2>2, <2>3, <2>4
<1> QED
  BY <1>4, <1>5, <1>6, <1>7, <1>8, <1>9, <1>10, <1>11, DrainCases


Untouched(a) ==
    /\ delivered'[a] = delivered[a] /\ settled'[a] = settled[a]
    /\ returned'[a] = returned[a] /\ again'[a] = again[a]

\* Agent a is not served by the step.
LEMMA DrainStays ==
    ASSUME NEW a, Drained(a), Untouched(a),
           \A p \in Procs : RewritesFor(a, p)' => RewritesFor(a, p) /\ proc'[p] = proc[p]
    PROVE  Drained(a)'
<1>1. Accounted(a)'
  BY DEF Drained, Accounted, Untouched
<1>2. ASSUME NEW p \in Procs, RewritesFor(a, p)'
      PROVE  Held(a, p)'
  <2>1. Held(a, p) /\ proc'[p] = proc[p]
    BY <1>2 DEF Drained
  <2> QED
    BY <2>1 DEF Held, Untouched, Scanning, At, BatchOK
<1>3. \A p, q \in Procs : RewritesFor(a, p)' /\ RewritesFor(a, q)' => p = q
  BY DEF Drained
<1> QED
  BY <1>1, <1>2, <1>3 DEF Drained

\* Agent a is served by p alone.
LEMMA DrainMoves ==
    ASSUME NEW a, NEW p \in Procs, NEW state, Moves(p, state), Accounted(a)',
           \A q \in Procs \ {p} : ~RewritesFor(a, q),
           RewritesFor(a, p)' => Held(a, p)'
    PROVE  Drained(a)'
<1>1. \A q \in Procs \ {p} : ~RewritesFor(a, q)'
  BY DEF Moves, RewritesFor, Rewriting
<1>2. /\ \A q \in Procs : RewritesFor(a, q)' => Held(a, q)'
      /\ \A q, r \in Procs : RewritesFor(a, q)' /\ RewritesFor(a, r)' => q = r
  BY <1>1
<1> QED
  BY <1>2 DEF Drained

\* What is held in a scan, in a delivered file about to be replaced.
LEMMA HeldScanning ==
    ASSUME NEW a, NEW p \in Procs, NEW state, Moves(p, state), state.at \in {"scan", "mark"},
           BatchOK(a, state, state.todo)'
    PROVE  Held(a, p)'
  BY DEF Held, Moves, Scanning, At, BatchOK

\* The step of a process in an operation for agent a leaves other agents alone.
LEMMA DrainOthers ==
    ASSUME NEW p \in Procs, NEW state, Moves(p, state), NEW b, Drained(b), Untouched(b),
           state.at \in {"scan", "mark", "mark write", "patterns"} => state.agent # b
    PROVE  Drained(b)'
<1>1. \A q \in Procs : RewritesFor(b, q)' => RewritesFor(b, q) /\ proc'[q] = proc[q]
  BY DEF Moves, RewritesFor, Rewriting
<1> QED
  BY <1>1, DrainStays

LEMMA ScanDrain ==
    ASSUME Base, FoundOK, DrainsOK, NEW p \in Procs, Scan(p), NEW b \in Agents \ overlapped
    PROVE  Drained(b)'
<1>0. ProcsOK /\ TypeOK
  BY DEF Base
<1>1. PICK a : a = proc[p].agent
  OBVIOUS
<1>2. PICK c \in Channels : \E found, state :
            /\ Scanning(p) /\ Goto(p, state)
            /\ found \subseteq Pending(a, c)
            /\ state \in ScanState(stamp) /\ state.agent = a
            /\ proc[p].todo \subseteq state.todo /\ (found # {} => c \in state.todo)
            /\ state.batch = proc[p].batch \cup [channel : {c}, name : found]
            /\ UNCHANGED <<mail, memory, stamp, faults, scenario, history>>
  BY <1>1, ScanEffect
<1>3. PICK found, state :
            /\ Scanning(p) /\ Goto(p, state)
            /\ found \subseteq Pending(a, c)
            /\ state \in ScanState(stamp) /\ state.agent = a
            /\ proc[p].todo \subseteq state.todo /\ (found # {} => c \in state.todo)
            /\ state.batch = proc[p].batch \cup [channel : {c}, name : found]
  BY <1>2
<1>4. Moves(p, state) /\ state.at \in {"scan", "mark"}
  BY <1>0, <1>3, GotoMoves, ScanFields
<1>5. UNCHANGED Marks
  BY <1>2 DEF mail, history, Marks
<1>6. Untouched(b)
  BY <1>5 DEF Marks, Untouched
<1>7. Drained(b)
  BY DEF DrainsOK
<1>8. CASE b # a
  BY <1>3, <1>4, <1>6, <1>7, <1>8, DrainOthers
<1>9. CASE b = a
  <2>1. RewritesFor(b, p)
    BY <1>1, <1>3, <1>9 DEF RewritesFor, Rewriting, Scanning
  <2>2. \A q \in Procs \ {p} : ~RewritesFor(b, q)
    BY <1>7, <2>1 DEF Drained
  <2>3. Accounted(b) /\ Accounted(b)'
    BY <1>5, <1>7 DEF Drained, Accounted, Marks
  <2>4. BatchOK(b, proc[p], proc[p].todo)
    BY <1>3, <1>7, <2>1 DEF Drained, Held
  <2>5. ASSUME NEW n \in found
        PROVE  n \notin returned[b]
    <3> SUFFICES ASSUME n \in returned[b]
                 PROVE  FALSE
      OBVIOUS
    <3>1. PICK d \in Channels : n \in delivered[b][d]
      BY <2>3 DEF Accounted
    <3>2. n \in Names(d) /\ n \in Names(c) /\ n \notin delivered[b][c]
      BY <1>3, <1>9, <2>5, <3>1 DEF FoundOK, Pending
    <3>3. \A f, g \in files : f.name = g.name => f = g
      BY NamesFacts DEF Base
    <3>4. d = c
      BY <3>2, <3>3 DEF Names
    <3> QED
      BY <3>1, <3>2, <3>4
  <2>6. ASSUME NEW m \in state.batch
        PROVE  m.name \notin returned[b] /\ (m.channel \in state.todo \/ m.name \in delivered[b][m.channel])
    <3>1. CASE m \in proc[p].batch
      BY <1>3, <2>4, <3>1 DEF BatchOK
    <3>2. CASE m \in [channel : {c}, name : found]
      BY <1>3, <2>5, <3>2
    <3> QED
      BY <1>3, <2>6, <3>1, <3>2
  <2>7. BatchOK(b, state, state.todo)'
    BY <1>6, <2>6 DEF BatchOK, Untouched
  <2> QED
    BY <1>4, <2>2, <2>3, <2>7, HeldScanning, DrainMoves
<1> QED
  BY <1>8, <1>9

LEMMA MarkReadDrain ==
    ASSUME Base, FoundOK, DrainsOK, NEW p \in Procs, MarkRead(p), NEW b \in Agents \ overlapped
    PROVE  Drained(b)'
<1>0. ProcsOK /\ TypeOK
  BY DEF Base
<1>1. PICK a : a = proc[p].agent
  OBVIOUS
<1>2. PICK c, then, state :
            /\ Scanning(p) /\ Goto(p, state) /\ c \in Channels
            /\ then.todo = proc[p].todo \ {c} /\ then.batch = proc[p].batch
            /\ state = [at |-> "mark write", agent |-> a, channel |-> c,
                        names |-> delivered[a][c] \cup Found(p, c), then |-> then]
            /\ UNCHANGED <<mail, memory, stamp, faults, scenario, history>>
  BY <1>1, MarkReadEffect
<1>4. /\ Moves(p, state) /\ state.at = "mark write" /\ state.agent = a /\ state.channel = c
      /\ state.then = then /\ state.names = delivered[a][c] \cup Found(p, c)
  BY <1>0, <1>2, GotoMoves
<1>5. UNCHANGED Marks
  BY <1>2 DEF mail, history, Marks
<1>6. Untouched(b)
  BY <1>5 DEF Marks, Untouched
<1>7. Drained(b)
  BY DEF DrainsOK
<1>8. CASE b # a
  BY <1>4, <1>6, <1>7, <1>8, DrainOthers
<1>9. CASE b = a
  <2>1. RewritesFor(b, p)
    BY <1>1, <1>2, <1>9 DEF RewritesFor, Rewriting, Scanning
  <2>2. \A q \in Procs \ {p} : ~RewritesFor(b, q)
    BY <1>7, <2>1 DEF Drained
  <2>3. Accounted(b)'
    BY <1>5, <1>7 DEF Drained, Accounted, Marks
  <2>4. BatchOK(b, proc[p], proc[p].todo)
    BY <1>2, <1>7, <2>1 DEF Drained, Held
  <2>5. BatchOK(b, then, then.todo \cup {c})
    BY <1>2, <2>4 DEF BatchOK
  <2>6. \A m \in then.batch : m.channel = c => m.name \in state.names
    BY <1>2, <1>4 DEF Found
  <2>7. delivered[b][c] \subseteq state.names
    BY <1>4, <1>9
  <2>8. proc'[p] = state
    BY <1>4 DEF Moves
  <2>9. Held(b, p)'
    <3>1. BatchOK(b, then, then.todo \cup {c})'
      BY <1>6, <2>5 DEF BatchOK, Untouched
    <3>2. delivered'[b] = delivered[b]
      BY <1>6 DEF Untouched
    <3> QED
      BY <1>4, <2>6, <2>7, <2>8, <3>1, <3>2 DEF Held, Scanning, At, BatchOK
  <2> QED
    BY <1>4, <2>2, <2>3, <2>9, DrainMoves
<1> QED
  BY <1>8, <1>9

LEMMA MarkWriteDrain ==
    ASSUME Base, DrainsOK, NEW p \in Procs, MarkWrite(p), NEW b \in Agents \ overlapped
    PROVE  Drained(b)'
<1>0. ProcsOK /\ TypeOK
  BY DEF Base
<1>1. PICK a, c, names, then : /\ a = proc[p].agent /\ c = proc[p].channel
                               /\ names = proc[p].names /\ then = proc[p].then
  OBVIOUS
<1>2. /\ At(p, "mark write") /\ Goto(p, then)
      /\ delivered' = [delivered EXCEPT ![a][c] = names]
      /\ settled' = [settled EXCEPT ![a] = @ \cup names]
      /\ UNCHANGED <<returned, again, overlapped>>
  BY <1>1 DEF MarkWrite
<1>3. a \in Agents /\ c \in Channels /\ then \in ScanState(stamp) /\ then.agent = a
  BY <1>0, <1>1, <1>2, Shapes
<1>4. Moves(p, then) /\ then.at \in {"scan", "mark"}
  BY <1>0, <1>2, <1>3, GotoMoves, ScanFields
<1>7. Drained(b)
  BY DEF DrainsOK
<1>8. CASE b # a
  <2>1. delivered'[b] = delivered[b] /\ settled'[b] = settled[b]
    BY <1>0, <1>2, <1>3, <1>8 DEF TypeOK
  <2>2. Untouched(b)
    BY <1>2, <2>1 DEF Untouched
  <2> QED
    BY <1>3, <1>4, <1>7, <1>8, <2>2, DrainOthers
<1>9. CASE b = a
  <2>1. RewritesFor(b, p)
    BY <1>1, <1>2, <1>9 DEF RewritesFor, Rewriting, At
  <2>2. \A q \in Procs \ {p} : ~RewritesFor(b, q)
    BY <1>7, <2>1 DEF Drained
  <2>3. /\ BatchOK(b, then, then.todo \cup {c})
        /\ delivered[b][c] \subseteq names
        /\ \A m \in then.batch : m.channel = c => m.name \in names
    BY <1>1, <1>2, <1>7, <2>1 DEF Drained, Held
  <2>4. /\ \A d \in Channels : delivered'[b][d] = IF d = c THEN names ELSE delivered[b][d]
        /\ returned'[b] = returned[b] /\ again'[b] = again[b]
    BY <1>0, <1>2, <1>3, <1>9 DEF TypeOK
  <2>5. Accounted(b)
    BY <1>7 DEF Drained
  <2>6. settled'[b] = settled[b] \cup names
    BY <1>0, <1>2, <1>3, <1>9 DEF TypeOK
  <2>7. UNION {delivered'[b][d] : d \in Channels} = (UNION {delivered[b][d] : d \in Channels}) \cup names
    BY <1>3, <2>3, <2>4
  <2>8. Accounted(b)'
    BY <2>4, <2>5, <2>6, <2>7 DEF Accounted
  <2>9. \A m \in then.batch : m.channel \in Channels
    BY <1>3, ScanFields
  <2>10. BatchOK(b, then, then.todo)'
    BY <2>3, <2>4, <2>9 DEF BatchOK
  <2> QED
    BY <1>4, <2>2, <2>8, <2>10, HeldScanning, DrainMoves
<1> QED
  BY <1>8, <1>9

LEMMA ReturnDrain ==
    ASSUME Base, DrainsOK, NEW p \in Procs, Return(p), NEW b \in Agents \ overlapped
    PROVE  Drained(b)'
<1>0. ProcsOK /\ TypeOK
  BY DEF Base
<1>1. PICK a, names : /\ a = proc[p].agent
                      /\ names = IF proc[p].drain THEN {m.name : m \in proc[p].batch} ELSE {}
  OBVIOUS
<1>2. /\ proc[p].at = "mark" /\ proc[p].todo = {} /\ Goto(p, Idle)
      /\ returned' = [returned EXCEPT ![a] = @ \cup names]
      /\ again' = [again EXCEPT ![a] = @ \cup (names \cap returned[a])]
      /\ delivered' = delivered /\ settled' = settled
  BY <1>1 DEF Return, At, mail
<1>3. Moves(p, Idle) /\ Idle.at = "idle"
  BY <1>0, <1>2, GotoMoves, IdleIsIdle
<1>4. Scanning(p)
  BY <1>2 DEF Scanning
<1>5. ~RewritesFor(b, p)'
  BY <1>3 DEF Moves, RewritesFor, Rewriting
<1>7. Drained(b)
  BY DEF DrainsOK
<1>8. CASE b # a
  <2>1. Untouched(b)
    BY <1>2, <1>8 DEF Untouched
  <2> QED
    BY <1>3, <1>7, <2>1, DrainOthers
<1>9. CASE b = a
  <2>1. RewritesFor(b, p)
    BY <1>1, <1>2, <1>9 DEF RewritesFor, Rewriting
  <2>2. \A q \in Procs \ {p} : ~RewritesFor(b, q)
    BY <1>7, <2>1 DEF Drained
  <2>3. \A m \in proc[p].batch : m.name \notin returned[b] /\ m.name \in delivered[b][m.channel]
    BY <1>2, <1>4, <1>7, <2>1 DEF Drained, Held, BatchOK
  <2>4. \A m \in proc[p].batch : m.channel \in Channels
    <3>1. proc[p] \in ScanState(stamp)
      BY <1>0, <1>4, Shapes
    <3> QED
      BY <3>1, ScanFields
  <2>5. Accounted(b)
    BY <1>7 DEF Drained
  <2>6. names \subseteq settled[b] /\ names \cap returned[b] = {}
    BY <1>1, <2>3, <2>4, <2>5 DEF Accounted
  <2>7. returned'[b] \subseteq returned[b] \cup names
    BY <1>2, <1>9
  <2>8. again'[b] \subseteq again[b] \cup (names \cap returned[b])
    BY <1>2, <1>9
  <2>9. Accounted(b)'
    BY <1>2, <2>5, <2>6, <2>7, <2>8 DEF Accounted
  <2> QED
    BY <1>3, <1>5, <2>2, <2>9, DrainMoves
<1> QED
  BY <1>8, <1>9

LEMMA PatternsWriteDrain ==
    ASSUME Base, DrainsOK, NEW p \in Procs, PatternsWrite(p), NEW b \in Agents \ overlapped
    PROVE  Drained(b)'
<1>0. ProcsOK /\ TypeOK
  BY DEF Base
<1>1. PICK a, then : a = proc[p].agent /\ then = proc[p].then
  OBVIOUS
<1>2. At(p, "patterns") /\ Goto(p, then) /\ UNCHANGED Marks
  BY <1>1 DEF PatternsWrite, history, Marks
<1>3. \/ then = Idle
      \/ then \in ScanState(stamp) /\ then.agent = a /\ then.batch = {}
  BY <1>0, <1>1, <1>2, Shapes
<1>4. Moves(p, then)
  BY <1>0, <1>2, GotoMoves
<1>5. \/ then.at = "idle"
      \/ then.at \in {"scan", "mark"} /\ then.agent = a /\ then.batch = {}
  BY <1>3, ScanFields, IdleIsIdle
<1>6. Untouched(b)
  BY <1>2 DEF Untouched, Marks
<1>7. Drained(b)
  BY DEF DrainsOK
<1>8. CASE b # a
  BY <1>4, <1>5, <1>6, <1>7, <1>8, DrainOthers
<1>9. CASE b = a
  <2>1. RewritesFor(b, p)
    BY <1>1, <1>2, <1>9 DEF RewritesFor, Rewriting, At
  <2>2. \A q \in Procs \ {p} : ~RewritesFor(b, q)
    BY <1>7, <2>1 DEF Drained
  <2>3. Accounted(b)'
    BY <1>6, <1>7 DEF Drained, Accounted, Untouched
  <2>4. RewritesFor(b, p)' => Held(b, p)'
    <3>1. CASE then.at = "idle"
      BY <1>4, <3>1 DEF Moves, RewritesFor, Rewriting
    <3>2. CASE then.at \in {"scan", "mark"} /\ then.batch = {}
      <4>1. BatchOK(b, then, then.todo)'
        BY <3>2 DEF BatchOK
      <4> QED
        BY <1>4, <3>2, <4>1, HeldScanning
    <3> QED
      BY <1>5, <3>1, <3>2
  <2> QED
    BY <1>4, <2>2, <2>3, <2>4, DrainMoves
<1> QED
  BY <1>8, <1>9

LEMMA EntersDrain ==
    ASSUME DrainsOK, NEW p \in Procs, NEW a \in Agents, Enters(p, a),
           NEW b \in Agents \ overlapped'
    PROVE  Drained(b)'
<1>1. PICK state :
         /\ Moves(p, state) /\ state.at \in {"scan", "mark", "patterns"} /\ state.agent = a
         /\ state.at \in {"scan", "mark"} => state.batch = {}
  BY DEF Enters
<1>2. overlapped' = overlapped \cup
         {proc[q].agent : q \in {q \in Procs \ {p} : Rewriting(q) /\ proc[q].agent = a}}
  BY DEF Enters, NoteOverlap
<1>3. Untouched(b)
  BY DEF Enters, Marks, Untouched
<1>4. Drained(b)
  BY <1>2 DEF DrainsOK
<1>5. CASE b # a
  BY <1>1, <1>3, <1>4, <1>5, DrainOthers
<1>6. CASE b = a
  <2>1. \A q \in Procs \ {p} : ~RewritesFor(b, q)
    BY <1>2, <1>6 DEF RewritesFor
  <2>2. Accounted(b)'
    BY <1>3, <1>4 DEF Drained, Accounted, Untouched
  <2>3. Held(b, p)'
    <3>1. CASE state.at = "patterns"
      BY <1>1, <3>1 DEF Moves, Held, Scanning, At
    <3>2. CASE state.at \in {"scan", "mark"} /\ state.batch = {}
      <4>1. BatchOK(b, state, state.todo)'
        BY <3>2 DEF BatchOK
      <4> QED
        BY <1>1, <3>2, <4>1, HeldScanning
    <3> QED
      BY <1>1, <3>1, <3>2
  <2> QED
    BY <1>1, <2>1, <2>2, <2>3, DrainMoves
<1> QED
  BY <1>5, <1>6

LEMMA DrainsKeep ==
    ASSUME Base, FoundOK, DrainsOK, scenario \in Scenarios, [Next]_vars
    PROVE  DrainsOK'
<1> SUFFICES ASSUME NEW b \in Agents \ overlapped'
             PROVE  Drained(b)'
  BY DEF DrainsOK
<1>1. ASSUME overlapped' = overlapped, UNCHANGED Marks,
             \A q \in Procs : RewritesFor(b, q)' => RewritesFor(b, q) /\ proc'[q] = proc[q]
      PROVE  Drained(b)'
  BY <1>1, DrainStays DEF DrainsOK, Untouched, Marks
<1>2. ASSUME NEW p \in Procs, Rests(p)
      PROVE  Drained(b)'
  <2>1. PICK state : Moves(p, state) /\ state.at \in {"idle", "send", "send write"}
    BY <1>2 DEF Rests
  <2>2. \A q \in Procs : RewritesFor(b, q)' => RewritesFor(b, q) /\ proc'[q] = proc[q]
    BY <2>1 DEF Moves, RewritesFor, Rewriting
  <2> QED
    BY <1>1, <1>2, <2>2 DEF Rests
<1>3. CASE UNCHANGED core
  <2>1. \A q \in Procs : RewritesFor(b, q)' => RewritesFor(b, q) /\ proc'[q] = proc[q]
    BY <1>3 DEF core, RewritesFor, Rewriting
  <2> QED
    BY <1>1, <1>3, <2>1 DEF core, history, Marks
<1>4. ASSUME NEW p \in Procs, Scan(p)
      PROVE  Drained(b)'
  BY <1>4, ScanDrain DEF Scan, history
<1>5. ASSUME NEW p \in Procs, MarkRead(p)
      PROVE  Drained(b)'
  BY <1>5, MarkReadDrain DEF MarkRead, history
<1>6. ASSUME NEW p \in Procs, MarkWrite(p)
      PROVE  Drained(b)'
  BY <1>6, MarkWriteDrain DEF MarkWrite
<1>7. ASSUME NEW p \in Procs, Return(p)
      PROVE  Drained(b)'
  BY <1>7, ReturnDrain DEF Return
<1>8. ASSUME NEW p \in Procs, PatternsWrite(p)
      PROVE  Drained(b)'
  BY <1>8, PatternsWriteDrain DEF PatternsWrite, history
<1>9. ASSUME NEW p \in Procs, NEW a \in Agents, Enters(p, a)
      PROVE  Drained(b)'
  BY <1>9, EntersDrain
<1> QED
  BY <1>2, <1>3, <1>4, <1>5, <1>6, <1>7, <1>8, <1>9, DrainCases

-----------------------------------------------------------------------------
(* Members.                                                                *)

\* A step that rewrites no subscriptions and makes nobody a member.
LEMMA MembersStay ==
    ASSUME MembersOK, scenario' = scenario, subscriptions' = subscriptions,
           \A p \in Procs, g \in Groups, a \in Agents :
              groups'[p][g][a] = "active" => groups[p][g][a] = "active",
           \A p \in Procs :
              \/ proc'[p] = proc[p]
              \/ ~At(p, "patterns") /\ ~At(p, "patterns")'
              \/ /\ ~At(p, "patterns")'
                 /\ \A g \in Groups, a \in Agents : groups'[p][g][a] # "active"
    PROVE  MembersOK'
<1>1. \A p \in Procs : At(p, "patterns")' => <<p, proc'[p].agent>> \in scenario.callers
  BY DEF MembersOK, At
<1>2. ASSUME NEW p \in Procs, NEW a \in Agents, NEW g \in Groups,
             groups'[p][g][a] = "active", Settled(p, a)
      PROVE  Subscribed(p, a, g)'
  <2>1. Subscribed(p, a, g)
    BY <1>2 DEF MembersOK
  <2> QED
    BY <1>2, <2>1 DEF Subscribed, At
<1>3. \A p, a : Settled(p, a)' <=> Settled(p, a)
  BY DEF Settled
<1>4. scenario' \in Scenarios
  BY DEF MembersOK
<1> QED
  BY <1>1, <1>2, <1>3, <1>4 DEF MembersOK

\* Process p begins to rewrite the subscriptions of a.
LEMMA MembersRewrite ==
    ASSUME ProcsOK, MembersOK, NEW p \in Procs, NEW a \in Agents, NEW new, NEW then,
           At(p, "idle"), <<p, a>> \in scenario.callers, RewritePatterns(p, a, new, then),
           scenario' = scenario, subscriptions' = subscriptions,
           \A q \in Procs \ {p} : groups'[q] = groups[q],
           \A g \in Groups, b \in Agents :
              groups'[p][g][b] = "active" => IF b = a THEN Settled(p, a) => g \in new
                                             ELSE groups[p][g][b] = "active"
    PROVE  MembersOK'
<1>1. PICK state : state = [at |-> "patterns", agent |-> a, new |-> new, then |-> then]
                   /\ Goto(p, state)
  BY DEF RewritePatterns
<1>2. Moves(p, state) /\ state.at = "patterns" /\ state.agent = a /\ state.new = new
  BY <1>1, GotoMoves
<1>3. \A q \in Procs : At(q, "patterns")' => <<q, proc'[q].agent>> \in scenario.callers
  BY <1>2 DEF MembersOK, At, Moves
<1>4. ASSUME NEW q \in Procs, NEW b \in Agents, NEW g \in Groups,
             groups'[q][g][b] = "active", Settled(q, b)
      PROVE  Subscribed(q, b, g)'
  <2>1. CASE q # p
    <3>1. Subscribed(q, b, g) /\ proc'[q] = proc[q]
      BY <1>2, <1>4, <2>1 DEF MembersOK, Moves
    <3> QED
      BY <3>1 DEF Subscribed, At
  <2>2. CASE q = p /\ b = a
    BY <1>2, <1>4, <2>2 DEF Subscribed, At, Moves
  <2>3. CASE q = p /\ b # a
    <3>1. Subscribed(q, b, g) /\ At(q, "idle")
      BY <1>4, <2>3 DEF MembersOK
    <3> QED
      BY <1>2, <2>3, <3>1 DEF Subscribed, At, Moves
  <2> QED
    BY <2>1, <2>2, <2>3
<1>5. \A q, b : Settled(q, b)' <=> Settled(q, b)
  BY DEF Settled
<1>6. scenario' \in Scenarios
  BY DEF MembersOK
<1> QED
  BY <1>3, <1>4, <1>5, <1>6 DEF MembersOK

\* Agent a follows channel c, and becomes a member of no other group.
LEMMA FollowMembers ==
    ASSUME TypeOK, ProcsOK, MembersOK, NEW p \in Procs, NEW a \in Agents, NEW c \in Channels,
           At(p, "idle"), <<p, a>> \in scenario.callers, Follow(p, a, c),
           scenario' = scenario, subscriptions' = subscriptions,
           \A q \in Procs \ {p} : groups'[q] = groups[q],
           \A g \in Groups, b \in Agents :
              groups'[p][g][b] = "active" => groups[p][g][b] = "active" \/ (b = a /\ g = c)
    PROVE  MembersOK'
<1>1. ASSUME NEW g \in Groups, groups[p][g][a] = "active", Settled(p, a)
      PROVE  g \in subscriptions[a]
  <2>1. Subscribed(p, a, g)
    BY <1>1 DEF MembersOK
  <2> QED
    BY <2>1 DEF Subscribed, At
<1>2. CASE c \in subscriptions[a]
  <2>1. proc' = proc
    BY <1>2 DEF Follow
  <2>2. \A q \in Procs : At(q, "patterns")' => <<q, proc'[q].agent>> \in scenario.callers
    BY <2>1 DEF MembersOK, At
  <2>3. ASSUME NEW q \in Procs, NEW b \in Agents, NEW g \in Groups,
               groups'[q][g][b] = "active", Settled(q, b)
        PROVE  Subscribed(q, b, g)
    <3>1. CASE groups[q][g][b] = "active"
      BY <2>3, <3>1 DEF MembersOK
    <3>2. CASE q = p /\ b = a /\ g = c
      BY <1>2, <3>2 DEF Subscribed, At
    <3> QED
      BY <2>3, <3>1, <3>2
  <2>4. \A q, b : Settled(q, b)' <=> Settled(q, b)
    BY DEF Settled
  <2>5. \A q, b, g : Subscribed(q, b, g)' <=> Subscribed(q, b, g)
    BY <2>1 DEF Subscribed, At
  <2>6. scenario' \in Scenarios
    BY DEF MembersOK
  <2> QED
    BY <2>2, <2>3, <2>4, <2>5, <2>6 DEF MembersOK
<1>3. CASE c \notin subscriptions[a]
  <2>1. PICK new : new = subscriptions[a] \cup {c} /\ RewritePatterns(p, a, new, Idle)
    BY <1>3 DEF Follow
  <2>2. \A g \in Groups, b \in Agents :
           groups'[p][g][b] = "active" => IF b = a THEN Settled(p, a) => g \in new
                                          ELSE groups[p][g][b] = "active"
    BY <1>1, <2>1
  <2> QED
    BY <2>1, <2>2, MembersRewrite
<1> QED
  BY <1>2, <1>3

LEMMA CallMembers ==
    ASSUME Base, MembersOK, NEW p \in Procs, NEW a \in Agents, Call(p, a)
    PROVE  MembersOK'
<1>0. ProcsOK /\ TypeOK
  BY DEF Base
<1>1. scenario.channels \subseteq Channels /\ Groups \subseteq Channels
  BY ScenarioOK, FilesystemAssumption DEF MembersOK
<1>2. ASSUME NEW state, Goto(p, state), At(p, "idle"), state.at # "patterns",
             scenario' = scenario, subscriptions' = subscriptions, groups' = groups
      PROVE  MembersOK'
  <2>1. Moves(p, state)
    BY <1>0, <1>2, GotoMoves
  <2>2. \A q \in Procs : proc'[q] = proc[q] \/ (~At(q, "patterns") /\ ~At(q, "patterns")')
    BY <1>2, <2>1 DEF Moves, At
  <2> QED
    BY <1>2, <2>2, MembersStay
<1>3. ASSUME proc' = proc, scenario' = scenario, subscriptions' = subscriptions, groups' = groups
      PROVE  MembersOK'
  BY <1>3, MembersStay
<1>4. ASSUME NEW c \in Channels, TakeStamp(p, c), At(p, "idle"),
             scenario' = scenario, subscriptions' = subscriptions, groups' = groups
      PROVE  MembersOK'
  <2>1. PICK state : state = [at |-> "send", channel |-> c, name |-> stamp'] /\ Goto(p, state)
    BY <1>4 DEF TakeStamp
  <2>2. state.at # "patterns"
    BY <2>1
  <2> QED
    BY <1>2, <1>4, <2>1, <2>2
<1>5. ASSUME NEW c \in scenario.channels, Send(p, a, c)
      PROVE  MembersOK'
  BY <1>1, <1>4, <1>5 DEF Send, Begin, mail, memory
<1>6. ASSUME NEW cs, NEW k, RecvBegin(p, a, cs, k)
      PROVE  MembersOK'
  <2>1. PICK targets : targets = IF cs = None THEN dirs \cap subscriptions[a] ELSE cs
    OBVIOUS
  <2>2. PICK state : state = ScanOf(a, TRUE, targets, k) /\ Goto(p, state)
    BY <1>6, <2>1 DEF RecvBegin
  <2>3. state.at # "patterns"
    BY <2>2 DEF ScanOf
  <2>4. At(p, "idle") /\ UNCHANGED <<mail, memory, scenario>>
    BY <1>6 DEF RecvBegin, Begin
  <2> QED
    BY <1>2, <2>2, <2>3, <2>4 DEF mail, memory
<1>7. ASSUME NEW c \in scenario.channels, Subscribe(p, a, c)
      PROVE  MembersOK'
  <2>1. /\ At(p, "idle") /\ <<p, a>> \in scenario.callers /\ Follow(p, a, c)
        /\ scenario' = scenario /\ subscriptions' = subscriptions /\ groups' = groups
    BY <1>7 DEF Subscribe, Begin, mail, memory
  <2> QED
    BY <1>0, <1>1, <2>1, FollowMembers
<1>8. ASSUME NEW cs, Unsubscribe(p, a, cs)
      PROVE  MembersOK'
  <2>1. PICK removed : removed = subscriptions[a] \cap cs
    OBVIOUS
  <2>2. PICK new, then : /\ new = subscriptions[a] \ removed
                         /\ then = ScanOf(a, FALSE, removed, MaxMessages)
    OBVIOUS
  <2>3. /\ At(p, "idle") /\ <<p, a>> \in scenario.callers /\ RewritePatterns(p, a, new, then)
        /\ scenario' = scenario /\ subscriptions' = subscriptions /\ groups' = groups
        /\ "unsubscribe" \in scenario.operations
    BY <1>8, <2>1, <2>2 DEF Unsubscribe, Begin, mail, memory
  <2>4. ~Settled(p, a)
    BY <2>3 DEF Settled
  <2> QED
    BY <1>0, <2>3, <2>4, MembersRewrite
<1>9. CASE WatchStart(p, a)
  BY <1>3, <1>9 DEF WatchStart, memory
<1>10. ASSUME NEW s \in Statuses, Heartbeat(p, a, s)
       PROVE  MembersOK'
  <2>1. Presence \in Channels
    BY FilesystemAssumption
  <2> QED
    BY <1>4, <1>10, <2>1 DEF Heartbeat, Begin, mail
<1>11. ASSUME NEW n, Ack(p, a, n)
       PROVE  MembersOK'
  BY <1>3, <1>11 DEF Ack, mail
<1>12. ASSUME NEW g \in Groups, GroupCreate(p, a, g)
       PROVE  MembersOK'
  <2>1. /\ At(p, "idle") /\ <<p, a>> \in scenario.callers /\ Follow(p, a, g)
        /\ scenario' = scenario /\ subscriptions' = subscriptions
    BY <1>12 DEF GroupCreate, Begin, mail
  <2>2. PICK row : /\ row = [b \in Agents |-> IF b = a THEN "active" ELSE "none"]
                   /\ groups' = [groups EXCEPT ![p][g] = row]
    BY <1>12 DEF GroupCreate
  <2>3. /\ \A q \in Procs \ {p} : groups'[q] = groups[q]
        /\ \A h \in Groups : groups'[p][h] = IF h = g THEN row ELSE groups[p][h]
    BY <1>0, <2>2 DEF TypeOK
  <2>4. \A b \in Agents : row[b] = "active" => b = a
    BY <2>2
  <2>5. \A h \in Groups, b \in Agents :
           groups'[p][h][b] = "active" => groups[p][h][b] = "active" \/ (b = a /\ h = g)
    BY <2>3, <2>4
  <2> QED
    BY <1>0, <1>1, <2>1, <2>3, <2>5, FollowMembers
<1>13. ASSUME NEW g \in Groups, NEW b \in Agents, GroupInvite(p, a, g, b)
       PROVE  MembersOK'
  <2>1. PICK v : v = IF groups[p][g][b] = "none" THEN "invited" ELSE groups[p][g][b]
    OBVIOUS
  <2>2. /\ groups' = [groups EXCEPT ![p][g][b] = v]
        /\ proc' = proc /\ scenario' = scenario /\ subscriptions' = subscriptions
    BY <1>13, <2>1 DEF GroupInvite, mail
  <2>3. /\ \A q \in Procs \ {p} : groups'[q] = groups[q]
        /\ \A h \in Groups, d \in Agents :
              groups'[p][h][d] = IF h = g /\ d = b THEN v ELSE groups[p][h][d]
    BY <1>0, <2>2 DEF TypeOK
  <2>4. ASSUME NEW q \in Procs, NEW h \in Groups, NEW d \in Agents, groups'[q][h][d] = "active"
        PROVE  groups[q][h][d] = "active"
    <3>1. CASE q = p
      BY <2>1, <2>3, <2>4, <3>1
    <3>2. CASE q # p
      BY <2>3, <2>4, <3>2
    <3> QED
      BY <3>1, <3>2
  <2> QED
    BY <2>2, <2>4, MembersStay
<1>14. ASSUME NEW g \in Groups, GroupJoin(p, a, g)
       PROVE  MembersOK'
  <2>1. PICK v : v = IF groups[p][g][a] = "invited" THEN "active" ELSE groups[p][g][a]
    OBVIOUS
  <2>2. /\ At(p, "idle") /\ <<p, a>> \in scenario.callers /\ Follow(p, a, g)
        /\ groups' = [groups EXCEPT ![p][g][a] = v]
        /\ scenario' = scenario /\ subscriptions' = subscriptions
    BY <1>14, <2>1 DEF GroupJoin, Begin, mail
  <2>3. /\ \A q \in Procs \ {p} : groups'[q] = groups[q]
        /\ \A h \in Groups, d \in Agents :
              groups'[p][h][d] = IF h = g /\ d = a THEN v ELSE groups[p][h][d]
    BY <1>0, <2>2 DEF TypeOK
  <2>4. \A h \in Groups, d \in Agents :
           groups'[p][h][d] = "active" => groups[p][h][d] = "active" \/ (d = a /\ h = g)
    BY <2>3
  <2>5. g \in Channels
    BY <1>1
  <2> QED
    BY <1>0, <2>2, <2>3, <2>4, <2>5, FollowMembers
<1>15. ASSUME NEW g \in Groups, GroupLeave(p, a, g)
       PROVE  MembersOK'
  <2>1. PICK new : new = subscriptions[a] \ {g}
    OBVIOUS
  <2>2. /\ At(p, "idle") /\ <<p, a>> \in scenario.callers /\ RewritePatterns(p, a, new, Idle)
        /\ groups' = [groups EXCEPT ![p][g][a] = "none"]
        /\ scenario' = scenario /\ subscriptions' = subscriptions
    BY <1>15, <2>1 DEF GroupLeave, Begin, mail
  <2>3. /\ \A q \in Procs \ {p} : groups'[q] = groups[q]
        /\ \A h \in Groups, d \in Agents :
              groups'[p][h][d] = IF h = g /\ d = a THEN "none" ELSE groups[p][h][d]
    BY <1>0, <2>2 DEF TypeOK
  <2>4. ASSUME NEW h \in Groups, groups[p][h][a] = "active", Settled(p, a), h # g
        PROVE  h \in new
    <3>1. Subscribed(p, a, h)
      BY <2>4 DEF MembersOK
    <3> QED
      BY <2>1, <2>2, <2>4, <3>1 DEF Subscribed, At
  <2>5. \A h \in Groups, d \in Agents :
           groups'[p][h][d] = "active" => IF d = a THEN Settled(p, a) => h \in new
                                          ELSE groups[p][h][d] = "active"
    BY <2>3, <2>4
  <2> QED
    BY <1>0, <2>2, <2>3, <2>5, MembersRewrite
<1> QED
  BY <1>5, <1>6, <1>7, <1>8, <1>9, <1>10, <1>11, <1>12, <1>13, <1>14, <1>15 DEF Call

LEMMA ContinueMembers ==
    ASSUME Base, MembersOK, NEW p \in Procs, Continue(p)
    PROVE  MembersOK'
<1>0. ProcsOK /\ TypeOK
  BY DEF Base
<1>1. ASSUME NEW state, Goto(p, state), ~At(p, "patterns"), state.at # "patterns",
             scenario' = scenario, subscriptions' = subscriptions, groups' = groups
      PROVE  MembersOK'
  <2>1. Moves(p, state)
    BY <1>0, <1>1, GotoMoves
  <2>2. \A q \in Procs : proc'[q] = proc[q] \/ (~At(q, "patterns") /\ ~At(q, "patterns")')
    BY <1>1, <2>1 DEF Moves, At
  <2> QED
    BY <1>1, <2>2, MembersStay
<1>2. CASE SendCount(p)
  <2>1. PICK state : /\ state = [at |-> "send write", channel |-> proc[p].channel,
                                 name |-> proc[p].name,
                                 seq |-> Cardinality(Names(proc[p].channel)) + 1]
                     /\ Goto(p, state)
    BY <1>2 DEF SendCount
  <2>2. state.at # "patterns"
    BY <2>1
  <2> QED
    BY <1>1, <1>2, <2>1, <2>2 DEF SendCount, At, memory
<1>3. CASE SendWrite(p)
  BY <1>1, <1>3, IdleIsIdle DEF SendWrite, At, memory
<1>4. CASE Scan(p)
  <2>1. PICK state : /\ Scanning(p) /\ Goto(p, state) /\ state \in ScanState(stamp)
                     /\ UNCHANGED <<mail, memory, stamp, faults, scenario, history>>
    BY <1>4, ScanEffect
  <2>2. state.at # "patterns"
    BY <2>1, ScanFields
  <2> QED
    BY <1>1, <2>1, <2>2 DEF Scanning, At, mail, memory
<1>5. CASE MarkRead(p)
  <2>1. PICK c, then, state :
              /\ Scanning(p) /\ Goto(p, state)
              /\ state = [at |-> "mark write", agent |-> proc[p].agent, channel |-> c,
                          names |-> delivered[proc[p].agent][c] \cup Found(p, c),
                          then |-> then]
              /\ UNCHANGED <<mail, memory, stamp, faults, scenario, history>>
    BY <1>5, MarkReadEffect
  <2>2. state.at # "patterns"
    BY <2>1
  <2> QED
    BY <1>1, <2>1, <2>2 DEF Scanning, At, mail, memory
<1>6. CASE MarkWrite(p)
  <2>1. PICK then : then = proc[p].then /\ Goto(p, then) /\ At(p, "mark write")
    BY <1>6 DEF MarkWrite
  <2>2. then \in ScanState(stamp)
    BY <1>0, <2>1, Shapes
  <2>3. then.at # "patterns"
    BY <2>2, ScanFields
  <2> QED
    BY <1>1, <1>6, <2>1, <2>3 DEF MarkWrite, At, memory
<1>7. CASE Return(p)
  BY <1>1, <1>7, IdleIsIdle DEF Return, At, mail, memory
<1>8. CASE PatternsWrite(p)
  <2>1. PICK a, new, then : a = proc[p].agent /\ new = proc[p].new /\ then = proc[p].then
    OBVIOUS
  <2>2. /\ At(p, "patterns") /\ Goto(p, then) /\ scenario' = scenario /\ groups' = groups
        /\ subscriptions' = [subscriptions EXCEPT ![a] = new]
    BY <1>8, <2>1 DEF PatternsWrite, memory
  <2>3. then = Idle \/ then \in ScanState(stamp)
    BY <1>0, <2>1, <2>2, Shapes
  <2>4. Moves(p, then) /\ then.at # "patterns"
    BY <1>0, <2>2, <2>3, GotoMoves, ScanFields, IdleIsIdle
  <2>5. a \in Agents /\ <<p, a>> \in scenario.callers
    BY <1>0, <2>1, <2>2, Shapes DEF MembersOK
  <2>6. \A b \in Agents : subscriptions'[b] = IF b = a THEN new ELSE subscriptions[b]
    BY <1>0, <2>2 DEF TypeOK
  <2>7. \A q \in Procs : At(q, "patterns")' => q # p /\ At(q, "patterns") /\ proc'[q] = proc[q]
    BY <2>4 DEF Moves, At
  <2>8. ASSUME NEW q \in Procs, NEW b \in Agents, NEW g \in Groups,
               groups'[q][g][b] = "active", Settled(q, b)
        PROVE  Subscribed(q, b, g)'
    <3>1. Subscribed(q, b, g)
      BY <2>2, <2>8 DEF MembersOK
    <3>2. CASE b = a
      <4>1. q = p
        BY <2>5, <2>8, <3>2 DEF Settled
      <4>2. g \in new
        BY <2>1, <2>2, <3>1, <3>2, <4>1 DEF Subscribed
      <4> QED
        BY <2>5, <2>6, <2>7, <3>2, <4>1, <4>2 DEF Subscribed
    <3>3. CASE b # a
      <4>1. q = p => g \in subscriptions[b] /\ ~At(q, "patterns")'
        BY <2>1, <2>7, <3>1, <3>3 DEF Subscribed
      <4>2. q # p => proc'[q] = proc[q]
        BY <2>4 DEF Moves
      <4> QED
        BY <2>6, <3>1, <3>3, <4>1, <4>2 DEF Subscribed, At
    <3> QED
      BY <3>2, <3>3
  <2>9. \A q \in Procs : At(q, "patterns")' => <<q, proc'[q].agent>> \in scenario.callers
    BY <2>7 DEF MembersOK
  <2>10. \A q, b : Settled(q, b)' <=> Settled(q, b)
    BY <2>2 DEF Settled
  <2>11. scenario' \in Scenarios
    BY <2>2 DEF MembersOK
  <2> QED
    BY <2>2, <2>8, <2>9, <2>10, <2>11 DEF MembersOK
<1> QED
  BY <1>2, <1>3, <1>4, <1>5, <1>6, <1>7, <1>8 DEF Continue

LEMMA MembersKeep ==
    ASSUME Base, MembersOK, [Next]_vars
    PROVE  MembersOK'
<1>0. ProcsOK /\ TypeOK
  BY DEF Base
<1>1. CASE UNCHANGED vars
  BY <1>1, MembersStay DEF vars
<1>2. ASSUME NEW p \in Procs, NEW a \in Agents, WatchPoll(p, a)
      PROVE  MembersOK'
  BY <1>2, MembersStay DEF WatchPoll, memory
<1>3. ASSUME NEW p \in Procs, Die(p)
      PROVE  MembersOK'
  <2>1. Moves(p, Idle) /\ scenario' = scenario /\ subscriptions' = subscriptions
    BY <1>0, <1>3, GotoMoves DEF Die
  <2>2. groups' = [groups EXCEPT ![p] = NoMembers]
    BY <1>3 DEF Die
  <2>3. groups'[p] = NoMembers /\ \A q \in Procs \ {p} : groups'[q] = groups[q]
    BY <1>0, <2>2 DEF TypeOK
  <2>4. \A g \in Groups, a \in Agents : groups'[p][g][a] # "active"
    BY <2>3 DEF NoMembers
  <2>5. ~At(p, "patterns")' /\ \A q \in Procs \ {p} : proc'[q] = proc[q]
    BY <2>1, IdleIsIdle DEF Moves, At
  <2> QED
    BY <2>1, <2>3, <2>4, <2>5, MembersStay
<1> QED
  BY <1>1, <1>2, <1>3, CallMembers, ContinueMembers DEF Next

-----------------------------------------------------------------------------
(* The invariant, and what it says.                                        *)

LEMMA InvInit ==
    ASSUME Init
    PROVE  Inv
<1>1. IsFiniteSet(files) /\ files = {}
  BY FS_EmptySet DEF Init
<1>2. \A p \in Procs : proc[p] = Idle /\ proc[p].at = "idle"
  BY IdleIsIdle DEF Init
<1>3. TypeOK
  <2>1. 0 \in 0 .. MaxMessages /\ 0 \in 0 .. MaxFaults
    BY FilesystemAssumption
  <2>2. NoMembers \in [Groups -> [Agents -> {"none", "invited", "active"}]]
    BY DEF NoMembers
  <2>3. NoAcks \in [1 .. MaxMessages -> Agents \cup {None}]
    BY DEF NoAcks
  <2>4. NoWatch \in [Agents -> (SUBSET (1 .. stamp)) \cup {None}]
    BY DEF NoWatch
  <2>5. scenario.followed \in SUBSET Channels
    BY ScenarioOK DEF Init
  <2>6. /\ acks = [p \in Procs |-> NoAcks] /\ groups = [p \in Procs |-> NoMembers]
        /\ seen = [p \in Procs |-> NoWatch]
        /\ liveness = [p \in Procs |-> [a \in Agents |-> None]]
        /\ subscriptions = [a \in Agents |-> scenario.followed]
        /\ proc = [p \in Procs |-> Idle]
    BY DEF Init
  <2>7. /\ acks \in [Procs -> [1 .. MaxMessages -> Agents \cup {None}]]
        /\ groups \in [Procs -> [Groups -> [Agents -> {"none", "invited", "active"}]]]
        /\ subscriptions \in [Agents -> SUBSET Channels]
        /\ DOMAIN proc = Procs
    BY <2>2, <2>3, <2>5, <2>6
  <2>8. seen \in [Procs -> [Agents -> (SUBSET (1 .. stamp)) \cup {None}]]
    BY <2>4, <2>6
  <2>9. liveness \in [Procs -> [Agents -> Statuses \cup {None}]]
    BY <2>6
  <2>10. /\ delivered = [a \in Agents |-> [c \in Channels |-> {}]]
         /\ returned = [a \in Agents |-> {}] /\ again = [a \in Agents |-> {}]
         /\ settled = [a \in Agents |-> {}]
         /\ dirs = {} /\ stamp = 0 /\ faults = 0 /\ overlapped = {} /\ crowded = {}
    BY DEF Init
  <2>11. {returned, again, settled} \subseteq [Agents -> SUBSET (1 .. stamp)]
    BY <2>10
  <2>12. delivered \in [Agents -> [Channels -> SUBSET (1 .. stamp)]]
    BY <2>10
  <2> QED
    BY <1>1, <2>1, <2>7, <2>8, <2>9, <2>10, <2>11, <2>12 DEF TypeOK
<1>4. ProcsOK
  BY <1>2 DEF Init, ProcsOK, ProcState, ThenOK
<1>5. NamesOK
  BY <1>1, <1>2 DEF NamesOK, Sending, At
<1>6. NumbersOK
  <2>1. ASSUME NEW c
        PROVE  Names(c) = {} /\ Here(c) = {}
    BY <1>1 DEF Names, Here
  <2>2. 1 .. 0 = {}
    OBVIOUS
  <2>3. \A c : Cardinality(Names(c)) = 0 /\ Cardinality(Here(c)) = 0
    BY <2>1, FS_EmptySet
  <2> QED
    BY <1>2, <2>1, <2>2, <2>3 DEF NumbersOK, Numbered, At
<1>7. FoundOK
  BY <1>2 DEF Init, FoundOK, Carried, Scanning, At
<1>8. DrainsOK
  <2>1. \A a \in Agents : Accounted(a)
    BY DEF Init, Accounted
  <2>2. \A a \in Agents, p \in Procs : ~RewritesFor(a, p)
    BY <1>2 DEF RewritesFor, Rewriting
  <2> QED
    BY <2>1, <2>2 DEF DrainsOK, Drained
<1>9. MembersOK
  <2>1. \A p \in Procs, g \in Groups, a \in Agents : groups[p][g][a] # "active"
    BY DEF Init, NoMembers
  <2> QED
    BY <1>2, <2>1 DEF Init, MembersOK, At
<1> QED
  BY <1>3, <1>4, <1>5, <1>6, <1>7, <1>8, <1>9 DEF Inv

LEMMA InvStep ==
    ASSUME Inv, [Next]_vars
    PROVE  Inv'
<1>1. Base /\ scenario \in Scenarios
  BY DEF Inv, Base, MembersOK
<1>2. TypeOK' /\ ProcsOK' /\ NamesOK'
  BY <1>1, TypeKeep, ProcsKeep, NamesKeep
<1>3. NumbersOK' /\ FoundOK' /\ DrainsOK' /\ MembersOK'
  BY <1>1, NumbersKeep, FoundKeep, DrainsKeep, MembersKeep DEF Inv
<1> QED
  BY <1>2, <1>3 DEF Inv

LEMMA InvAlways == Spec => []Inv
<1>1. Init => Inv
  BY InvInit
<1>2. Inv /\ [Next]_vars => Inv'
  BY InvStep
<1> QED
  BY <1>1, <1>2, PTL DEF Spec

\* Whatever the processes do and wherever they die, every variable holds a
\* value of its kind and a name is given to one message file.
THEOREM TypeCorrect == Spec => []TypeOK
<1>1. Inv => TypeOK
  BY DEF Inv
<1> QED
  BY <1>1, InvAlways, PTL

\* recv returns nothing twice and what is settled stays settled, for every
\* agent that no two processes drain or unsubscribe for at once.
THEOREM DrainsCorrect == Spec => []DrainsAreExact
<1>1. Inv => DrainsAreExact
  BY DEF Inv, DrainsOK, Drained, Accounted, DrainsAreExact
<1> QED
  BY <1>1, InvAlways, PTL

\* The messages of a channel are numbered 1, 2, 3, ... unless two processes
\* send on it at once.
THEOREM SeqCorrect == Spec => []SeqGapFree
<1>1. Inv => SeqGapFree
  BY DEF Inv, NumbersOK, Numbered, Here, SeqGapFree
<1> QED
  BY <1>1, InvAlways, PTL

\* An active member of a group is subscribed to its channel.
THEOREM MembersCorrect == Spec => []MembersFollow
<1>1. Inv => MembersFollow
  BY DEF Inv, MembersOK, Settled, Subscribed, At, MembersFollow
<1> QED
  BY <1>1, InvAlways, PTL

=============================================================================
