----------------------------- MODULE SqliteStore ----------------------------
(***************************************************************************)
(* The SQLite BackingStore (adapters/backing_stores/sqlite/store.py):      *)
(* send, recv, subscribe and unsubscribe, run by coroutines of one or      *)
(* several server processes that open the same database file.              *)
(*                                                                         *)
(* aiosqlite suspends the coroutine at every statement, so an operation is *)
(* one step per statement.  All coroutines of a process share one          *)
(* connection and hence one transaction: the driver opens it implicitly    *)
(* before the first INSERT, UPDATE or DELETE, statements of the process    *)
(* read its uncommitted rows, and whichever coroutine commits first        *)
(* commits what the others have written.  Between processes SQLite admits  *)
(* one writer at a time and readers see the last commit.  Only _recv_lock, *)
(* an asyncio.Lock of the process, serialises recv and unsubscribe.        *)
(*                                                                         *)
(* Abstractions: a row keeps its channel, seq and delivered_to; the rowid  *)
(* is its position (AUTOINCREMENT); ties of the recv order on sent_at are  *)
(* broken by rowid as in the query and sent_at itself is left out;         *)
(* patterns are the channels they match; the row count behind the          *)
(* backpressure figure, which decides nothing, is left out; a statement    *)
(* that meets another process's transaction waits for it (the driver gives *)
(* up after five seconds, which is not modelled).                          *)
(***************************************************************************)
EXTENDS Naturals, Sequences, FiniteSets, SequencesExt

CONSTANTS
    Procs,         \* server processes
    Tasks,         \* coroutines
    ProcOf,        \* the process of each coroutine
    Agents,        \* agent ids
    Channels,      \* channel names
    Rank,          \* the alphabetical position of each channel name
    None,          \* Python's None
    Scopes,        \* the "channels" arguments of recv: None or a set of channels
    Limits,        \* max_messages values
    MaxMessages,   \* bound: rows ever inserted
    MaxFaults      \* bound: process crashes and cancelled coroutines

ASSUME SqliteAssumption ==
    /\ ProcOf \in [Tasks -> Procs]
    /\ \A c \in Channels : Rank[c] \in Nat
    /\ Limits \subseteq Nat \ {0}
    /\ MaxMessages \in Nat
    /\ MaxFaults \in Nat
    /\ None \notin Procs
    /\ None \notin Tasks

VARIABLES
    db,          \* the committed database: messages and subscriptions
    tx,          \* the database as the process with an open transaction sees it
    writer,      \* the process with an open transaction, or None
    recv_lock,   \* per process, the coroutine that holds _recv_lock, or None
    task,        \* per coroutine, the operation in progress and its local variables
    faults,      \* crashes and cancellations so far
    accepted,    \* history: the rowids send returned
    returned,    \* history: per agent, the rowids recv returned
    again        \* history: per agent, the rowids recv returned a second time

vars == <<db, tx, writer, recv_lock, task, faults, accepted, returned, again>>

-----------------------------------------------------------------------------
(* The shared connection.                                                  *)

\* What a statement of process p reads.
View(p) == IF writer = p THEN tx ELSE db

\* Mutant of Write: every statement begins a transaction of its own.
WriteNeverJoins(p, new) ==
    /\ writer = None
    /\ writer' = p
    /\ tx' = new

\* A statement of p that writes: it opens the transaction of p, or joins it.
Write(p, new) ==
    /\ writer \in {None, p}
    /\ writer' = p
    /\ tx' = new

\* conn.commit(): a no-op when another coroutine has committed already.
Commit(p) ==
    IF writer = p
    THEN db' = tx /\ writer' = None /\ tx' = None
    ELSE UNCHANGED <<db, writer, tx>>

\* With no open transaction there is nothing to remember.
NoWrite == UNCHANGED <<db, tx, writer>>

Idle == [at |-> "idle"]

Goto(t, state) == task' = [task EXCEPT ![t] = state]

At(t, place) == task[t].at = place

Init ==
    /\ db = [messages |-> <<>>, subscriptions |-> [a \in Agents |-> {}]]
    /\ tx = None
    /\ writer = None
    /\ recv_lock = [p \in Procs |-> None]
    /\ task = [t \in Tasks |-> Idle]
    /\ faults = 0
    /\ accepted = {}
    /\ returned = [a \in Agents |-> {}]
    /\ again = [a \in Agents |-> {}]

-----------------------------------------------------------------------------
(* send: read the next seq, insert, commit, return.                        *)

NextSeq(rows, channel) ==
    1 + Max({0} \cup {rows[i].seq : i \in {j \in DOMAIN rows : rows[j].channel = channel}})

\* Bound: rows stored, uncommitted ones included, plus rows about to be inserted.
RoomForSend ==
    LET newest == IF writer = None THEN db ELSE tx
    IN  Len(newest.messages) + Cardinality({t \in Tasks : At(t, "send insert")}) < MaxMessages

SendReadSeq(t, channel) ==
    /\ At(t, "idle")
    /\ RoomForSend
    /\ Goto(t, [at |-> "send insert", channel |-> channel,
                seq |-> NextSeq(View(ProcOf[t]).messages, channel)])
    /\ NoWrite
    /\ UNCHANGED <<recv_lock, faults, accepted, returned, again>>

SendInsert(t) ==
    LET view == View(ProcOf[t])
        row == [channel |-> task[t].channel, seq |-> task[t].seq, delivered_to |-> {}]
    IN  /\ At(t, "send insert")
        /\ Write(ProcOf[t], [view EXCEPT !.messages = Append(@, row)])
        /\ Goto(t, [at |-> "send commit", id |-> Len(view.messages) + 1])
        /\ UNCHANGED <<db, recv_lock, faults, accepted, returned, again>>

\* Mutant of SendCommit: the commit is forgotten.
SendWithoutCommit(t) ==
    /\ At(t, "send commit")
    /\ accepted' = accepted \cup {task[t].id}
    /\ Goto(t, Idle)
    /\ UNCHANGED <<db, tx, writer, recv_lock, faults, returned, again>>

SendCommit(t) ==
    /\ At(t, "send commit")
    /\ Commit(ProcOf[t])
    /\ accepted' = accepted \cup {task[t].id}
    /\ Goto(t, Idle)
    /\ UNCHANGED <<recv_lock, faults, returned, again>>

-----------------------------------------------------------------------------
(* recv: under the lock, read the patterns, select the candidates, update  *)
(* each delivered_to from the value the select read, commit, return.       *)

\* Mutant of Acquire: no mutual exclusion.
AcquireAlways(t) == recv_lock' = [recv_lock EXCEPT ![ProcOf[t]] = t]

Acquire(t) ==
    /\ recv_lock[ProcOf[t]] = None
    /\ recv_lock' = [recv_lock EXCEPT ![ProcOf[t]] = t]

Release(t) == recv_lock' = [recv_lock EXCEPT ![ProcOf[t]] = None]

RecvStart(t, a, channels, max_messages) ==
    /\ At(t, "idle")
    /\ Acquire(t)
    /\ Goto(t, [at |-> "recv select", agent |-> a, max_messages |-> max_messages,
                channels |-> IF channels = None
                             THEN View(ProcOf[t]).subscriptions[a] ELSE channels])
    /\ NoWrite
    /\ UNCHANGED <<faults, accepted, returned, again>>

\* The first n positions of S in the order Before (one listing, as it is total).
FirstInOrder(n, S, Before(_, _)) ==
    {ids \in [1 .. n -> S] :
        /\ \A x, y \in 1 .. n : x < y => Before(ids[x], ids[y])
        /\ \A x \in 1 .. n : \A i \in S \ ToSet(ids) : Before(ids[x], i)}

\* The rows the scan collects, in the order of the query (channel, sent_at, id).
EligibleRows(rows, a, channels, max_messages) ==
    LET Before(i, j) == \/ Rank[rows[i].channel] < Rank[rows[j].channel]
                        \/ Rank[rows[i].channel] = Rank[rows[j].channel] /\ i < j
        all == {i \in DOMAIN rows :
                   a \notin rows[i].delivered_to /\ rows[i].channel \in channels}
        size == IF max_messages < Cardinality(all) THEN max_messages ELSE Cardinality(all)
    IN  FirstInOrder(size, all, Before)

\* Mutant of Marks: the agents the select saw are forgotten.
MarksForgetting(rows, ids, a) == [i \in ToSet(ids) |-> {a}]

\* The updates write back the agents the select saw, plus the one that drains.
Marks(rows, ids, a) == [i \in ToSet(ids) |-> rows[i].delivered_to \cup {a}]

RecvSelect(t) ==
    LET rows == View(ProcOf[t]).messages
    IN  /\ At(t, "recv select")
        /\ \E ids \in EligibleRows(rows, task[t].agent, task[t].channels, task[t].max_messages) :
              IF ids = <<>>
              THEN Goto(t, Idle) /\ Release(t)
              ELSE /\ Goto(t, [at |-> "recv update", agent |-> task[t].agent, todo |-> ids,
                               batch |-> ToSet(ids), marks |-> Marks(rows, ids, task[t].agent)])
                   /\ UNCHANGED recv_lock
        /\ NoWrite
        /\ UNCHANGED <<faults, accepted, returned, again>>

\* The next UPDATE of recv or unsubscribe.
UpdateNext(t) ==
    LET i == Head(task[t].todo)
        view == View(ProcOf[t])
    IN  /\ Write(ProcOf[t], [view EXCEPT !.messages[i].delivered_to = task[t].marks[i]])
        /\ task' = [task EXCEPT ![t].todo = Tail(@)]

RecvUpdate(t) ==
    /\ At(t, "recv update")
    /\ task[t].todo # <<>>
    /\ UpdateNext(t)
    /\ UNCHANGED <<db, recv_lock, faults, accepted, returned, again>>

\* Mutant of RecvCommit: the commit is forgotten.
RecvWithoutCommit(t) ==
    LET a == task[t].agent
        batch == task[t].batch
    IN  /\ At(t, "recv update")
        /\ task[t].todo = <<>>
        /\ again' = [again EXCEPT ![a] = @ \cup (batch \cap returned[a])]
        /\ returned' = [returned EXCEPT ![a] = @ \cup batch]
        /\ Release(t)
        /\ Goto(t, Idle)
        /\ UNCHANGED <<db, tx, writer, faults, accepted>>

RecvCommit(t) ==
    LET a == task[t].agent
        batch == task[t].batch
    IN  /\ At(t, "recv update")
        /\ task[t].todo = <<>>
        /\ Commit(ProcOf[t])
        /\ again' = [again EXCEPT ![a] = @ \cup (batch \cap returned[a])]
        /\ returned' = [returned EXCEPT ![a] = @ \cup batch]
        /\ Release(t)
        /\ Goto(t, Idle)
        /\ UNCHANGED <<faults, accepted>>

-----------------------------------------------------------------------------
(* subscribe and unsubscribe.                                              *)

SubscribeInsert(t, a, channel) ==
    LET view == View(ProcOf[t])
    IN  /\ At(t, "idle")
        /\ Write(ProcOf[t], [view EXCEPT !.subscriptions[a] = @ \cup {channel}])
        /\ Goto(t, [at |-> "commit"])
        /\ UNCHANGED <<db, recv_lock, faults, accepted, returned, again>>

\* unsubscribe takes the lock and reads the patterns; none removed, it returns.
UnsubscribeStart(t, a, channels) ==
    /\ At(t, "idle")
    /\ View(ProcOf[t]).subscriptions[a] \cap channels # {}
    /\ Acquire(t)
    /\ Goto(t, [at |-> "unsubscribe delete", agent |-> a,
                removed |-> View(ProcOf[t]).subscriptions[a] \cap channels])
    /\ NoWrite
    /\ UNCHANGED <<faults, accepted, returned, again>>

\* The DELETEs and the first commit (one step: no read falls between them).
UnsubscribeDelete(t) ==
    LET view == View(ProcOf[t])
    IN  /\ At(t, "unsubscribe delete")
        /\ writer \in {None, ProcOf[t]}
        /\ db' = [view EXCEPT !.subscriptions[task[t].agent] = @ \ task[t].removed]
        /\ writer' = None
        /\ tx' = None
        /\ Goto(t, [task[t] EXCEPT !.at = "unsubscribe select"])
        /\ UNCHANGED <<recv_lock, faults, accepted, returned, again>>

UnsubscribeSelect(t) ==
    LET rows == View(ProcOf[t]).messages
        a == task[t].agent
        pending == {i \in DOMAIN rows : /\ a \notin rows[i].delivered_to
                                        /\ rows[i].channel \in task[t].removed}
    IN  /\ At(t, "unsubscribe select")
        /\ \E ids \in FirstInOrder(Cardinality(pending), pending, <) :
              IF ids = <<>>
              THEN Goto(t, Idle) /\ Release(t)
              ELSE /\ Goto(t, [at |-> "unsubscribe update", todo |-> ids,
                               marks |-> Marks(rows, ids, a)])
                   /\ UNCHANGED recv_lock
        /\ NoWrite
        /\ UNCHANGED <<faults, accepted, returned, again>>

UnsubscribeUpdate(t) ==
    /\ At(t, "unsubscribe update")
    /\ task[t].todo # <<>>
    /\ UpdateNext(t)
    /\ UNCHANGED <<db, recv_lock, faults, accepted, returned, again>>

\* The last commit of unsubscribe, and the commit of subscribe.
FinalCommit(t) ==
    /\ \/ At(t, "commit") /\ UNCHANGED recv_lock
       \/ At(t, "unsubscribe update") /\ task[t].todo = <<>> /\ Release(t)
    /\ Commit(ProcOf[t])
    /\ Goto(t, Idle)
    /\ UNCHANGED <<faults, accepted, returned, again>>

-----------------------------------------------------------------------------
(* Faults.                                                                 *)

\* The coroutine is cancelled at an await: its lock is released, its result is
\* lost, and what it wrote stays in the open transaction of the process.
Cancel(t) ==
    /\ faults < MaxFaults
    /\ faults' = faults + 1
    /\ ~At(t, "idle")
    /\ recv_lock' = [p \in Procs |-> IF recv_lock[p] = t THEN None ELSE recv_lock[p]]
    /\ Goto(t, Idle)
    /\ NoWrite
    /\ UNCHANGED <<accepted, returned, again>>

\* The process dies: its transaction is rolled back, its coroutines are gone.
Crash(p) ==
    /\ faults < MaxFaults
    /\ faults' = faults + 1
    /\ IF writer = p THEN writer' = None /\ tx' = None ELSE UNCHANGED <<writer, tx>>
    /\ recv_lock' = [recv_lock EXCEPT ![p] = None]
    /\ task' = [t \in Tasks |-> IF ProcOf[t] = p THEN Idle ELSE task[t]]
    /\ UNCHANGED <<db, accepted, returned, again>>

-----------------------------------------------------------------------------

\* A coroutine goes on with the operation it has begun.
Continue(t) ==
    \/ SendInsert(t)
    \/ SendCommit(t)
    \/ RecvSelect(t)
    \/ RecvUpdate(t)
    \/ RecvCommit(t)
    \/ UnsubscribeDelete(t)
    \/ UnsubscribeSelect(t)
    \/ UnsubscribeUpdate(t)
    \/ FinalCommit(t)

Next ==
    \/ \E t \in Tasks, c \in Channels : SendReadSeq(t, c)
    \/ \E t \in Tasks, a \in Agents, cs \in Scopes, k \in Limits :
          RecvStart(t, a, cs, k)
    \/ \E t \in Tasks, a \in Agents, c \in Channels : SubscribeInsert(t, a, c)
    \/ \E t \in Tasks, a \in Agents, cs \in SUBSET Channels \ {{}} : UnsubscribeStart(t, a, cs)
    \/ \E t \in Tasks : Continue(t)
    \/ \E t \in Tasks : Cancel(t)
    \/ \E p \in Procs : Crash(p)

\* A coroutine whose statement can run is resumed.  asyncio.Lock is fair, so a
\* coroutine that waits for the lock is not modelled as a state of its own.
Spec == Init /\ [][Next]_vars /\ \A t \in Tasks : WF_vars(Continue(t))

-----------------------------------------------------------------------------
(* Properties.                                                             *)

\* spec/ports/backing-store.md sections 2.2 and 3.2: recv returns no message to
\* the same agent twice.
DeliveredOnce == \A a \in Agents : again[a] = {}

\* A message that recv has returned is marked so in the committed database, and
\* stays so: no crash, rollback or overlapping update makes it pending again.
ReturnedIsMarked ==
    \A a \in Agents : \A i \in returned[a] :
        i \in DOMAIN db.messages /\ a \in db.messages[i].delivered_to

\* No commit takes back a delivery mark that was committed before: updates that
\* write the whole delivered_to column never overwrite one another.
MarksAreKept ==
    [][\A i \in DOMAIN db.messages :
          db.messages[i].delivered_to \subseteq db'.messages[i].delivered_to]_db

\* A message that send has returned is in the committed database, even when the
\* insert was committed by another coroutine, cancelled or not, and whatever
\* transaction a crash rolls back.
AcceptedIsDurable == \A i \in accepted : i \in DOMAIN db.messages

\* An operation that has begun ends: the coroutine lock of a process and the
\* write lock of the database never wait for each other.
OperationsEnd ==
    \A t \in Tasks : (~At(t, "idle")) ~> At(t, "idle")

\* spec/primitives/sequence-numbers.md section 2: two messages on the same
\* channel do not share a seq.
SeqUnique ==
    \A i, j \in DOMAIN db.messages :
        (/\ db.messages[i].channel = db.messages[j].channel
         /\ db.messages[i].seq = db.messages[j].seq) => i = j

=============================================================================
