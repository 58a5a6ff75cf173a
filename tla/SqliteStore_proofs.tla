-------------------------- MODULE SqliteStore_proofs ------------------------
(***************************************************************************)
(* Proofs about SqliteStore, for any number of processes, coroutines,      *)
(* agents, channels, messages, crashes and cancellations.                  *)
(*                                                                         *)
(* A message is in the database its process sees from its insert on; what  *)
(* a process sees and has not committed can be lost only with the process, *)
(* and with it every coroutine that could still return the message.        *)
(*                                                                         *)
(* Delivery marks are a matter of one process: its coroutines see one      *)
(* another's updates and exclude one another by _recv_lock.  The theorems  *)
(* about them assume that one process opens the file, and the run          *)
(* sqlite_two shows that two would break them.                             *)
(***************************************************************************)
EXTENDS SqliteStore, SequenceTheorems, FiniteSetTheorems, TLAPS

-----------------------------------------------------------------------------
(* Databases.                                                              *)

IsSeq(s) == \E S : s \in Seq(S)

DatabaseOK(d) ==
    /\ d = [messages |-> d.messages, subscriptions |-> d.subscriptions]
    /\ IsSeq(d.messages)

Ids(d) == DOMAIN d.messages

\* An insert adds the next rowid.
LEMMA InsertAdds ==
    ASSUME NEW d, DatabaseOK(d), NEW row,
           NEW new, new = [d EXCEPT !.messages = Append(@, row)]
    PROVE  DatabaseOK(new) /\ Ids(new) = Ids(d) \cup {Len(d.messages) + 1}
<1>1. DOMAIN d = {"messages", "subscriptions"}
  BY DEF DatabaseOK
<1>2. /\ new.messages = Append(d.messages, row)
      /\ new = [messages |-> new.messages, subscriptions |-> new.subscriptions]
  BY <1>1
<1>3. PICK S : d.messages \in Seq(S)
  BY DEF DatabaseOK, IsSeq
<1>4. d.messages \in Seq(S \cup {row})
  BY <1>3
<1>5. /\ Append(d.messages, row) \in Seq(S \cup {row})
      /\ DOMAIN Append(d.messages, row) = DOMAIN d.messages \cup {Len(d.messages) + 1}
  BY <1>4
<1> QED
  BY <1>2, <1>5 DEF DatabaseOK, IsSeq, Ids

\* An update of a delivery column adds and removes no row.
LEMMA UpdateKeeps ==
    ASSUME NEW d, DatabaseOK(d), NEW i, NEW marks,
           NEW new, new = [d EXCEPT !.messages[i].delivered_to = marks]
    PROVE  DatabaseOK(new) /\ Ids(new) = Ids(d)
<1> DEFINE row == [d.messages[i] EXCEPT !.delivered_to = marks]
<1>1. DOMAIN d = {"messages", "subscriptions"}
  BY DEF DatabaseOK
<1>2. /\ new.messages = [d.messages EXCEPT ![i] = row]
      /\ new = [messages |-> new.messages, subscriptions |-> new.subscriptions]
  BY <1>1
<1> HIDE DEF row
<1>3. PICK S : d.messages \in Seq(S)
  BY DEF DatabaseOK, IsSeq
<1>4. d.messages \in Seq(S \cup {row})
  BY <1>3
<1>5. /\ [d.messages EXCEPT ![i] = row] \in Seq(S \cup {row})
      /\ DOMAIN [d.messages EXCEPT ![i] = row] = DOMAIN d.messages
  <2>1. PICK n \in Nat : d.messages \in [1 .. n -> S \cup {row}]
    BY <1>4
  <2>2. [d.messages EXCEPT ![i] = row] \in [1 .. n -> S \cup {row}]
    BY <2>1
  <2> QED
    BY <2>1, <2>2, SeqDef
<1> QED
  BY <1>2, <1>5 DEF DatabaseOK, IsSeq, Ids

\* Patterns come and go without touching the messages.
LEMMA PatternsKeep ==
    ASSUME NEW d, DatabaseOK(d), NEW a, NEW patterns,
           NEW new, new = [d EXCEPT !.subscriptions[a] = patterns]
    PROVE  DatabaseOK(new) /\ Ids(new) = Ids(d)
<1>1. DOMAIN d = {"messages", "subscriptions"}
  BY DEF DatabaseOK
<1>2. /\ new.messages = d.messages
      /\ new = [messages |-> new.messages, subscriptions |-> new.subscriptions]
  BY <1>1
<1> QED
  BY <1>2 DEF DatabaseOK, Ids

-----------------------------------------------------------------------------
(* What the steps do to the database and to the coroutine that takes them. *)

\* The coroutine goes on, or ends, and has nothing to return that could be lost.
Elsewhere(t) ==
    \E state : /\ "at" \in DOMAIN state /\ state.at # "send commit"
               /\ task' = [task EXCEPT ![t] = state]

Stays(t) == Elsewhere(t) /\ UNCHANGED <<db, tx, writer, accepted>>

\* It writes in the transaction of its process, and may have inserted a row.
Writes(t) ==
    /\ writer \in {None, ProcOf[t]} /\ writer' = ProcOf[t]
    /\ DatabaseOK(tx') /\ Ids(View(ProcOf[t])) \subseteq Ids(tx')
    /\ UNCHANGED <<db, accepted>>
    /\ \/ Elsewhere(t)
       \/ \E state : /\ "at" \in DOMAIN state /\ state.id \in Ids(tx')
                     /\ task' = [task EXCEPT ![t] = state]

\* It commits, and may return the row it inserted.
Commits(t) ==
    /\ Elsewhere(t)
    /\ Commit(ProcOf[t])
    /\ accepted' = accepted \/ (At(t, "send commit") /\ accepted' = accepted \cup {task[t].id})

\* It writes and commits at once.
WritesAndCommits(t) ==
    /\ Elsewhere(t)
    /\ writer \in {None, ProcOf[t]} /\ writer' = None
    /\ DatabaseOK(db') /\ Ids(db') = Ids(View(ProcOf[t]))
    /\ UNCHANGED accepted

-----------------------------------------------------------------------------
(* The inductive invariant.                                                *)

\* What makes AcceptedIsDurable inductive: the open transaction has every committed row,
\* and a row about to be returned is where its process sees it.
DurableInv ==
    /\ DatabaseOK(db)
    /\ writer \in Procs \cup {None}
    /\ writer # None => DatabaseOK(tx) /\ Ids(db) \subseteq Ids(tx)
    /\ task = [t \in Tasks |-> task[t]]
    /\ \A t \in Tasks :
          /\ "at" \in DOMAIN task[t]
          /\ At(t, "send commit") => task[t].id \in Ids(View(ProcOf[t]))
    /\ accepted \subseteq Ids(db)

\* What any process sees is a database that has every committed row.
LEMMA ViewOK ==
    ASSUME DurableInv, NEW t \in Tasks
    PROVE  /\ ProcOf[t] \in Procs /\ ProcOf[t] # None
           /\ DatabaseOK(View(ProcOf[t])) /\ Ids(db) \subseteq Ids(View(ProcOf[t]))
<1>1. ProcOf[t] \in Procs /\ ProcOf[t] # None
  BY SqliteAssumption
<1> QED
  BY <1>1 DEF DurableInv, View

LEMMA IdleElsewhere ==
    ASSUME NEW t, Goto(t, Idle)
    PROVE  Elsewhere(t)
<1>1. "at" \in DOMAIN Idle /\ Idle.at # "send commit"
  BY DEF Idle
<1> QED
  BY <1>1 DEF Elsewhere, Goto

\* An update of recv or unsubscribe.
LEMMA UpdateWrites ==
    ASSUME DurableInv, NEW t \in Tasks, UpdateNext(t), UNCHANGED <<db, accepted>>,
           ~At(t, "send commit")
    PROVE  Writes(t)
<1> DEFINE i == Head(task[t].todo)
           view == View(ProcOf[t])
           state == [task[t] EXCEPT !.todo = Tail(task[t].todo)]
<1>1. /\ writer \in {None, ProcOf[t]} /\ writer' = ProcOf[t]
      /\ tx' = [view EXCEPT !.messages[i].delivered_to = task[t].marks[i]]
  BY DEF UpdateNext, Write
<1>2. DatabaseOK(tx') /\ Ids(tx') = Ids(view)
  <2>1. DatabaseOK(view)
    BY ViewOK
  <2>2. PICK j, marks : j = i /\ marks = task[t].marks[i]
    OBVIOUS
  <2>3. tx' = [view EXCEPT !.messages[j].delivered_to = marks]
    BY <1>1, <2>2
  <2> HIDE DEF view, i
  <2> QED
    BY <2>1, <2>3, UpdateKeeps
<1>3. task' = [task EXCEPT ![t] = state]
  BY DEF UpdateNext
<1>4. "at" \in DOMAIN state /\ state.at # "send commit"
  BY DEF DurableInv, At
<1>5. Elsewhere(t)
  <2> HIDE DEF state
  <2> QED
    BY <1>3, <1>4 DEF Elsewhere
<1> QED
  BY <1>1, <1>2, <1>5 DEF Writes

\* The select of recv ends the call or goes on to the updates.
LEMMA RecvSelectGoes ==
    ASSUME NEW t \in Tasks, RecvSelect(t)
    PROVE  Elsewhere(t)
<1> DEFINE rows == View(ProcOf[t]).messages
           a == task[t].agent
<1>1. PICK ids : \/ Goto(t, Idle)
                 \/ Goto(t, [at |-> "recv update", agent |-> a, todo |-> ids,
                             batch |-> ToSet(ids), marks |-> Marks(rows, ids, a)])
  BY DEF RecvSelect
<1>2. CASE Goto(t, Idle)
  BY <1>2, IdleElsewhere
<1>3. CASE ~Goto(t, Idle)
  <2>1. PICK marks : task' = [task EXCEPT ![t] =
                        [at |-> "recv update", agent |-> a, todo |-> ids,
                         batch |-> ToSet(ids), marks |-> marks]]
    BY <1>1, <1>3 DEF Goto
  <2> QED
    BY <2>1 DEF Elsewhere
<1> QED
  BY <1>2, <1>3

\* The select of unsubscribe ends the call or goes on to the updates.
LEMMA UnsubscribeSelectGoes ==
    ASSUME NEW t \in Tasks, UnsubscribeSelect(t)
    PROVE  Elsewhere(t)
<1> DEFINE rows == View(ProcOf[t]).messages
           a == task[t].agent
<1>1. PICK ids : \/ Goto(t, Idle)
                 \/ Goto(t, [at |-> "unsubscribe update", todo |-> ids,
                             marks |-> Marks(rows, ids, a)])
  BY DEF UnsubscribeSelect
<1>2. CASE Goto(t, Idle)
  BY <1>2, IdleElsewhere
<1>3. CASE ~Goto(t, Idle)
  <2>1. PICK marks : task' = [task EXCEPT ![t] =
                        [at |-> "unsubscribe update", todo |-> ids, marks |-> marks]]
    BY <1>1, <1>3 DEF Goto
  <2> QED
    BY <2>1 DEF Elsewhere
<1> QED
  BY <1>2, <1>3

\* Every step is one of these.
LEMMA StepKinds ==
    ASSUME DurableInv, [Next]_vars
    PROVE  \/ UNCHANGED <<db, tx, writer, task, accepted>>
           \/ \E t \in Tasks : Stays(t) \/ Writes(t) \/ Commits(t) \/ WritesAndCommits(t)
           \/ \E p \in Procs : Crash(p)
<1>1. CASE UNCHANGED vars
  BY <1>1 DEF vars
<1>2. ASSUME NEW t \in Tasks, NEW c \in Channels, SendReadSeq(t, c)
      PROVE  Stays(t)
  BY <1>2 DEF SendReadSeq, Goto, NoWrite, Stays, Elsewhere
<1>3. ASSUME NEW t \in Tasks, NEW a \in Agents, NEW cs \in Scopes, NEW k \in Limits,
             RecvStart(t, a, cs, k)
      PROVE  Stays(t)
  <2>1. PICK scope : scope = IF cs = None THEN View(ProcOf[t]).subscriptions[a] ELSE cs
    OBVIOUS
  <2>2. task' = [task EXCEPT ![t] = [at |-> "recv select", agent |-> a,
                                     max_messages |-> k, channels |-> scope]]
    BY <1>3, <2>1 DEF RecvStart, Goto
  <2>3. Elsewhere(t)
    BY <2>2 DEF Elsewhere
  <2> QED
    BY <1>3, <2>3 DEF RecvStart, NoWrite, Stays
<1>4. ASSUME NEW t \in Tasks, NEW a \in Agents, NEW c \in Channels, SubscribeInsert(t, a, c)
      PROVE  Writes(t)
  <2> DEFINE view == View(ProcOf[t])
  <2>1. tx' = [view EXCEPT !.subscriptions[a] = view.subscriptions[a] \cup {c}]
    BY <1>4 DEF SubscribeInsert, Write
  <2>2. DatabaseOK(tx') /\ Ids(tx') = Ids(view)
    <3>1. DatabaseOK(view)
      BY ViewOK
    <3>2. PICK patterns : patterns = view.subscriptions[a] \cup {c}
      OBVIOUS
    <3>3. tx' = [view EXCEPT !.subscriptions[a] = patterns]
      BY <2>1, <3>2
    <3> HIDE DEF view
    <3> QED
      BY <3>1, <3>3, PatternsKeep
  <2>3. Elsewhere(t)
    BY <1>4 DEF SubscribeInsert, Goto, Elsewhere
  <2> QED
    BY <1>4, <2>2, <2>3 DEF SubscribeInsert, Write, Writes
<1>5. ASSUME NEW t \in Tasks, NEW a \in Agents, NEW cs, UnsubscribeStart(t, a, cs)
      PROVE  Stays(t)
  BY <1>5 DEF UnsubscribeStart, Goto, NoWrite, Stays, Elsewhere
<1>6. ASSUME NEW t \in Tasks, Continue(t)
      PROVE  Stays(t) \/ Writes(t) \/ Commits(t) \/ WritesAndCommits(t)
  <2>1. CASE SendInsert(t)
    <3> DEFINE view == View(ProcOf[t])
               row == [channel |-> task[t].channel, seq |-> task[t].seq, delivered_to |-> {}]
               state == [at |-> "send commit", id |-> Len(view.messages) + 1]
    <3>1. /\ writer \in {None, ProcOf[t]} /\ writer' = ProcOf[t]
          /\ tx' = [view EXCEPT !.messages = Append(view.messages, row)]
          /\ UNCHANGED <<db, accepted>>
          /\ task' = [task EXCEPT ![t] = state]
      BY <2>1 DEF SendInsert, Write, Goto
    <3>2. DatabaseOK(tx') /\ Ids(tx') = Ids(view) \cup {Len(view.messages) + 1}
      <4> HIDE DEF row, view
      <4>1. DatabaseOK(view)
        BY ViewOK DEF view
      <4> QED
        BY <3>1, <4>1, InsertAdds
    <3>3. "at" \in DOMAIN state /\ state.id \in Ids(tx')
      BY <3>2
    <3> HIDE DEF state
    <3> QED
      BY <3>1, <3>2, <3>3 DEF Writes
  <2>2. CASE SendCommit(t)
    BY <2>2, IdleElsewhere DEF SendCommit, Commits
  <2>3. CASE RecvSelect(t)
    <3>1. Elsewhere(t)
      BY <2>3, RecvSelectGoes
    <3> QED
      BY <2>3, <3>1 DEF RecvSelect, NoWrite, Stays
  <2>4. CASE RecvUpdate(t) \/ UnsubscribeUpdate(t)
    BY <2>4, UpdateWrites DEF RecvUpdate, UnsubscribeUpdate, At
  <2>5. CASE RecvCommit(t)
    BY <2>5, IdleElsewhere DEF RecvCommit, Commits
  <2>6. CASE UnsubscribeDelete(t)
    <3> DEFINE view == View(ProcOf[t])
               state == [task[t] EXCEPT !.at = "unsubscribe select"]
    <3>1. /\ db' = [view EXCEPT !.subscriptions[task[t].agent] =
                        view.subscriptions[task[t].agent] \ task[t].removed]
          /\ task' = [task EXCEPT ![t] = state]
      BY <2>6 DEF UnsubscribeDelete, Goto
    <3>2. DatabaseOK(db') /\ Ids(db') = Ids(view)
      <4>1. DatabaseOK(view)
        BY ViewOK
      <4>2. PICK a, patterns : /\ a = task[t].agent
                               /\ patterns = view.subscriptions[a] \ task[t].removed
        OBVIOUS
      <4>3. db' = [view EXCEPT !.subscriptions[a] = patterns]
        BY <3>1, <4>2
      <4> HIDE DEF view
      <4> QED
        BY <4>1, <4>3, PatternsKeep
    <3>3. "at" \in DOMAIN state /\ state.at # "send commit"
      BY DEF DurableInv
    <3>4. Elsewhere(t)
      <4> HIDE DEF state
      <4> QED
        BY <3>1, <3>3 DEF Elsewhere
    <3> QED
      BY <2>6, <3>2, <3>4 DEF UnsubscribeDelete, WritesAndCommits
  <2>7. CASE UnsubscribeSelect(t)
    <3>1. Elsewhere(t)
      BY <2>7, UnsubscribeSelectGoes
    <3> QED
      BY <2>7, <3>1 DEF UnsubscribeSelect, NoWrite, Stays
  <2>8. CASE FinalCommit(t)
    BY <2>8, IdleElsewhere DEF FinalCommit, Commits
  <2> QED
    BY <1>6, <2>1, <2>2, <2>3, <2>4, <2>5, <2>6, <2>7, <2>8 DEF Continue
<1>7. ASSUME NEW t \in Tasks, Cancel(t)
      PROVE  Stays(t)
  BY <1>7, IdleElsewhere DEF Cancel, NoWrite, Stays
<1> QED
  BY <1>1, <1>2, <1>3, <1>4, <1>5, <1>6, <1>7 DEF Next

-----------------------------------------------------------------------------
(* The steps keep the invariant.                                           *)

\* Where a coroutine is after a step of t.
LEMMA OneCoroutine ==
    ASSUME DurableInv, NEW t \in Tasks, NEW state, "at" \in DOMAIN state,
           task' = [task EXCEPT ![t] = state]
    PROVE  /\ task' = [u \in Tasks |-> task'[u]]
           /\ \A u \in Tasks : /\ "at" \in DOMAIN task'[u]
                               /\ task'[u] = IF u = t THEN state ELSE task[u]
  BY DEF DurableInv

LEMMA StaysKeeps ==
    ASSUME DurableInv, NEW t \in Tasks, Stays(t)
    PROVE  DurableInv'
<1>1. PICK state : /\ "at" \in DOMAIN state /\ state.at # "send commit"
                   /\ task' = [task EXCEPT ![t] = state]
  BY DEF Stays, Elsewhere
<1> QED
  BY <1>1, OneCoroutine DEF Stays, DurableInv, At, View, Ids, DatabaseOK

LEMMA WritesKeeps ==
    ASSUME DurableInv, NEW t \in Tasks, Writes(t)
    PROVE  DurableInv'
<1>1. PICK state : /\ "at" \in DOMAIN state
                   /\ state.at # "send commit" \/ state.id \in Ids(tx')
                   /\ task' = [task EXCEPT ![t] = state]
  BY DEF Writes, Elsewhere
<1>2. /\ writer \in {None, ProcOf[t]} /\ writer' = ProcOf[t] /\ db' = db
      /\ accepted' = accepted
      /\ DatabaseOK(tx') /\ Ids(View(ProcOf[t])) \subseteq Ids(tx')
      /\ ProcOf[t] \in Procs /\ ProcOf[t] # None
      /\ DatabaseOK(tx)' /\ Ids(tx)' = Ids(tx')
  BY ViewOK DEF Writes, DatabaseOK, Ids
<1>3. ASSUME NEW u \in Tasks, At(u, "send commit")'
      PROVE  task'[u].id \in Ids(View(ProcOf[u])')
  <2>1. CASE u = t
    BY <1>1, <1>2, <1>3, <2>1, OneCoroutine DEF At, View
  <2>2. CASE u # t
    <3>1. task'[u] = task[u] /\ task[u].id \in Ids(View(ProcOf[u]))
      BY <1>1, <1>3, <2>2, OneCoroutine DEF At, DurableInv
    <3>2. CASE ProcOf[u] = ProcOf[t]
      BY <1>2, <3>1, <3>2 DEF View
    <3>3. CASE ProcOf[u] # ProcOf[t]
      <4>1. View(ProcOf[u]) = db /\ View(ProcOf[u])' = db
        BY <1>2, <3>3, ViewOK DEF View
      <4> QED
        BY <3>1, <4>1
    <3> QED
      BY <3>2, <3>3
  <2> QED
    BY <2>1, <2>2
<1>4. Ids(db) \subseteq Ids(tx')
  BY <1>2, ViewOK
<1> QED
  BY <1>1, <1>2, <1>3, <1>4, OneCoroutine DEF DurableInv, Ids, DatabaseOK

\* A commit of what a process sees: the rows of everybody are still there.
LEMMA CommitKeeps ==
    ASSUME DurableInv, NEW t \in Tasks, Elsewhere(t),
           writer \in {None, ProcOf[t]}, writer' = None,
           DatabaseOK(db'), Ids(db') = Ids(View(ProcOf[t])),
           accepted' \subseteq accepted \cup Ids(db')
    PROVE  DurableInv'
<1>1. PICK state : /\ "at" \in DOMAIN state /\ state.at # "send commit"
                   /\ task' = [task EXCEPT ![t] = state]
  BY DEF Elsewhere
<1>2. Ids(db) \subseteq Ids(db')
  BY ViewOK
<1>3. ASSUME NEW u \in Tasks, At(u, "send commit")'
      PROVE  task'[u].id \in Ids(View(ProcOf[u])')
  <2>1. task'[u] = task[u] /\ task[u].id \in Ids(View(ProcOf[u]))
    BY <1>1, <1>3, OneCoroutine DEF At, DurableInv
  <2>2. View(ProcOf[u])' = db'
    BY ViewOK DEF View
  <2>3. View(ProcOf[u]) \in {db, View(ProcOf[t])}
    BY ViewOK DEF View
  <2> QED
    BY <1>2, <2>1, <2>2, <2>3
<1>4. accepted' \subseteq Ids(db')
  BY <1>2 DEF DurableInv
<1> QED
  BY <1>1, <1>3, <1>4, OneCoroutine DEF DurableInv, Ids, DatabaseOK

LEMMA CommitsKeeps ==
    ASSUME DurableInv, NEW t \in Tasks, Commits(t)
    PROVE  DurableInv'
<1>1. accepted' \subseteq accepted \cup Ids(View(ProcOf[t]))
  BY DEF Commits, DurableInv
<1>2. CASE writer = ProcOf[t]
  <2>1. db' = View(ProcOf[t]) /\ writer' = None
    BY <1>2 DEF Commits, Commit, View
  <2> QED
    BY <1>1, <1>2, <2>1, ViewOK, CommitKeeps DEF Commits
<1>3. CASE writer # ProcOf[t]
  <2>1. /\ UNCHANGED <<db, tx, writer>> /\ View(ProcOf[t]) = db
        /\ accepted' \subseteq Ids(db)
    BY <1>1, <1>3 DEF Commits, Commit, View, DurableInv
  <2>2. PICK state : /\ "at" \in DOMAIN state /\ state.at # "send commit"
                     /\ task' = [task EXCEPT ![t] = state]
    BY DEF Commits, Elsewhere
  <2> QED
    BY <2>1, <2>2, OneCoroutine DEF DurableInv, At, View, Ids, DatabaseOK
<1> QED
  BY <1>2, <1>3

\* A crash rolls back the transaction of the process and ends its coroutines.
LEMMA CrashKeeps ==
    ASSUME DurableInv, NEW p \in Procs, Crash(p)
    PROVE  DurableInv'
<1>1. /\ task' = [u \in Tasks |-> IF ProcOf[u] = p THEN Idle ELSE task[u]]
      /\ db' = db /\ accepted' = accepted
      /\ writer' = IF writer = p THEN None ELSE writer
      /\ writer # p => tx' = tx
  BY DEF Crash
<1>2. "at" \in DOMAIN Idle /\ Idle.at # "send commit"
  BY DEF Idle
<1>3. ASSUME NEW u \in Tasks, At(u, "send commit")'
      PROVE  task'[u].id \in Ids(View(ProcOf[u])')
  <2>1. ProcOf[u] # p /\ task'[u] = task[u]
    BY <1>1, <1>2, <1>3 DEF At
  <2>2. View(ProcOf[u])' = View(ProcOf[u])
    BY <1>1, <2>1, ViewOK DEF View
  <2> QED
    BY <1>3, <2>1, <2>2 DEF DurableInv, At
<1> QED
  BY <1>1, <1>2, <1>3, SqliteAssumption DEF DurableInv, Ids, DatabaseOK

LEMMA DurableInit == Init => DurableInv
<1> SUFFICES ASSUME Init
             PROVE  DurableInv
  OBVIOUS
<1>1. DatabaseOK(db)
  BY DEF Init, DatabaseOK, IsSeq
<1>2. \A t \in Tasks : "at" \in DOMAIN task[t] /\ ~At(t, "send commit")
  BY DEF Init, Idle, At
<1> QED
  BY <1>1, <1>2 DEF Init, DurableInv

LEMMA DurableStep == DurableInv /\ [Next]_vars => DurableInv'
<1> SUFFICES ASSUME DurableInv, [Next]_vars
             PROVE  DurableInv'
  OBVIOUS
<1>1. CASE UNCHANGED <<db, tx, writer, task, accepted>>
  BY <1>1 DEF DurableInv, At, View, Ids, DatabaseOK
<1>2. ASSUME NEW t \in Tasks, WritesAndCommits(t)
      PROVE  DurableInv'
  BY <1>2, CommitKeeps DEF WritesAndCommits
<1> QED
  BY <1>1, <1>2, StepKinds, StaysKeeps, WritesKeeps, CommitsKeeps, CrashKeeps

\* A message that send has returned is in the committed database, whichever coroutine
\* commits it, whoever is cancelled, and whatever transaction a crash rolls back: send()
\* returns only after a commit of the shared connection (SqliteStore.send).
THEOREM AcceptedIsDurableAlways == Spec => []AcceptedIsDurable
<1>1. DurableInv => AcceptedIsDurable
  BY DEF DurableInv, AcceptedIsDurable, Ids
<1> QED
  BY <1>1, DurableInit, DurableStep, PTL DEF Spec

-----------------------------------------------------------------------------
(* Delivery marks, when one process opens the database file.               *)
(*                                                                         *)
(* The coroutines of a process share a connection, so they all see the     *)
(* same rows (Rows), committed or not, and only the holder of _recv_lock   *)
(* updates them: what its select saw is what its updates replace.          *)

OneProcess == \A p, q \in Procs : p = q

\* The rows as the coroutines of the process see them.
Rows == IF writer = None THEN db.messages ELSE tx.messages

Marked(rows) == \A i \in DOMAIN rows : "delivered_to" \in DOMAIN rows[i]

InLock(t) ==
    task[t].at \in {"recv select", "recv update", "unsubscribe delete",
                    "unsubscribe select", "unsubscribe update"}

Updating(t) == At(t, "recv update") \/ At(t, "unsubscribe update")

\* The pending updates of t only add marks to the rows as they are now.
TodoOK(t) ==
    /\ "todo" \in DOMAIN task[t]
    /\ task[t].todo \in Seq(DOMAIN Rows)
    /\ \A i \in ToSet(task[t].todo) : Rows[i].delivered_to \subseteq task[t].marks[i]

\* The batch of a recv is new to its agent, and each of its rows is marked
\* for the agent or will be by an update that is still to come.
BatchOK(t) ==
    LET a == task[t].agent
    IN  /\ a \in Agents
        /\ \A i \in ToSet(task[t].todo) : a \in task[t].marks[i]
        /\ \A i \in task[t].batch :
              /\ i \in DOMAIN Rows
              /\ i \in ToSet(task[t].todo) \/ a \in Rows[i].delivered_to
              /\ i \notin returned[a]

CoroutineOK(t) ==
    /\ InLock(t) => recv_lock[ProcOf[t]] = t
    /\ At(t, "recv select") => task[t].agent \in Agents /\ task[t].max_messages \in Limits
    /\ Updating(t) => TodoOK(t)
    /\ At(t, "recv update") => BatchOK(t)

\* What was returned is marked in the database, and every mark of the database
\* is one the process sees.
StoredOK ==
    /\ Marked(db.messages) /\ Marked(Rows)
    /\ \A i \in DOMAIN db.messages :
          /\ i \in DOMAIN Rows
          /\ db.messages[i].delivered_to \subseteq Rows[i].delivered_to
    /\ returned = [a \in Agents |-> returned[a]]
    /\ \A a \in Agents : \A i \in returned[a] :
          i \in DOMAIN db.messages /\ a \in db.messages[i].delivered_to
    /\ again = [a \in Agents |-> {}]

\* The inductive invariant.
MarksInv ==
    /\ DurableInv
    /\ recv_lock = [p \in Procs |-> recv_lock[p]]
    /\ StoredOK
    /\ \A t \in Tasks : CoroutineOK(t)

LEMMA ProcessSees ==
    ASSUME OneProcess, DurableInv, NEW t \in Tasks
    PROVE  /\ ProcOf[t] \in Procs /\ writer \in {None, ProcOf[t]}
           /\ View(ProcOf[t]).messages = Rows /\ IsSeq(Rows)
<1>1. ProcOf[t] \in Procs /\ ProcOf[t] # None
  BY SqliteAssumption
<1>2. writer \in {None, ProcOf[t]}
  BY <1>1 DEF OneProcess, DurableInv
<1> QED
  BY <1>1, <1>2 DEF View, Rows, DurableInv, DatabaseOK

\* The rows a recv collects are rows its agent has not received.
LEMMA EligibleAreUnread ==
    ASSUME NEW rows, IsSeq(rows), NEW a, NEW channels, NEW k \in Nat,
           NEW ids \in EligibleRows(rows, a, channels, k)
    PROVE  /\ ids \in Seq(DOMAIN rows)
           /\ \A i \in ToSet(ids) : i \in DOMAIN rows /\ a \notin rows[i].delivered_to
<1> DEFINE all == {i \in DOMAIN rows :
                      a \notin rows[i].delivered_to /\ rows[i].channel \in channels}
           size == IF k < Cardinality(all) THEN k ELSE Cardinality(all)
<1>1. ids \in [1 .. size -> all]
  BY DEF EligibleRows, FirstInOrder
<1>2. Cardinality(all) \in Nat
  <2>1. DOMAIN rows = 1 .. Len(rows) /\ Len(rows) \in Nat
    BY DEF IsSeq
  <2>2. IsFiniteSet(DOMAIN rows)
    BY <2>1, FS_Interval
  <2>3. IsFiniteSet(all)
    BY <2>2, FS_Subset
  <2> QED
    BY <2>3, FS_CardinalityType
<1>3. size \in Nat
  BY <1>2
<1> HIDE DEF size
<1>4. ids \in Seq(all)
  BY <1>1, <1>3
<1> QED
  BY <1>1, <1>4 DEF ToSet

\* A listing of some of the rows is a list of rows.
LEMMA PendingIsListed ==
    ASSUME NEW rows, IsSeq(rows), NEW pending, pending \subseteq DOMAIN rows,
           NEW ids \in [1 .. Cardinality(pending) -> pending]
    PROVE  ids \in Seq(DOMAIN rows)
<1>2. Cardinality(pending) \in Nat
  <2>1. DOMAIN rows = 1 .. Len(rows) /\ Len(rows) \in Nat
    BY DEF IsSeq
  <2>2. IsFiniteSet(DOMAIN rows)
    BY <2>1, FS_Interval
  <2>3. IsFiniteSet(pending)
    BY <2>2, FS_Subset
  <2> QED
    BY <2>3, FS_CardinalityType
<1>3. PICK n \in Nat : ids \in [1 .. n -> DOMAIN rows]
  BY <1>2
<1> QED
  BY <1>3

-----------------------------------------------------------------------------
(* Frames: what a step of one coroutine leaves alone.                      *)

\* A commit publishes the rows as they are.
LEMMA CommitRows ==
    ASSUME OneProcess, DurableInv, NEW t \in Tasks, Commit(ProcOf[t])
    PROVE  Rows' = Rows /\ db'.messages = Rows
<1>1. CASE writer = ProcOf[t]
  <2>1. db' = tx /\ writer' = None /\ writer # None
    BY <1>1, ViewOK DEF Commit
  <2> QED
    BY <2>1 DEF Rows
<1>2. CASE writer # ProcOf[t]
  <2>1. writer = None /\ UNCHANGED <<db, writer, tx>>
    BY <1>2, ProcessSees DEF Commit
  <2> QED
    BY <2>1 DEF Rows
<1> QED
  BY <1>1, <1>2

LEMMA OnlyHolder ==
    ASSUME OneProcess, MarksInv, NEW t \in Tasks, NEW u \in Tasks, InLock(t), InLock(u)
    PROVE  t = u
<1>1. ProcOf[t] = ProcOf[u]
  BY SqliteAssumption DEF OneProcess
<1> QED
  BY <1>1 DEF MarksInv, CoroutineOK

LEMMA OutOfLock ==
    ASSUME NEW u \in Tasks, ~InLock(u)'
    PROVE  CoroutineOK(u)'
  BY DEF InLock, CoroutineOK, Updating, At

\* The marks of the rows a coroutine knows are those it knows.
SameMarks ==
    \A i \in DOMAIN Rows : /\ i \in DOMAIN Rows'
                           /\ Rows'[i].delivered_to = Rows[i].delivered_to

LEMMA Undisturbed ==
    ASSUME MarksInv, NEW u \in Tasks, task'[u] = task[u], SameMarks, returned' = returned,
           InLock(u) => recv_lock'[ProcOf[u]] = recv_lock[ProcOf[u]]
    PROVE  CoroutineOK(u)'
<1>1. CoroutineOK(u)
  BY DEF MarksInv
<1>2. InLock(u)' <=> InLock(u)
  BY DEF InLock
<1>3. ASSUME TodoOK(u)
      PROVE  TodoOK(u)'
  <2>1. task[u].todo \in Seq(DOMAIN Rows')
    BY <1>3 DEF TodoOK, SameMarks
  <2>2. \A i \in ToSet(task[u].todo) : i \in DOMAIN Rows
    BY <1>3 DEF TodoOK, ToSet
  <2>3. \A i \in ToSet(task[u].todo) : Rows'[i].delivered_to \subseteq task[u].marks[i]
    BY <1>3, <2>2 DEF TodoOK, SameMarks
  <2> QED
    BY <1>3, <2>1, <2>3 DEF TodoOK
<1>4. ASSUME BatchOK(u)
      PROVE  BatchOK(u)'
  BY <1>4 DEF BatchOK, SameMarks
<1> QED
  BY <1>1, <1>2, <1>3, <1>4 DEF CoroutineOK, Updating, At

\* Besides the coroutine that takes the step, only a holder of the lock has
\* something to lose, and it is not disturbed.
LEMMA OthersKeep ==
    ASSUME OneProcess, MarksInv, NEW t \in Tasks, CoroutineOK(t)',
           \A u \in Tasks \ {t} : task'[u] = task[u],
           \/ InLock(t)
           \/ /\ SameMarks /\ returned' = returned
              /\ \A u \in Tasks \ {t} :
                    InLock(u) => recv_lock'[ProcOf[u]] = recv_lock[ProcOf[u]]
    PROVE  \A u \in Tasks : CoroutineOK(u)'
<1> SUFFICES ASSUME NEW u \in Tasks, u # t
             PROVE  CoroutineOK(u)'
  OBVIOUS
<1>1. CASE ~InLock(u)
  <2>1. ~InLock(u)'
    BY <1>1 DEF InLock
  <2> QED
    BY <2>1, OutOfLock
<1>2. CASE InLock(u)
  <2>1. ~InLock(t)
    BY <1>2, OnlyHolder
  <2> QED
    BY <2>1, Undisturbed
<1> QED
  BY <1>1, <1>2

\* The rows do not change, and perhaps they are committed.
LEMMA StoredStays ==
    ASSUME StoredOK, Rows' = Rows, db'.messages \in {db.messages, Rows},
           UNCHANGED <<returned, again>>
    PROVE  StoredOK'
  BY DEF StoredOK, Marked

-----------------------------------------------------------------------------
(* The steps, one by one.                                                  *)

\* What a step has to show: DurableInv' is known from above.
MarksStep ==
    /\ db'.messages \in {db.messages, Rows}
    /\ recv_lock' = [p \in Procs |-> recv_lock'[p]]
    /\ StoredOK'
    /\ \A u \in Tasks : CoroutineOK(u)'

\* t goes on with an operation, or to one, that does not hold the lock.
LEMMA StepsOut ==
    ASSUME OneProcess, MarksInv, NEW t \in Tasks, NEW state, "at" \in DOMAIN state,
           task' = [task EXCEPT ![t] = state],
           state.at \in {"idle", "commit", "send insert", "send commit"},
           Rows' = Rows, db'.messages \in {db.messages, Rows},
           UNCHANGED <<returned, again>>,
           recv_lock' = recv_lock \/ (InLock(t) /\ Release(t))
    PROVE  MarksStep
<1>1. task'[t] = state /\ \A u \in Tasks \ {t} : task'[u] = task[u]
  BY OneCoroutine DEF MarksInv
<1>2. ~InLock(t)'
  BY <1>1 DEF InLock
<1>3. CoroutineOK(t)'
  BY <1>2, OutOfLock
<1>4. SameMarks
  BY DEF SameMarks
<1>5. StoredOK'
  BY StoredStays DEF MarksInv
<1>6. \A u \in Tasks : CoroutineOK(u)'
  BY <1>1, <1>3, <1>4, OthersKeep
<1>7. recv_lock' = [p \in Procs |-> recv_lock'[p]]
  BY DEF MarksInv, Release
<1> QED
  BY <1>5, <1>6, <1>7 DEF MarksStep

\* t takes the lock.
LEMMA StepsIn ==
    ASSUME OneProcess, MarksInv, NEW t \in Tasks, NEW state, "at" \in DOMAIN state,
           task' = [task EXCEPT ![t] = state], Acquire(t),
           state.at \in {"recv select", "unsubscribe delete"},
           state.at = "recv select" => state.agent \in Agents /\ state.max_messages \in Limits,
           UNCHANGED <<db, tx, writer, returned, again>>
    PROVE  MarksStep
<1>1. task'[t] = state /\ \A u \in Tasks \ {t} : task'[u] = task[u]
  BY OneCoroutine DEF MarksInv
<1>2. ProcOf[t] \in Procs /\ Rows' = Rows
  BY SqliteAssumption DEF Rows
<1>3. recv_lock' = [recv_lock EXCEPT ![ProcOf[t]] = t] /\ recv_lock[ProcOf[t]] = None
  BY DEF Acquire
<1>4. CoroutineOK(t)'
  BY <1>1, <1>2, <1>3 DEF CoroutineOK, MarksInv, InLock, Updating, At
<1>5. ASSUME NEW u \in Tasks \ {t}, InLock(u)
      PROVE  FALSE
  <2>1. recv_lock[ProcOf[u]] = u /\ ProcOf[u] = ProcOf[t]
    BY <1>5, SqliteAssumption DEF MarksInv, CoroutineOK, OneProcess
  <2> QED
    BY <1>3, <2>1, SqliteAssumption
<1>6. SameMarks
  BY <1>2 DEF SameMarks
<1>7. StoredOK'
  BY <1>2, StoredStays DEF MarksInv
<1>8. \A u \in Tasks : CoroutineOK(u)'
  BY <1>1, <1>4, <1>5, <1>6, OthersKeep
<1>9. recv_lock' = [p \in Procs |-> recv_lock'[p]]
  BY <1>3 DEF MarksInv
<1> QED
  BY <1>7, <1>8, <1>9 DEF MarksStep

\* t holds the lock and goes on holding it, without touching a row.
LEMMA StepsOn ==
    ASSUME OneProcess, MarksInv, NEW t \in Tasks, NEW state, "at" \in DOMAIN state,
           InLock(t), task' = [task EXCEPT ![t] = state],
           Rows' = Rows, db'.messages \in {db.messages, Rows},
           UNCHANGED <<recv_lock, returned, again>>,
           CoroutineOK(t)'
    PROVE  MarksStep
<1>1. \A u \in Tasks \ {t} : task'[u] = task[u]
  BY OneCoroutine DEF MarksInv
<1>2. StoredOK'
  BY StoredStays DEF MarksInv
<1>3. \A u \in Tasks : CoroutineOK(u)'
  BY <1>1, OthersKeep
<1> QED
  BY <1>2, <1>3 DEF MarksStep, MarksInv

\* send inserts a row that nobody has received.
LEMMA InsertStep ==
    ASSUME OneProcess, MarksInv, NEW t \in Tasks, SendInsert(t)
    PROVE  MarksStep
<1> DEFINE view == View(ProcOf[t])
           row == [channel |-> task[t].channel, seq |-> task[t].seq, delivered_to |-> {}]
           state == [at |-> "send commit", id |-> Len(view.messages) + 1]
<1>1. /\ writer' = ProcOf[t] /\ db' = db
      /\ tx' = [view EXCEPT !.messages = Append(view.messages, row)]
      /\ task' = [task EXCEPT ![t] = state]
      /\ UNCHANGED <<recv_lock, returned, again>>
  BY DEF SendInsert, Write, Goto
<1>2. /\ ProcOf[t] # None /\ view.messages = Rows /\ IsSeq(Rows)
      /\ view = [messages |-> view.messages, subscriptions |-> view.subscriptions]
  BY ProcessSees, ViewOK DEF MarksInv, DatabaseOK
<1>3. "delivered_to" \in DOMAIN row
  OBVIOUS
<1>4. state.at = "send commit" /\ "at" \in DOMAIN state
  OBVIOUS
<1> HIDE DEF view, row, state
<1>5. Rows' = Append(Rows, row)
  <2>1. tx'.messages = Append(view.messages, row)
    BY <1>1, <1>2
  <2> QED
    BY <1>1, <1>2, <2>1 DEF Rows
<1>6. /\ DOMAIN Rows' = DOMAIN Rows \cup {Len(Rows) + 1}
      /\ \A i \in DOMAIN Rows : Rows'[i] = Rows[i]
      /\ Rows'[Len(Rows) + 1] = row
  <2>1. PICK S : Rows \in Seq(S)
    BY <1>2 DEF IsSeq
  <2>2. Rows \in Seq(S \cup {row})
    BY <2>1
  <2>3. PICK r : r = Append(Rows, row)
    OBVIOUS
  <2>4. /\ DOMAIN r = DOMAIN Rows \cup {Len(Rows) + 1}
        /\ \A i \in DOMAIN Rows : r[i] = Rows[i]
        /\ r[Len(Rows) + 1] = row
    BY <2>2, <2>3
  <2> QED
    BY <1>5, <2>3, <2>4
<1>7. task'[t] = state /\ \A u \in Tasks \ {t} : task'[u] = task[u]
  BY <1>1, <1>4, OneCoroutine DEF MarksInv
<1>8. ~InLock(t)'
  BY <1>4, <1>7 DEF InLock
<1>9. SameMarks
  BY <1>6 DEF SameMarks
<1>10. \A u \in Tasks : CoroutineOK(u)'
  BY <1>1, <1>7, <1>8, <1>9, OutOfLock, OthersKeep
<1>11. StoredOK'
  <2>1. Marked(Rows')
    BY <1>3, <1>6 DEF MarksInv, StoredOK, Marked
  <2>2. Marked(Rows)'
    BY <2>1 DEF Marked
  <2> QED
    BY <1>1, <1>6, <2>2 DEF MarksInv, StoredOK, Marked
<1> QED
  BY <1>1, <1>10, <1>11 DEF MarksStep, MarksInv

LEMMA NothingListed == ToSet(<< >>) = {}
<1>1. DOMAIN << >> = {}
  BY EmptySeq, LenProperties
<1> QED
  BY <1>1 DEF ToSet

\* A list is its head and the rest.
LEMMA HeadAndRest ==
    ASSUME NEW S, NEW s \in Seq(S), s # << >>
    PROVE  /\ Head(s) \in ToSet(s) /\ Head(s) \in S /\ Tail(s) \in Seq(S)
           /\ ToSet(Tail(s)) \subseteq ToSet(s)
           /\ ToSet(s) \subseteq ToSet(Tail(s)) \cup {Head(s)}
<1>1. PICK n \in Nat \ {0} : Len(s) = n /\ DOMAIN s = 1 .. n
  BY EmptySeq
<1>2. Head(s) = s[1] /\ 1 \in DOMAIN s /\ s[1] \in S
  BY <1>1
<1>3. PICK rest \in Seq(S) : /\ rest = Tail(s) /\ DOMAIN rest = 1 .. n - 1
                             /\ \A k \in 1 .. n - 1 : rest[k] = s[k + 1]
  <2>1. /\ Tail(s) \in Seq(S) /\ Len(Tail(s)) = Len(s) - 1
        /\ \A i \in 1 .. Len(Tail(s)) : Tail(s)[i] = s[i + 1]
    BY HeadTailProperties
  <2>2. DOMAIN Tail(s) = 1 .. n - 1
    BY <1>1, <2>1, LenProperties
  <2> QED
    BY <1>1, <2>1, <2>2
<1>4. ToSet(rest) \subseteq ToSet(s) /\ Head(s) \in ToSet(s)
  BY <1>1, <1>2, <1>3 DEF ToSet
<1>5. ASSUME NEW k \in DOMAIN s
      PROVE  s[k] \in ToSet(rest) \cup {Head(s)}
  <2>1. CASE k = 1
    BY <1>2, <2>1
  <2>2. CASE k # 1
    <3>1. k - 1 \in 1 .. n - 1 /\ rest[k - 1] = s[k]
      BY <1>1, <1>3, <2>2
    <3> QED
      BY <1>3, <3>1 DEF ToSet
  <2> QED
    BY <2>1, <2>2
<1>6. ToSet(s) \subseteq ToSet(rest) \cup {Head(s)}
  BY <1>5 DEF ToSet
<1> QED
  BY <1>2, <1>3, <1>4, <1>6

\* An update writes back the marks its select saw and one more: nothing is lost,
\* because nobody else has updated the row since.
LEMMA UpdateStep ==
    ASSUME OneProcess, MarksInv, NEW t \in Tasks, Updating(t), task[t].todo # <<>>,
           UpdateNext(t), UNCHANGED <<db, recv_lock, returned, again>>
    PROVE  MarksStep
<1> DEFINE view == View(ProcOf[t])
           next == Head(task[t].todo)
           rest == Tail(task[t].todo)
           state == [task[t] EXCEPT !.todo = rest]
           marks == task[t].marks
<1>1. /\ writer' = ProcOf[t]
      /\ tx' = [view EXCEPT !.messages[next].delivered_to = marks[next]]
      /\ task' = [task EXCEPT ![t] = state]
  BY DEF UpdateNext, Write
<1>2. /\ ProcOf[t] # None /\ view.messages = Rows /\ IsSeq(Rows)
      /\ view = [messages |-> view.messages, subscriptions |-> view.subscriptions]
  BY ProcessSees, ViewOK DEF MarksInv, DatabaseOK
<1>3. /\ TodoOK(t) /\ InLock(t) /\ CoroutineOK(t)
      /\ "at" \in DOMAIN task[t] /\ "todo" \in DOMAIN task[t]
  BY DEF MarksInv, DurableInv, CoroutineOK, TodoOK, Updating, InLock, At
<1>4. /\ next \in ToSet(task[t].todo) /\ next \in DOMAIN Rows
      /\ rest \in Seq(DOMAIN Rows)
      /\ ToSet(rest) \subseteq ToSet(task[t].todo)
      /\ ToSet(task[t].todo) \subseteq ToSet(rest) \cup {next}
  <2>1. task[t].todo \in Seq(DOMAIN Rows)
    BY <1>3 DEF TodoOK
  <2> QED
    BY <2>1, HeadAndRest
<1>5. state.todo = rest /\ state.at = task[t].at /\ state.agent = task[t].agent
      /\ state.batch = task[t].batch /\ state.marks = marks
      /\ DOMAIN state = DOMAIN task[t]
  BY <1>3
<1> HIDE DEF view, next, rest, state
<1>6. Rows' = [Rows EXCEPT ![next].delivered_to = marks[next]]
  <2>1. tx'.messages = [view.messages EXCEPT ![next].delivered_to = marks[next]]
    BY <1>1, <1>2
  <2> QED
    BY <1>1, <1>2, <2>1 DEF Rows
<1>7. /\ DOMAIN Rows' = DOMAIN Rows
      /\ \A i \in DOMAIN Rows : i # next => Rows'[i] = Rows[i]
      /\ Rows'[next] = [Rows[next] EXCEPT !.delivered_to = marks[next]]
  BY <1>4, <1>6
<1>8. Rows[next].delivered_to \subseteq marks[next]
  BY <1>3, <1>4 DEF TodoOK
<1>9. /\ Marked(Rows) /\ Marked(Rows')
      /\ Rows'[next].delivered_to = marks[next]
      /\ \A i \in DOMAIN Rows : Rows[i].delivered_to \subseteq Rows'[i].delivered_to
  <2>1. Marked(Rows)
    BY DEF MarksInv, StoredOK
  <2>2. "delivered_to" \in DOMAIN Rows[next]
    BY <1>4, <2>1 DEF Marked
  <2>3. Rows'[next].delivered_to = marks[next] /\ DOMAIN Rows'[next] = DOMAIN Rows[next]
    BY <1>7, <2>2
  <2> QED
    BY <1>7, <1>8, <2>1, <2>3 DEF Marked
<1>10. task'[t] = state /\ \A u \in Tasks \ {t} : task'[u] = task[u]
  BY <1>1, <1>3, <1>5, OneCoroutine DEF MarksInv
<1>11. CoroutineOK(t)'
  <2>1. TodoOK(t)'
    <3>1. \A i \in ToSet(rest) : Rows'[i].delivered_to \subseteq marks[i]
      <4>1. \A i \in ToSet(rest) : i \in DOMAIN Rows
        BY <1>4 DEF ToSet
      <4>2. \A i \in ToSet(rest) : Rows[i].delivered_to \subseteq marks[i]
        BY <1>3, <1>4 DEF TodoOK
      <4> QED
        BY <1>7, <1>9, <4>1, <4>2
    <3> QED
      BY <1>3, <1>4, <1>5, <1>7, <1>10, <3>1 DEF TodoOK
  <2>2. ASSUME At(t, "recv update")
        PROVE  BatchOK(t)'
    <3>1. BatchOK(t)
      BY <1>3, <2>2 DEF CoroutineOK
    <3>2. ASSUME NEW i \in task[t].batch
          PROVE  /\ i \in DOMAIN Rows'
                 /\ i \in ToSet(rest) \/ task[t].agent \in Rows'[i].delivered_to
                 /\ i \notin returned[task[t].agent]
      <4>1. i \in DOMAIN Rows /\ i \notin returned[task[t].agent]
        BY <3>1 DEF BatchOK
      <4>2. i \in ToSet(task[t].todo) \/ task[t].agent \in Rows[i].delivered_to
        BY <3>1 DEF BatchOK
      <4>3. task[t].agent \in marks[next]
        BY <1>4, <3>1 DEF BatchOK
      <4> QED
        BY <1>4, <1>7, <1>9, <4>1, <4>2, <4>3
    <3> QED
      BY <1>4, <1>5, <1>10, <3>1, <3>2 DEF BatchOK
  <2>3. InLock(t)' => recv_lock'[ProcOf[t]] = t
    BY <1>3 DEF CoroutineOK
  <2>4. ~At(t, "recv select")' /\ (At(t, "recv update")' => At(t, "recv update"))
    BY <1>5, <1>10 DEF Updating, At
  <2> QED
    BY <2>1, <2>2, <2>3, <2>4 DEF CoroutineOK
<1>12. \A u \in Tasks : CoroutineOK(u)'
  BY <1>3, <1>10, <1>11, OthersKeep
<1>13. StoredOK'
  <2>1. Marked(Rows)' /\ Marked(db.messages)'
    BY <1>9 DEF Marked, MarksInv, StoredOK
  <2>2. \A i \in DOMAIN db.messages : /\ i \in DOMAIN Rows'
                                      /\ db.messages[i].delivered_to \subseteq Rows'[i].delivered_to
    BY <1>7, <1>9 DEF MarksInv, StoredOK
  <2> QED
    BY <2>1, <2>2 DEF MarksInv, StoredOK
<1> QED
  BY <1>12, <1>13 DEF MarksStep, MarksInv

\* recv commits and returns: every row of its batch is marked by now.
LEMMA RecvCommitStep ==
    ASSUME OneProcess, MarksInv, NEW t \in Tasks, RecvCommit(t)
    PROVE  MarksStep
<1> DEFINE a == task[t].agent
           batch == task[t].batch
<1>1. /\ At(t, "recv update") /\ task[t].todo = <<>> /\ Commit(ProcOf[t])
      /\ again' = [again EXCEPT ![a] = @ \cup (batch \cap returned[a])]
      /\ returned' = [returned EXCEPT ![a] = @ \cup batch]
      /\ Release(t) /\ Goto(t, Idle)
  BY DEF RecvCommit
<1>2. Rows' = Rows /\ db'.messages = Rows
  BY <1>1, CommitRows DEF MarksInv
<1>3. InLock(t) /\ BatchOK(t)
  BY <1>1 DEF MarksInv, CoroutineOK, InLock, At
<1>4. a \in Agents /\ \A i \in batch : /\ i \in DOMAIN Rows
                                       /\ a \in Rows[i].delivered_to
                                       /\ i \notin returned[a]
  <2>1. ToSet(task[t].todo) = {}
    BY <1>1, NothingListed
  <2> QED
    BY <1>3, <2>1 DEF BatchOK
<1>5. "at" \in DOMAIN Idle /\ Idle.at = "idle"
  BY DEF Idle
<1>6. task'[t] = Idle /\ \A u \in Tasks \ {t} : task'[u] = task[u]
  BY <1>1, <1>5, OneCoroutine DEF MarksInv, Goto
<1>7. CoroutineOK(t)'
  <2>1. ~InLock(t)'
    BY <1>5, <1>6 DEF InLock
  <2> QED
    BY <2>1, OutOfLock
<1>8. \A u \in Tasks : CoroutineOK(u)'
  BY <1>3, <1>6, <1>7, OthersKeep
<1> HIDE DEF a, batch
<1>9. StoredOK'
  <2>1. StoredOK
    BY DEF MarksInv
  <2>2. again' = [b \in Agents |-> {}]
    BY <1>1, <1>4, <2>1 DEF StoredOK
  <2>3. returned' = [b \in Agents |-> IF b = a THEN returned[b] \cup batch ELSE returned[b]]
    BY <1>1, <1>4, <2>1 DEF StoredOK
  <2>4. \A b \in Agents : \A i \in returned'[b] :
            i \in DOMAIN Rows /\ b \in Rows[i].delivered_to
    BY <1>4, <2>1, <2>3 DEF StoredOK
  <2>5. Marked(Rows)' /\ Marked(db.messages)'
    BY <1>2, <2>1 DEF StoredOK, Marked
  <2> QED
    BY <1>2, <2>2, <2>3, <2>4, <2>5 DEF StoredOK
<1>10. recv_lock' = [p \in Procs |-> recv_lock'[p]]
  BY <1>1 DEF MarksInv, Release
<1> QED
  BY <1>2, <1>8, <1>9, <1>10 DEF MarksStep

\* Marks that add the agent of the call to what its select saw.
LEMMA MarksAdd ==
    ASSUME NEW rows, NEW ids, NEW a
    PROVE  \A i \in ToSet(ids) : Marks(rows, ids, a)[i] = rows[i].delivered_to \cup {a}
  BY DEF Marks

LEMMA RecvSelectStep ==
    ASSUME OneProcess, MarksInv, NEW t \in Tasks, RecvSelect(t)
    PROVE  MarksStep
<1> DEFINE a == task[t].agent
           k == task[t].max_messages
<1>1. PICK ids \in EligibleRows(Rows, a, task[t].channels, k) :
         \/ Goto(t, Idle) /\ Release(t)
         \/ /\ Goto(t, [at |-> "recv update", agent |-> a, todo |-> ids,
                        batch |-> ToSet(ids), marks |-> Marks(Rows, ids, a)])
            /\ UNCHANGED recv_lock
  BY ProcessSees DEF RecvSelect, MarksInv
<1>2. /\ At(t, "recv select") /\ UNCHANGED <<db, tx, writer, returned, again>>
      /\ Rows' = Rows
  BY DEF RecvSelect, NoWrite, Rows
<1>3. /\ CoroutineOK(t) /\ InLock(t) /\ a \in Agents /\ k \in Nat /\ IsSeq(Rows)
      /\ recv_lock[ProcOf[t]] = t
  BY <1>2, ProcessSees, SqliteAssumption DEF MarksInv, CoroutineOK, InLock, At
<1>4. CASE Goto(t, Idle) /\ Release(t)
  <2>1. "at" \in DOMAIN Idle /\ Idle.at = "idle"
    BY DEF Idle
  <2> QED
    BY <1>2, <1>3, <1>4, <2>1, StepsOut DEF Goto
<1>5. CASE ~(Goto(t, Idle) /\ Release(t))
  <2>1. PICK state : /\ state = [at |-> "recv update", agent |-> a, todo |-> ids,
                                 batch |-> ToSet(ids), marks |-> Marks(Rows, ids, a)]
                     /\ task' = [task EXCEPT ![t] = state] /\ UNCHANGED recv_lock
    BY <1>1, <1>5 DEF Goto
  <2>2. /\ ids \in Seq(DOMAIN Rows)
        /\ \A i \in ToSet(ids) : i \in DOMAIN Rows /\ a \notin Rows[i].delivered_to
    BY <1>1, <1>3, EligibleAreUnread
  <2>3. /\ "at" \in DOMAIN state /\ "todo" \in DOMAIN state /\ state.at = "recv update"
        /\ state.agent = a /\ state.todo = ids /\ state.batch = ToSet(ids)
        /\ state.marks = Marks(Rows, ids, a)
    BY <2>1
  <2>4. \A i \in ToSet(ids) : state.marks[i] = Rows[i].delivered_to \cup {a}
    <3> HIDE DEF a
    <3>1. \A i \in ToSet(ids) : Marks(Rows, ids, a)[i] = Rows[i].delivered_to \cup {a}
      BY MarksAdd
    <3> QED
      BY <2>3, <3>1
  <2>5. task'[t] = state
    BY <2>1, <2>3, OneCoroutine DEF MarksInv
  <2>6. ASSUME NEW i \in ToSet(ids)
        PROVE  i \notin returned[a]
    BY <1>3, <2>2 DEF MarksInv, StoredOK
  <2> HIDE DEF a
  <2>7. TodoOK(t)'
    BY <1>2, <2>2, <2>3, <2>4, <2>5 DEF TodoOK
  <2>8. BatchOK(t)'
    BY <1>2, <1>3, <2>2, <2>3, <2>4, <2>5, <2>6 DEF BatchOK
  <2>9. CoroutineOK(t)'
    BY <1>3, <2>1, <2>3, <2>5, <2>7, <2>8 DEF CoroutineOK, At
  <2> QED
    BY <1>2, <1>3, <2>1, <2>3, <2>9, StepsOn
<1> QED
  BY <1>4, <1>5

LEMMA UnsubscribeSelectStep ==
    ASSUME OneProcess, MarksInv, NEW t \in Tasks, UnsubscribeSelect(t)
    PROVE  MarksStep
<1> DEFINE a == task[t].agent
           removed == task[t].removed
           pending == {i \in DOMAIN Rows : /\ a \notin Rows[i].delivered_to
                                           /\ Rows[i].channel \in removed}
<1>1. PICK ids \in [1 .. Cardinality(pending) -> pending] :
         \/ Goto(t, Idle) /\ Release(t)
         \/ /\ Goto(t, [at |-> "unsubscribe update", todo |-> ids,
                        marks |-> Marks(Rows, ids, a)])
            /\ UNCHANGED recv_lock
  BY ProcessSees DEF UnsubscribeSelect, FirstInOrder, MarksInv
<1>2. /\ At(t, "unsubscribe select") /\ UNCHANGED <<db, tx, writer, returned, again>>
      /\ Rows' = Rows
  BY DEF UnsubscribeSelect, NoWrite, Rows
<1>6. pending \subseteq DOMAIN Rows
  OBVIOUS
<1> HIDE DEF a, removed, pending
<1>3. /\ CoroutineOK(t) /\ InLock(t) /\ IsSeq(Rows) /\ recv_lock[ProcOf[t]] = t
  BY <1>2, ProcessSees DEF MarksInv, CoroutineOK, InLock, At
<1>4. CASE Goto(t, Idle) /\ Release(t)
  <2>1. "at" \in DOMAIN Idle /\ Idle.at = "idle"
    BY DEF Idle
  <2> QED
    BY <1>2, <1>3, <1>4, <2>1, StepsOut DEF Goto
<1>5. CASE ~(Goto(t, Idle) /\ Release(t))
  <2>1. PICK state : /\ state = [at |-> "unsubscribe update", todo |-> ids,
                                 marks |-> Marks(Rows, ids, a)]
                     /\ task' = [task EXCEPT ![t] = state] /\ UNCHANGED recv_lock
    BY <1>1, <1>5 DEF Goto
  <2>2. ids \in Seq(DOMAIN Rows)
    <3>1. IsSeq(Rows)
      BY <1>3
    <3> QED
      BY <1>6, <3>1, PendingIsListed
  <2>3. /\ "at" \in DOMAIN state /\ "todo" \in DOMAIN state
        /\ state.at = "unsubscribe update" /\ state.todo = ids
        /\ state.marks = Marks(Rows, ids, a)
    BY <2>1
  <2>4. \A i \in ToSet(ids) : state.marks[i] = Rows[i].delivered_to \cup {a}
    <3> HIDE DEF a
    <3>1. \A i \in ToSet(ids) : Marks(Rows, ids, a)[i] = Rows[i].delivered_to \cup {a}
      BY MarksAdd
    <3> QED
      BY <2>3, <3>1
  <2>5. task'[t] = state
    BY <2>1, <2>3, OneCoroutine DEF MarksInv
  <2>6. TodoOK(t)'
    BY <1>2, <2>2, <2>3, <2>4, <2>5 DEF TodoOK
  <2>7. CoroutineOK(t)'
    BY <1>3, <2>1, <2>3, <2>5, <2>6 DEF CoroutineOK, At
  <2> QED
    BY <1>2, <1>3, <2>1, <2>3, <2>7, StepsOn
<1> QED
  BY <1>4, <1>5

\* A crash rolls the rows back to the database and ends every coroutine.
LEMMA CrashStep ==
    ASSUME OneProcess, MarksInv, NEW p \in Procs, Crash(p)
    PROVE  MarksStep
<1>1. /\ UNCHANGED <<db, returned, again>>
      /\ recv_lock' = [recv_lock EXCEPT ![p] = None]
      /\ task' = [u \in Tasks |-> IF ProcOf[u] = p THEN Idle ELSE task[u]]
      /\ writer' = IF writer = p THEN None ELSE writer
  BY DEF Crash
<1>2. writer' = None /\ Rows' = db.messages
  <2>1. writer \in {None, p}
    BY DEF OneProcess, MarksInv, DurableInv
  <2> QED
    BY <1>1, <2>1 DEF Rows
<1>3. \A u \in Tasks : ~InLock(u)'
  <2>1. \A u \in Tasks : task'[u] = Idle
    BY <1>1, SqliteAssumption DEF OneProcess
  <2>2. Idle.at = "idle"
    BY DEF Idle
  <2> QED
    BY <2>1, <2>2 DEF InLock
<1>4. StoredOK'
  BY <1>1, <1>2 DEF MarksInv, StoredOK, Marked
<1>5. recv_lock' = [q \in Procs |-> recv_lock'[q]]
  BY <1>1 DEF MarksInv
<1> QED
  BY <1>1, <1>3, <1>4, <1>5, OutOfLock DEF MarksStep

LEMMA MarksStepAlways ==
    ASSUME OneProcess, MarksInv, [Next]_vars
    PROVE  MarksStep
<1>1. CASE UNCHANGED vars
  BY <1>1 DEF vars, MarksStep, MarksInv, StoredOK, Marked, Rows, CoroutineOK, InLock,
              Updating, At, TodoOK, BatchOK
<1>2. ASSUME NEW t \in Tasks, NEW c \in Channels, SendReadSeq(t, c)
      PROVE  MarksStep
  <2>1. PICK state : /\ "at" \in DOMAIN state /\ state.at = "send insert"
                     /\ task' = [task EXCEPT ![t] = state]
    BY <1>2 DEF SendReadSeq, Goto
  <2>2. UNCHANGED <<db, tx, writer, recv_lock, returned, again>>
    BY <1>2 DEF SendReadSeq, NoWrite
  <2>3. Rows' = Rows
    BY <2>2 DEF Rows
  <2> QED
    BY <2>1, <2>2, <2>3, StepsOut
<1>3. ASSUME NEW t \in Tasks, NEW a \in Agents, NEW cs \in Scopes, NEW k \in Limits,
             RecvStart(t, a, cs, k)
      PROVE  MarksStep
  <2>1. PICK scope : scope = IF cs = None THEN View(ProcOf[t]).subscriptions[a] ELSE cs
    OBVIOUS
  <2>2. PICK state : /\ state = [at |-> "recv select", agent |-> a,
                                 max_messages |-> k, channels |-> scope]
                     /\ task' = [task EXCEPT ![t] = state]
    BY <1>3, <2>1 DEF RecvStart, Goto
  <2>3. /\ "at" \in DOMAIN state /\ state.at = "recv select"
        /\ state.agent \in Agents /\ state.max_messages \in Limits
    BY <2>2
  <2>4. Acquire(t) /\ UNCHANGED <<db, tx, writer, returned, again>>
    BY <1>3 DEF RecvStart, NoWrite
  <2> QED
    BY <2>2, <2>3, <2>4, StepsIn
<1>4. ASSUME NEW t \in Tasks, NEW a \in Agents, NEW c \in Channels, SubscribeInsert(t, a, c)
      PROVE  MarksStep
  <2> DEFINE view == View(ProcOf[t])
  <2>1. /\ tx' = [view EXCEPT !.subscriptions[a] = view.subscriptions[a] \cup {c}]
        /\ writer' = ProcOf[t] /\ UNCHANGED <<db, recv_lock, returned, again>>
    BY <1>4 DEF SubscribeInsert, Write
  <2>2. PICK patterns : patterns = view.subscriptions[a] \cup {c}
    OBVIOUS
  <2>3. tx' = [view EXCEPT !.subscriptions[a] = patterns]
    BY <2>1, <2>2
  <2>4. /\ ProcOf[t] # None /\ view.messages = Rows
        /\ view = [messages |-> view.messages, subscriptions |-> view.subscriptions]
    BY ProcessSees, ViewOK DEF MarksInv, DatabaseOK
  <2> HIDE DEF view
  <2>5. tx'.messages = Rows
    BY <2>3, <2>4
  <2>6. Rows' = Rows
    BY <2>1, <2>4, <2>5 DEF Rows
  <2>7. PICK state : /\ "at" \in DOMAIN state /\ state.at = "commit"
                     /\ task' = [task EXCEPT ![t] = state]
    BY <1>4 DEF SubscribeInsert, Goto
  <2> QED
    BY <2>1, <2>6, <2>7, StepsOut
<1>5. ASSUME NEW t \in Tasks, NEW a \in Agents, NEW cs, UnsubscribeStart(t, a, cs)
      PROVE  MarksStep
  <2>1. PICK removed : removed = View(ProcOf[t]).subscriptions[a] \cap cs
    OBVIOUS
  <2>2. PICK state : /\ state = [at |-> "unsubscribe delete", agent |-> a, removed |-> removed]
                     /\ task' = [task EXCEPT ![t] = state]
    BY <1>5, <2>1 DEF UnsubscribeStart, Goto
  <2>3. "at" \in DOMAIN state /\ state.at = "unsubscribe delete"
    BY <2>2
  <2>4. Acquire(t) /\ UNCHANGED <<db, tx, writer, returned, again>>
    BY <1>5 DEF UnsubscribeStart, NoWrite
  <2> QED
    BY <2>2, <2>3, <2>4, StepsIn
<1>6. "at" \in DOMAIN Idle /\ Idle.at = "idle"
  BY DEF Idle
<1>7. ASSUME NEW t \in Tasks, SendCommit(t)
      PROVE  MarksStep
  <2>1. Rows' = Rows /\ db'.messages = Rows
    BY <1>7, CommitRows DEF SendCommit, MarksInv
  <2> QED
    BY <1>6, <1>7, <2>1, StepsOut DEF SendCommit, Goto
<1>8. ASSUME NEW t \in Tasks, FinalCommit(t)
      PROVE  MarksStep
  <2>1. Rows' = Rows /\ db'.messages = Rows
    BY <1>8, CommitRows DEF FinalCommit, MarksInv
  <2>2. recv_lock' = recv_lock \/ (InLock(t) /\ Release(t))
    BY <1>8 DEF FinalCommit, InLock, At
  <2> QED
    BY <1>6, <1>8, <2>1, <2>2, StepsOut DEF FinalCommit, Goto
<1>9. ASSUME NEW t \in Tasks, UnsubscribeDelete(t)
      PROVE  MarksStep
  <2> DEFINE view == View(ProcOf[t])
             state == [task[t] EXCEPT !.at = "unsubscribe select"]
  <2>1. /\ db' = [view EXCEPT !.subscriptions[task[t].agent] =
                      view.subscriptions[task[t].agent] \ task[t].removed]
        /\ task' = [task EXCEPT ![t] = state] /\ writer' = None
        /\ UNCHANGED <<recv_lock, returned, again>>
        /\ At(t, "unsubscribe delete")
    BY <1>9 DEF UnsubscribeDelete, Goto
  <2>2. PICK a, patterns : /\ a = task[t].agent
                           /\ patterns = view.subscriptions[a] \ task[t].removed
    OBVIOUS
  <2>3. db' = [view EXCEPT !.subscriptions[a] = patterns]
    BY <2>1, <2>2
  <2>4. /\ view.messages = Rows
        /\ view = [messages |-> view.messages, subscriptions |-> view.subscriptions]
    BY ProcessSees, ViewOK DEF MarksInv, DatabaseOK
  <2>5. "at" \in DOMAIN state /\ state.at = "unsubscribe select"
    BY DEF MarksInv, DurableInv
  <2> HIDE DEF view, state
  <2>6. db'.messages = Rows
    BY <2>3, <2>4
  <2>7. Rows' = Rows
    BY <2>1, <2>6 DEF Rows
  <2>8. InLock(t) /\ recv_lock[ProcOf[t]] = t
    BY <2>1 DEF MarksInv, CoroutineOK, InLock, At
  <2>9. task'[t] = state
    BY <2>1, <2>5, OneCoroutine DEF MarksInv
  <2>10. CoroutineOK(t)'
    BY <2>1, <2>5, <2>8, <2>9 DEF CoroutineOK, Updating, At
  <2> QED
    BY <2>1, <2>5, <2>6, <2>7, <2>8, <2>10, StepsOn
<1>10. ASSUME NEW t \in Tasks, RecvUpdate(t) \/ UnsubscribeUpdate(t)
      PROVE  MarksStep
  BY <1>10, UpdateStep DEF RecvUpdate, UnsubscribeUpdate, Updating
<1>11. ASSUME NEW t \in Tasks, Cancel(t)
       PROVE  MarksStep
  <2>1. /\ task' = [task EXCEPT ![t] = Idle] /\ UNCHANGED <<db, tx, writer, returned, again>>
        /\ recv_lock' = [p \in Procs |-> IF recv_lock[p] = t THEN None ELSE recv_lock[p]]
    BY <1>11 DEF Cancel, Goto, NoWrite
  <2>2. Rows' = Rows
    BY <2>1 DEF Rows
  <2>3. task'[t] = Idle /\ \A u \in Tasks \ {t} : task'[u] = task[u]
    BY <1>6, <2>1, OneCoroutine DEF MarksInv
  <2>4. CoroutineOK(t)'
    <3>1. ~InLock(t)'
      BY <1>6, <2>3 DEF InLock
    <3> QED
      BY <3>1, OutOfLock
  <2>5. ASSUME NEW u \in Tasks \ {t}, InLock(u)
        PROVE  recv_lock'[ProcOf[u]] = recv_lock[ProcOf[u]]
    BY <2>1, <2>5, SqliteAssumption DEF MarksInv, CoroutineOK
  <2>6. SameMarks
    BY <2>2 DEF SameMarks
  <2>7. \A u \in Tasks : CoroutineOK(u)'
    BY <2>1, <2>3, <2>4, <2>5, <2>6, OthersKeep
  <2>8. StoredOK'
    BY <2>1, <2>2, StoredStays DEF MarksInv
  <2> QED
    BY <2>1, <2>7, <2>8 DEF MarksStep
<1>12. ASSUME NEW t \in Tasks, Continue(t)
       PROVE  MarksStep
  BY <1>7, <1>8, <1>9, <1>10, <1>12, InsertStep, RecvSelectStep, RecvCommitStep,
     UnsubscribeSelectStep DEF Continue
<1> QED
  BY <1>1, <1>2, <1>3, <1>4, <1>5, <1>11, <1>12, CrashStep DEF Next

LEMMA MarksInit ==
    ASSUME OneProcess, Init
    PROVE  MarksInv
<1>1. DurableInv
  BY DurableInit
<1>2. StoredOK
  <2>1. Rows = <<>> /\ db.messages = <<>>
    BY DEF Init, Rows
  <2>2. DOMAIN << >> = {}
    BY EmptySeq, LenProperties
  <2> QED
    BY <2>1, <2>2 DEF Init, StoredOK, Marked
<1>3. \A t \in Tasks : CoroutineOK(t)
  BY DEF Init, Idle, CoroutineOK, InLock, Updating, At
<1> QED
  BY <1>1, <1>2, <1>3 DEF Init, MarksInv

LEMMA MarksAlways ==
    ASSUME OneProcess
    PROVE  Spec => []MarksInv
<1>1. Init => MarksInv
  BY MarksInit
<1>2. MarksInv /\ [Next]_vars => MarksInv'
  BY MarksStepAlways, DurableStep DEF MarksInv, MarksStep
<1> QED
  BY <1>1, <1>2, PTL DEF Spec

\* recv returns no message to the same agent twice, whichever coroutines of the process
\* drain at once, are cancelled or die with it: the select runs under _recv_lock and sees
\* every mark of the earlier recvs (SqliteStore.recv).  With a second process it is false.
THEOREM DeliveredOnceInOneProcess ==
    ASSUME OneProcess
    PROVE  Spec => []DeliveredOnce
<1>1. MarksInv => DeliveredOnce
  BY DEF MarksInv, StoredOK, DeliveredOnce
<1> QED
  BY <1>1, MarksAlways, PTL

\* A message recv has returned is marked in the committed database, whatever is rolled
\* back later: recv returns after its commit, and a row about to be marked is marked in
\* the transaction that the commit publishes (SqliteStore.recv).
THEOREM ReturnedIsMarkedInOneProcess ==
    ASSUME OneProcess
    PROVE  Spec => []ReturnedIsMarked
<1>1. MarksInv => ReturnedIsMarked
  BY DEF MarksInv, StoredOK, ReturnedIsMarked
<1> QED
  BY <1>1, MarksAlways, PTL

\* No commit takes back a committed mark, although every update writes the whole
\* delivered_to column from what its select read (SqliteStore.recv and unsubscribe).
THEOREM MarksAreKeptInOneProcess ==
    ASSUME OneProcess
    PROVE  Spec => MarksAreKept
<1>1. MarksInv /\ [Next]_vars =>
         [\A i \in DOMAIN db.messages :
             db.messages[i].delivered_to \subseteq db'.messages[i].delivered_to]_db
  BY MarksStepAlways DEF MarksInv, MarksStep, StoredOK
<1> QED
  BY <1>1, MarksAlways, PTL DEF Spec, MarksAreKept

=============================================================================
