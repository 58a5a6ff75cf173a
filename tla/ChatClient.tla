----------------------------- MODULE ChatClient -----------------------------
(***************************************************************************)
(* The chat TUI (tui/app.py, mcp_client.py, pump.py, state.py,             *)
(* process_manager.py, commands.py): one event loop on which the mounting  *)
(* of the app, the receive pump, the heartbeat, the refresh of the roster  *)
(* and the handlers of the user's input all call tools of a server         *)
(* subprocess over its stdin and stdout.                                   *)
(*                                                                         *)
(* A call puts a future into _pending, writes a request and waits for at   *)
(* most 30 s; one reader resolves the futures.  The server handles the     *)
(* requests in any order, may be slow, may refuse a call (the refusal is   *)
(* the text of a normal result, which _call hands on as one), may hand a   *)
(* message out twice and may die.                                          *)
(*                                                                         *)
(* Abstractions: a call's id, drawn from a counter, is the task that calls *)
(* and the number of its call; messages are numbers in the order they were *)
(* posted, each on one channel.  The feed sorts by seq what it shows, so   *)
(* the order of arrival is left out: the messages of an answer are a set,  *)
(* and a channel has one set of messages for every drain that added to it. *)
(* Presence, rendering, threads and acknowledgements are left out of the   *)
(* chat store; a read of stderr and the pane focus too.                    *)
(***************************************************************************)
EXTENDS Naturals, Sequences, FiniteSets, Functions

CONSTANTS
    Nowhere,          \* no channel: Python's None
    Users,            \* tasks created for the user's input, one command each
    Chans,            \* channels
    InitialChannel    \* the channel of the command line

VARIABLES
    chat,             \* ChatStore: what is shown, unread counts, focus
    task,             \* where each coroutine is
    future,           \* the future of each task's current call
    pending,          \* McpStdioClient._pending: the ids in the table
    wire,             \* requests and answers under way; is the reader running?
    server,           \* the server: alive, subscriptions, messages
    app,              \* the app's phase and what it still has to cancel
    bound,            \* bounds: calls of each loop, messages posted, commands
                      \* of the user, and faults, which are slow answers,
                      \* refusals, repetitions and the server's death
    ghost             \* history, see each field's use

chatVars == <<chat, task, future, pending, wire, server, app, bound, ghost>>

Loops == {"pump", "beat", "roster"}
Tasks == {"mount"} \cup Loops \cup Users

ASSUME ChatAssumption ==
    /\ InitialChannel \in Chans
    /\ Nowhere \notin Chans
    /\ Users \cap ({"mount"} \cup Loops) = {}

NoFuture == [state |-> "none", messages |-> {}]

\* A task is off, ready for its next call, waiting for an answer, or done.
ChatInit(bounds) ==
    /\ chat = [shown |-> [c \in Chans |-> <<>>], unread |-> [c \in Chans |-> 0],
               focused |-> Nowhere, listed |-> {}]
    /\ task = [t \in Tasks |-> [pc |-> IF t = "mount" THEN "ready" ELSE "off",
                                op |-> IF t = "mount" THEN "initialize" ELSE "none",
                                channel |-> InitialChannel, join |-> FALSE, calls |-> 0]]
    /\ future = [t \in Tasks |-> NoFuture]
    /\ pending = {}
    /\ wire = [requests |-> {}, answers |-> <<>>, reading |-> TRUE]
    /\ server = [alive |-> TRUE, subs |-> {}, posted |-> <<>>, handed |-> {}]
    /\ app \in [phase : {"mounting"}, to_cancel : {<<"beat", "roster", "pump">>},
                python311 : BOOLEAN]
    /\ bound \in bounds
    /\ ghost = [wanted |-> Nowhere, overlap |-> FALSE, unsure |-> {},
                seen |-> {}, lost |-> {}, swallowed |-> {}]

-----------------------------------------------------------------------------
(* ChatStore.                                                              *)

Shown(store, c) == UNION Range(store.shown[c])

On(c, messages) == {m \in messages : server.posted[m] = c}

\* The store with a set of messages appended to each channel.
Extended(store, fresh) ==
    LET new == {c \in Chans : fresh[c] # {}}
    IN  [store EXCEPT
           !.shown  = [c \in Chans |-> IF c \in new THEN Append(@[c], fresh[c]) ELSE @[c]],
           !.listed = @ \cup new,
           !.unread = [c \in Chans |-> IF c = store.focused THEN @[c]
                                       ELSE @[c] + Cardinality(fresh[c])]]

\* Mutant of ingest_message: no test for a message that is there already.
IngestTwice(store, messages) == Extended(store, [c \in Chans |-> On(c, messages)])

\* ingest_message for every message of a drain.
ingest_message(store, messages) ==
    Extended(store, [c \in Chans |-> On(c, messages) \ Shown(store, c)])

focus_channel(store, c) ==
    [store EXCEPT !.focused = c, !.listed = @ \cup {c}, !.unread[c] = 0]

\* update_channels: new names get an entry, the others keep their counts.
update_channels(store, names) == [store EXCEPT !.listed = @ \cup names]

-----------------------------------------------------------------------------
(* McpStdioClient and the server.                                          *)

Waiting(t) == task[t].pc = "waiting"

Id(t) == <<t, task[t].calls>>

\* _call and _initialize_handshake up to the wait.  A send goes to the channel
\* that is focused when its task starts.  Writing to a server that is gone fails,
\* or goes unnoticed.
Ask(t) ==
    /\ task[t].pc = "ready"
    /\ t \in Loops => task[t].calls < bound.calls[t]
    /\ LET id == <<t, task[t].calls + 1>>
           c == IF task[t].op = "send" THEN chat.focused ELSE task[t].channel
       IN  /\ task' = [task EXCEPT ![t].pc = "waiting", ![t].calls = @ + 1]
           /\ pending' = pending \cup {id}
           /\ \E state \in IF server.alive THEN {"waiting"} ELSE {"waiting", "failed"} :
                 future' = [future EXCEPT ![t] = [state |-> state, messages |-> {}]]
           /\ wire' = IF server.alive
                      THEN [wire EXCEPT !.requests =
                              @ \cup {[id |-> id, op |-> task[t].op, channel |-> c]}]
                      ELSE wire
    /\ UNCHANGED <<chat, server, app, bound, ghost>>

Fault ==
    /\ bound.faults > 0
    /\ bound' = [bound EXCEPT !.faults = @ - 1]

\* Everything a recv finds for the agent: what it is subscribed to and has not
\* been handed.
Inbox == {m \in DOMAIN server.posted \ server.handed : server.posted[m] \in server.subs}

Answer(r, messages) ==
    wire' = [wire EXCEPT !.requests = @ \ {r},
                         !.answers = Append(@, [id |-> r.id, messages |-> messages])]

\* The server handles one request; the tools as the TUI uses them.
Serve ==
    /\ server.alive
    /\ \E r \in wire.requests :
          \/ /\ r.op \in {"subscribe", "presence"}
             /\ server' = IF r.op = "subscribe"
                          THEN [server EXCEPT !.subs = @ \cup {r.channel}] ELSE server
             /\ Answer(r, {})
          \/ /\ r.op = "recv"
             /\ server' = [server EXCEPT !.handed = @ \cup Inbox]
             /\ Answer(r, Inbox)
          \/ /\ r.op = "send"
             /\ Len(server.posted) < bound.posts
             /\ server' = [server EXCEPT !.posted = Append(@, r.channel)]
             /\ Answer(r, {})
          \/ /\ r.op \notin {"subscribe", "presence", "recv", "send"}
             /\ Answer(r, {})
             /\ UNCHANGED server
    /\ UNCHANGED <<chat, task, future, pending, app, bound, ghost>>

\* A refusal: an expired credential, a rate limit; and a full log.
Refuse ==
    /\ server.alive
    /\ \E r \in wire.requests :
          /\ IF r.op = "send" /\ Len(server.posted) = bound.posts
             THEN UNCHANGED bound
             ELSE r.op \in {"subscribe", "send", "recv"} /\ Fault
          /\ Answer(r, {})
          /\ ghost' = IF r.op = "subscribe" THEN [ghost EXCEPT !.unsure = @ \cup {r.channel}]
                      ELSE ghost
    /\ UNCHANGED <<chat, task, future, pending, server, app>>

\* The listener of the server starts over and hands a message out again.
ServeAgain ==
    /\ server.alive
    /\ Fault
    /\ \E r \in wire.requests, m \in server.handed :
          r.op = "recv" /\ Answer(r, {m})
    /\ UNCHANGED <<chat, task, future, pending, server, app, ghost>>

\* Another agent posts a message.
Post ==
    /\ server.alive
    /\ Len(server.posted) < bound.posts
    /\ \E c \in Chans : server' = [server EXCEPT !.posted = Append(@, c)]
    /\ UNCHANGED <<chat, task, future, pending, wire, app, bound, ghost>>

\* The server dies; what it has written can still be read.
ServerDies ==
    /\ server.alive
    /\ Fault
    /\ server' = [server EXCEPT !.alive = FALSE]
    /\ wire' = [wire EXCEPT !.requests = {}]
    /\ UNCHANGED <<chat, task, future, pending, app, ghost>>

\* _read_loop: the future leaves the table; one that is done already keeps its
\* outcome, and the answer is dropped.
ReadAnswer ==
    /\ wire.reading
    /\ wire.answers # <<>>
    /\ LET a == Head(wire.answers)
           t == a.id[1]
           fresh == a.id = Id(t) /\ future[t].state = "waiting"
       IN  /\ pending' = pending \ {a.id}
           /\ future' = IF fresh
                        THEN [future EXCEPT ![t] = [state |-> "answered", messages |-> a.messages]]
                        ELSE future
           /\ ghost' = IF fresh THEN ghost ELSE [ghost EXCEPT !.lost = @ \cup a.messages]
    /\ wire' = [wire EXCEPT !.answers = Tail(@)]
    /\ UNCHANGED <<chat, task, server, app, bound>>

\* End of file: the reader ends, and nobody tells the calls that wait.
EndOfFile ==
    /\ wire.reading
    /\ ~server.alive
    /\ wire.answers = <<>>
    /\ wire' = [wire EXCEPT !.reading = FALSE]
    /\ UNCHANGED <<chat, task, future, pending, server, app, bound, ghost>>

-----------------------------------------------------------------------------
(* What a task does with the outcome of its call.                          *)

IsSelection(t) == t \in Users /\ task[t].op = "subscribe"

\* The loops that on_mount starts at its end, and what each calls first.
FirstOp == [pump |-> "recv", beat |-> "heartbeat", roster |-> "list_channels"]

\* The mount and the roster call one tool after the other; the pump and the
\* heartbeat the same one again after a pause.
NextOp(op) ==
    CASE op = "initialize" -> "subscribe"
      [] op = "subscribe" -> "presence"
      [] op = "presence" -> "list_channels"
      [] op = "list_channels" -> "list_agents"
      [] op = "list_agents" -> "list_channels"
      [] OTHER -> op

\* Which focus a finished call sets: the mount after its subscriptions, a
\* selected channel even when the subscription failed, a joined one only when
\* it did not.
Focuses(t, ok) ==
    \/ t = "mount" /\ task[t].op = "presence"
    \/ IsSelection(t) /\ (ok \/ ~task[t].join)

\* on_mount fails with its first two calls, and the app with it.
MountFails(t, ok) == t = "mount" /\ task[t].op \in {"initialize", "subscribe"} /\ ~ok

\* RecvPump._loop ingests what a drain returns and passes over a failed call.
Pumped(store, ok, messages) == IF ok THEN ingest_message(store, messages) ELSE store

Continue(t, ok, messages) ==
    /\ chat' = IF t = "pump" THEN Pumped(chat, ok, messages)
               ELSE IF ok /\ task[t].op = "list_channels"
               THEN update_channels(chat, server.subs \cup Range(server.posted))
               ELSE IF Focuses(t, ok) THEN focus_channel(chat, task[t].channel)
               ELSE chat
    /\ LET mounted == t = "mount" /\ task[t].op = "list_agents"
       IN  /\ task' = IF t \in Users \/ mounted \/ MountFails(t, ok)
                      THEN [u \in Tasks |->
                              IF u = t THEN [task[u] EXCEPT !.pc = "done"]
                              ELSE IF mounted /\ u \in Loops
                              THEN [task[u] EXCEPT !.pc = "ready", !.op = FirstOp[u]]
                              ELSE task[u]]
                      ELSE [task EXCEPT ![t].pc = "ready", ![t].op = NextOp(@)]
           /\ app' = IF mounted THEN [app EXCEPT !.phase = "running"]
                     ELSE IF MountFails(t, ok) THEN [app EXCEPT !.phase = "closing"]
                     ELSE app
    /\ ghost' = [ghost EXCEPT
          !.wanted = IF Focuses(t, ok) /\ t = "mount" THEN task[t].channel
                     ELSE IF IsSelection(t) /\ ~Focuses(t, ok) THEN chat.focused
                     ELSE @,
          !.unsure = IF ~ok /\ task[t].op = "subscribe" THEN @ \cup {task[t].channel} ELSE @,
          !.seen = @ \cup (IF Focuses(t, ok) THEN Shown(chat, task[t].channel)
                           ELSE IF ok /\ t = "pump"
                           THEN On(chat.focused, messages)
                           ELSE {})]

Resume(t) ==
    /\ Waiting(t)
    /\ future[t].state \in {"answered", "failed"}
    /\ Continue(t, future[t].state = "answered", future[t].messages)
    /\ future' = [future EXCEPT ![t] = NoFuture]
    /\ UNCHANGED <<pending, wire, server, bound>>

\* Mutant of TimeOut: a wait without a timeout.
NoTimeOut(t) == FALSE /\ UNCHANGED chatVars

\* wait_for gives up: the future is cancelled, its entry stays in the table.  A
\* server that lives and is read from is that slow a limited number of times.
TimeOut(t) ==
    /\ Waiting(t)
    /\ future[t].state = "waiting"
    /\ future' = [future EXCEPT ![t].state = "failed"]
    /\ IF server.alive /\ wire.reading THEN Fault ELSE UNCHANGED bound
    /\ UNCHANGED <<chat, task, pending, wire, server, app, ghost>>

-----------------------------------------------------------------------------
(* The user, and the end.                                                  *)

Selecting == {t \in Users : task[t].pc \in {"ready", "waiting"} /\ IsSelection(t)}

Command ==
    /\ app.phase = "running"
    /\ bound.commands > 0
    /\ bound' = [bound EXCEPT !.commands = @ - 1]

\* A task is created for the input: the first one not used yet.
Input(u) ==
    /\ task[u].pc = "off"
    /\ u = CHOOSE v \in Users : task[v].pc = "off"
    /\ Command

\* A selection in a list (on_channel_focused, on_agent_selected), /join or /dm.
Select(u, c, join) ==
    /\ Input(u)
    /\ task' = [task EXCEPT ![u] = [@ EXCEPT !.pc = "ready", !.op = "subscribe",
                                             !.channel = c, !.join = join]]
    /\ ghost' = [ghost EXCEPT !.wanted = c, !.overlap = @ \/ Selecting # {}]
    /\ UNCHANGED <<chat, future, pending, wire, server, app>>

\* on_compose_submitted with a message or a reply.
Submit(u) ==
    /\ Input(u)
    /\ task' = [task EXCEPT ![u] = [@ EXCEPT !.pc = "ready", !.op = "send"]]
    /\ UNCHANGED <<chat, future, pending, wire, server, app, ghost>>

\* /quit or Ctrl-Q.
Quit ==
    /\ Command
    /\ app' = [app EXCEPT !.phase = "closing"]
    /\ UNCHANGED <<chat, task, future, pending, wire, server, ghost>>

\* on_unmount cancels one task after the other and waits for each.  Before
\* Python 3.12 wait_for ignores a cancellation that arrives after the answer and
\* before the task runs: the loop goes on, and on_unmount waits.
CancelNext ==
    /\ app.phase = "closing"
    /\ app.to_cancel # <<>>
    /\ LET t == Head(app.to_cancel)
           answered == Waiting(t) /\ future[t].state = "answered"
       IN  /\ t \notin ghost.swallowed
           /\ IF answered /\ app.python311
              THEN /\ ghost' = [ghost EXCEPT !.swallowed = @ \cup {t}]
                   /\ UNCHANGED <<task, future, app>>
              ELSE /\ task' = [task EXCEPT ![t].pc = "done"]
                   /\ future' = [future EXCEPT ![t] = NoFuture]
                   /\ app' = [app EXCEPT !.to_cancel = Tail(@)]
                   /\ ghost' = [ghost EXCEPT !.lost = @ \cup future[t].messages]
    /\ UNCHANGED <<chat, pending, wire, server, bound>>

\* McpStdioClient.stop and ServerProcess.terminate; the event loop closes with
\* the app and takes what is left of the user's tasks along.
Stop ==
    /\ app.phase = "closing"
    /\ app.to_cancel = <<>>
    /\ app' = [app EXCEPT !.phase = "closed"]
    /\ task' = [t \in Tasks |-> [task[t] EXCEPT !.pc = "done"]]
    /\ future' = [t \in Tasks |-> NoFuture]
    /\ pending' = {}
    /\ wire' = [requests |-> {}, answers |-> <<>>, reading |-> FALSE]
    /\ server' = [server EXCEPT !.alive = FALSE]
    /\ ghost' = [ghost EXCEPT !.lost =
                    @ \cup (UNION {wire.answers[i].messages : i \in DOMAIN wire.answers})]
    /\ UNCHANGED <<chat, bound>>

ChatStep ==
    \/ \E t \in Tasks : Ask(t) \/ Resume(t) \/ TimeOut(t)
    \/ Serve \/ Refuse \/ ServeAgain \/ Post \/ ServerDies
    \/ ReadAnswer \/ EndOfFile
    \/ \E u \in Users : Submit(u) \/ \E c \in Chans, join \in BOOLEAN : Select(u, c, join)
    \/ Quit \/ CancelNext \/ Stop

ChatSpec(bounds) == ChatInit(bounds) /\ [][ChatStep]_chatVars

-----------------------------------------------------------------------------

UnderWay ==
    (UNION {wire.answers[i].messages : i \in DOMAIN wire.answers})
    \cup (UNION {future[t].messages : t \in Tasks})

\* What the user sees is what the server handed out: every message it handed out
\* is shown once, on its channel, or is under way; it is lost only with an
\* answer that came after its call's timeout or that the end of the app cut off.
\* A channel's unread count is the number of messages the user has not had in
\* focus.  The channel in focus is the one chosen last, unless two choices
\* overlapped, and the server's subscriptions cover it, unless it refused or did
\* not answer.
ChatShowsWhatArrives ==
    /\ \A c \in Chans :
          /\ \A i, j \in DOMAIN chat.shown[c] :
                i # j => chat.shown[c][i] \cap chat.shown[c][j] = {}
          /\ \A m \in Shown(chat, c) : server.posted[m] = c
          /\ chat.unread[c] = Cardinality(Shown(chat, c) \ ghost.seen)
    /\ server.handed \subseteq
          (UNION {Shown(chat, c) : c \in Chans}) \cup UnderWay \cup ghost.lost
    /\ app.phase = "running" =>
          /\ chat.focused \in server.subs \cup ghost.unsure
          /\ (Selecting = {} /\ ~ghost.overlap) => chat.focused = ghost.wanted

\* No call waits for ever, though the server may die or be slow and late answers
\* are dropped; and the app that is closed ends, unless a cancellation was
\* ignored.
CallsAndAppEnd ==
    /\ \A t \in Tasks : []<>(~Waiting(t))
    /\ []<>(app.phase # "closing" \/ ghost.swallowed # {})

=============================================================================
