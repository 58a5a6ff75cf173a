------------------------------ MODULE Enforcer ------------------------------
(***************************************************************************)
(* The cadence enforcer as the Claude Code hooks run it: enforcer/cli.py   *)
(* with decide() and the StateStore of core/enforcer.                      *)
(*                                                                         *)
(* Every tool call and every attempt to stop starts a hook process.  Hooks *)
(* of one agent overlap (parallel tool calls, subagents that report the    *)
(* agent's name), so a hook is one step per database access.  A            *)
(* post_tool_use hook sends a heartbeat, loads the counters, decides on    *)
(* them and then counts its event in a transaction of its own; a stop hook *)
(* first looks into the agent's inbox by draining one message from it.     *)
(*                                                                         *)
(* The rows of different agents never meet, so one agent is modelled.  Its *)
(* inbox is the set of messages pending for it in the SQLite store and the *)
(* set its MCP server has buffered (module Mailbox); both drains are       *)
(* single steps here (module SqliteStore splits them).  The timestamps     *)
(* decide nothing.  This command line never reports turn_started, so       *)
(* turns_since_last_drain stays 0, the decision on channel_send is always  *)
(* noop, and both are left out.                                            *)
(***************************************************************************)
EXTENDS Naturals, FiniteSets

CONSTANTS
    Hooks,            \* hook processes that may run at the same time
    None,             \* no hook
    Threshold,        \* reminder_threshold_tool_calls
    WatchesPresence,  \* whether the agent is subscribed to sox/presence
    MaxCalls,         \* bound: hooks ever started
    MaxMessages,      \* bound: messages ever sent to the agent
    MaxFaults         \* bound: hooks that die

ASSUME EnforcerAssumption ==
    /\ None \notin Hooks
    /\ IsFiniteSet(Hooks)
    /\ Hooks # {}
    /\ Threshold \in Nat \ {0}
    /\ WatchesPresence \in BOOLEAN
    /\ MaxCalls \in Nat
    /\ MaxMessages \in Nat
    /\ MaxFaults \in Nat

VARIABLES
    row,       \* the agent's row of enforcer_state
    writer,    \* the hook inside BEGIN IMMEDIATE ... COMMIT on the state database
    hook,      \* per hook process, where it is and its local variables
    pending,   \* the messages the store holds for the agent, not yet delivered
    buffer,    \* the messages in the queue of the agent's MCP server
    stopped,   \* whether the agent has been allowed to stop
    sent,      \* messages ever sent to the agent
    calls,     \* hooks ever started
    faults,    \* hooks that died
    read,      \* history: the messages channels__recv returned to the agent
    found,     \* history: the messages stop hooks drained to look into the inbox
    blocks,    \* history: the times a stop was blocked
    since,     \* history: the events counted since the last counted drain
    silent     \* history: the tool_used events among them that gave no reminder

vars == <<row, writer, hook, pending, buffer, stopped, sent, calls, faults,
          read, found, blocks, since, silent>>

history == <<read, found, blocks, since, silent>>

-----------------------------------------------------------------------------

ToolEvents == {"tool_used", "channel_send", "channel_recv"}

Idle == [at |-> "idle"]

Goto(h, state) == hook' = [hook EXCEPT ![h] = state]

At(h, place) == hook[h].at = place

\* The cold-start default of the row.
NoCalls == [tool_calls |-> 0, sends |-> 0]

Init ==
    /\ row = NoCalls
    /\ writer = None
    /\ hook = [h \in Hooks |-> Idle]
    /\ pending = {}
    /\ buffer = {}
    /\ stopped = FALSE
    /\ sent = 0
    /\ calls = 0
    /\ faults = 0
    /\ read = {}
    /\ found = {}
    /\ blocks = 0
    /\ since = NoCalls
    /\ silent = 0

-----------------------------------------------------------------------------
(* The inbox.                                                              *)

\* A message for the agent enters the store.
Enqueue ==
    /\ sent < MaxMessages
    /\ sent' = sent + 1
    /\ pending' = pending \cup {sent'}

PeerSend ==
    /\ Enqueue
    /\ UNCHANGED <<row, writer, hook, buffer, stopped, calls, faults, history>>

\* The listener of the MCP server buffers what is pending and new to it.
Listen ==
    /\ ~stopped
    /\ buffer' = buffer \cup pending
    /\ buffer' # buffer
    /\ UNCHANGED <<row, writer, hook, pending, stopped, sent, calls, faults, history>>

-----------------------------------------------------------------------------
(* The post_tool_use hook.                                                 *)

Start(h) ==
    /\ ~stopped
    /\ At(h, "idle")
    /\ calls < MaxCalls
    /\ calls' = calls + 1

\* A tool call has completed.  A channels__recv has handed the buffer to the
\* agent and marked the pending messages delivered.
ToolCall(h, event) ==
    /\ Start(h)
    /\ Goto(h, [at |-> "heartbeat", event |-> event])
    /\ IF event = "channel_recv"
       THEN pending' = {} /\ buffer' = {} /\ read' = read \cup buffer
       ELSE UNCHANGED <<pending, buffer, read>>
    /\ UNCHANGED <<row, writer, stopped, sent, faults, found, blocks, since, silent>>

\* The heartbeat files an event on sox/presence: into this agent's own inbox,
\* if it watches that channel.  A heartbeat that fails is swallowed.
AutoHeartbeat(h) ==
    /\ At(h, "heartbeat")
    /\ \/ WatchesPresence /\ Enqueue
       \/ UNCHANGED <<sent, pending>>
    /\ Goto(h, [at |-> "load", event |-> hook[h].event, inbox_non_empty |-> FALSE])
    /\ UNCHANGED <<row, writer, buffer, stopped, calls, faults, history>>

-----------------------------------------------------------------------------
(* The stop hook.                                                          *)

StopRequest(h) ==
    /\ Start(h)
    /\ Goto(h, [at |-> "inbox"])
    /\ UNCHANGED <<row, writer, pending, buffer, stopped, sent, faults, history>>

\* Mutant of InboxCheck: a look that leaves the message pending.
InboxPeek(h, taken, flag) ==
    /\ At(h, "inbox")
    /\ found' = found \cup taken
    /\ Goto(h, [at |-> "load", event |-> "stop_requested", inbox_non_empty |-> flag])
    /\ UNCHANGED <<row, writer, pending, buffer, stopped, sent, calls, faults, read,
                   blocks, since, silent>>

\* _inbox_non_empty: recv one message and forget it; any error means "empty".
InboxCheck(h, taken, flag) ==
    /\ At(h, "inbox")
    /\ pending' = pending \ taken
    /\ found' = found \cup taken
    /\ Goto(h, [at |-> "load", event |-> "stop_requested", inbox_non_empty |-> flag])
    /\ UNCHANGED <<row, writer, buffer, stopped, sent, calls, faults, read,
                   blocks, since, silent>>

InboxNonEmpty(h) == \E m \in pending : InboxCheck(h, {m}, TRUE)

InboxEmpty(h) == pending = {} /\ InboxCheck(h, {}, FALSE)

InboxError(h) == pending # {} /\ InboxCheck(h, {}, FALSE)

-----------------------------------------------------------------------------
(* Deciding and counting.                                                  *)

\* Mutant of decide: the call that reaches the threshold is not counted.
decideTooLate(event, state, inbox_non_empty) ==
    CASE event = "tool_used" /\ state.tool_calls + 1 > Threshold -> "inject"
      [] event = "stop_requested" /\ inbox_non_empty -> "block"
      [] OTHER -> "noop"

decide(event, state, inbox_non_empty) ==
    CASE event = "tool_used" /\ state.tool_calls + 1 >= Threshold -> "inject"
      [] event = "stop_requested" /\ inbox_non_empty -> "block"
      [] OTHER -> "noop"

\* load() and decide(): the row as it is now, counted events of other hooks
\* included and those of hooks still under way not.
LoadAndDecide(h) ==
    LET event == hook[h].event
    IN  /\ At(h, "load")
        /\ Goto(h, [at |-> "begin", event |-> event,
                    decision |-> decide(event, row, hook[h].inbox_non_empty)])
        /\ UNCHANGED <<row, writer, pending, buffer, stopped, sent, calls, faults, history>>

\* Mutant of ApplyBegin: the row is read outside the write transaction.
ApplyBeginDeferred(h) ==
    /\ At(h, "begin")
    /\ writer' = h
    /\ Goto(h, [at |-> "commit", event |-> hook[h].event,
                decision |-> hook[h].decision, state |-> row])
    /\ UNCHANGED <<row, pending, buffer, stopped, sent, calls, faults, history>>

\* apply_event(), first half: BEGIN IMMEDIATE waits for the write lock, then
\* the row is read again.
ApplyBegin(h) ==
    /\ At(h, "begin")
    /\ writer = None
    /\ writer' = h
    /\ Goto(h, [at |-> "commit", event |-> hook[h].event,
                decision |-> hook[h].decision, state |-> row])
    /\ UNCHANGED <<row, pending, buffer, stopped, sent, calls, faults, history>>

Counted(state, event) ==
    CASE event = "channel_recv" -> NoCalls
      [] event = "tool_used" -> [state EXCEPT !.tool_calls = @ + 1]
      [] event = "channel_send" -> [state EXCEPT !.sends = @ + 1]
      [] event = "stop_requested" -> state

\* apply_event(), second half, and the answer of the hook to the runtime.
ApplyCommit(h) ==
    LET event == hook[h].event
        decision == hook[h].decision
    IN  /\ At(h, "commit")
        /\ row' = Counted(hook[h].state, event)
        /\ writer' = None
        /\ Goto(h, Idle)
        /\ stopped' = (stopped \/ (event = "stop_requested" /\ decision = "noop"))
        /\ blocks' = blocks + (IF decision = "block" THEN 1 ELSE 0)
        /\ since' = Counted(since, event)
        /\ silent' = IF event = "channel_recv" THEN 0
                     ELSE silent + (IF event = "tool_used" /\ decision = "noop"
                                    THEN 1 ELSE 0)
        /\ UNCHANGED <<pending, buffer, sent, calls, faults, read, found>>

\* Mutant of Die: the write lock outlives the hook.
DieHoldingLock(h) ==
    /\ faults < MaxFaults
    /\ faults' = faults + 1
    /\ ~At(h, "idle")
    /\ Goto(h, Idle)
    /\ UNCHANGED <<row, writer, pending, buffer, stopped, sent, calls, history>>

\* A hook dies or gives up: its transaction is rolled back, it says nothing,
\* and the shell wrapper turns that into "go on".
Die(h) ==
    /\ faults < MaxFaults
    /\ faults' = faults + 1
    /\ ~At(h, "idle")
    /\ writer' = IF writer = h THEN None ELSE writer
    /\ Goto(h, Idle)
    /\ stopped' = (stopped \/ (\/ At(h, "inbox")
                               \/ ~At(h, "heartbeat") /\ hook[h].event = "stop_requested"))
    /\ UNCHANGED <<row, pending, buffer, sent, calls, history>>

-----------------------------------------------------------------------------

Step(h) ==
    \/ AutoHeartbeat(h)
    \/ InboxNonEmpty(h)
    \/ InboxEmpty(h)
    \/ InboxError(h)
    \/ LoadAndDecide(h)
    \/ ApplyBegin(h)
    \/ ApplyCommit(h)

Next ==
    \/ PeerSend
    \/ Listen
    \/ \E h \in Hooks, e \in ToolEvents : ToolCall(h, e)
    \/ \E h \in Hooks : StopRequest(h)
    \/ \E h \in Hooks : Step(h)
    \/ \E h \in Hooks : Die(h)

\* A hook process runs until it ends; nothing else is assumed to happen.
Spec == Init /\ [][Next]_vars /\ \A h \in Hooks : WF_vars(Step(h))

-----------------------------------------------------------------------------
(* Properties.                                                             *)

Row == [tool_calls : Nat, sends : Nat]

\* Every variable holds a value of its kind, and the write lock is held by a
\* hook between BEGIN IMMEDIATE and COMMIT.
TypeOK ==
    /\ row \in Row
    /\ since \in Row
    /\ writer \in Hooks \cup {None}
    /\ \A h \in Hooks : At(h, "commit") <=> writer = h
    /\ sent \in 0 .. MaxMessages
    /\ pending \cup buffer \cup read \cup found \subseteq 1 .. sent
    /\ stopped \in BOOLEAN
    /\ calls \in 0 .. MaxCalls
    /\ faults \in 0 .. MaxFaults
    /\ blocks \in Nat
    /\ silent \in Nat

\* No lost update: whatever overlaps and whichever hooks die half-way, the row
\* holds exactly the events counted since the last counted drain.
CountersAreExact == row = since

\* Hooks decide on counters that other hooks are about to change, so the
\* reminder can come late, but by no more calls than there are other hooks:
\* between two drains the agent makes fewer than Threshold + |Hooks| - 1 tool
\* calls without being reminded.
SilenceIsBounded == silent <= Threshold - 1 + (Cardinality(Hooks) - 1)

\* The agent is never trapped: each message in its inbox costs it at most one
\* blocked stop, whether or not it ever drains.
BlocksAreBounded == blocks <= Cardinality(found)

\* Every hook ends: no hook waits forever for the write lock.
HooksEnd == \A h \in Hooks : (~At(h, "idle")) ~> At(h, "idle")

\* enforcer/cli.py, _inbox_non_empty: the message the stop hook has drained to
\* look into the inbox is one "the agent will drain ... properly": when the
\* agent then calls channels__recv, it gets whatever stop hooks have found.
FoundIsDrained ==
    [][\A h \in Hooks :
          (calls' # calls /\ hook'[h] # hook[h] /\ hook'[h].at = "heartbeat"
           /\ hook'[h].event = "channel_recv") => found \subseteq read']_vars

=============================================================================
