--------------------------- MODULE ReferenceAgent ---------------------------
(***************************************************************************)
(* The reference agent (examples/reference-agent/agent.py, state.py): it   *)
(* subscribes, throws away what is waiting, replays what it missed since   *)
(* the seq it saved last, and then handles what channels__recv returns,    *)
(* saving the seq of every message it has handled.  SIGTERM starts         *)
(* graceful_stop as a task of its own; the process, and the server that    *)
(* runs in it or below it, may also just die.                              *)
(*                                                                         *)
(* Abstractions: one work channel, whose messages are the numbers 1, 2,    *)
(* ... of their seq; the events of sox/presence, which the agent           *)
(* acknowledges like any message, the checks of the version and of the     *)
(* peers and the group helpers, which call one tool each, are left out.    *)
(* The acknowledgements the server keeps are the agent's _pending.  Of the *)
(* server's mailbox (Mailbox) only what the agent meets is kept; its store *)
(* outlives the agent.                                                     *)
(***************************************************************************)
EXTENDS Naturals, Sequences, FiniteSets, Functions

CONSTANTS
    PageSize         \* the limit of a replay

ASSUME PagesAdvance == PageSize \in Nat \ {0, 1}

VARIABLES
    channel,         \* the server's store: log, delivery, subscription, presence
    mailbox,         \* the server's listener: its buffer and the last id it saw
    seq_json,        \* SeqState: the seq saved last, 0 for none
    self,            \* the agent
    stopping,        \* graceful_stop, as SIGTERM's task and as called by run
    record           \* history and bounds, see each field's use

agentVars == <<channel, mailbox, seq_json, self, stopping, record>>

Down == [pc |-> "down", once |-> FALSE, batch |-> <<>>, replaying |-> FALSE,
         since |-> 0, has_more |-> FALSE, pending |-> {}, stop_event |-> FALSE]

NotStopping == [by \in {"signal", "run"} |-> "off"]

\* An agent that never ran, or one that died when it had handled the first of
\* the messages; and the bounds: messages still to come, and lives.
AgentInit(starts) ==
    /\ \E s \in starts :
          LET ran == s.log # <<>>
          IN  /\ channel = [log |-> s.log, delivered |-> IF ran THEN {1} ELSE {},
                            subscribed |-> ran, presence |-> IF ran THEN "busy" ELSE "unknown"]
              /\ seq_json = IF ran THEN 1 ELSE 0
              /\ record = [handled |-> IF ran THEN {1} ELSE {}, dropped |-> {}, strays |-> {},
                           exit |-> "none", lives |-> s.lives, room |-> s.room]
    /\ mailbox = [buffer |-> <<>>, last_seen |-> 0]
    /\ self = Down
    /\ stopping = NotStopping

-----------------------------------------------------------------------------
(* The server and the other agents.                                        *)

SendWork ==
    /\ record.room > 0
    /\ record' = [record EXCEPT !.room = @ - 1]
    /\ \E kind \in {"clarification_request", "other"} :
          channel' = [channel EXCEPT !.log = Append(@, kind)]
    /\ UNCHANGED <<mailbox, seq_json, self, stopping>>

Undelivered == IF channel.subscribed THEN DOMAIN channel.log \ channel.delivered ELSE {}

\* The messages of a set, oldest first.
OldestFirst(S) ==
    {l \in [1 .. Cardinality(S) -> S] :
        S \subseteq Range(l) /\ \A x, y \in DOMAIN l : x < y => l[x] < l[y]}

\* The listener buffers what is new to it.
Buffer ==
    /\ self.pc # "down"
    /\ LET new == {m \in Undelivered : m > mailbox.last_seen}
       IN  /\ new # {}
           /\ \E yielded \in OldestFirst(new) :
                 mailbox' = [buffer |-> mailbox.buffer \o yielded,
                             last_seen |-> yielded[Len(yielded)]]
    /\ UNCHANGED <<channel, seq_json, self, stopping, record>>

-----------------------------------------------------------------------------
(* Bootstrap and recovery.                                                 *)

InStep(pc) == self.pc = pc

Go(pc) == self' = [self EXCEPT !.pc = pc]

\* What the process takes along when it ends, and is lost as long as no seq has
\* been saved: the batch and the buffer.
InHand == IF seq_json = 0 THEN Range(self.batch) \cup Range(mailbox.buffer) ELSE {}

\* run; the listener of a new server starts behind what has been delivered.
StartAgent(once) ==
    /\ InStep("down")
    /\ record.lives > 0
    /\ self' = [Down EXCEPT !.pc = "subscribe", !.once = once]
    /\ stopping' = NotStopping
    /\ \E last \in channel.delivered \cup {0} :
          /\ \A m \in channel.delivered : m <= last
          /\ mailbox' = [buffer |-> <<>>, last_seen |-> last]
    /\ record' = [record EXCEPT !.lives = @ - 1, !.exit = "none"]
    /\ UNCHANGED <<channel, seq_json>>

\* bootstrap, steps 2 to 4
Bootstrap ==
    /\ \/ InStep("subscribe") /\ channel' = [channel EXCEPT !.subscribed = TRUE] /\ Go("greet")
       \/ InStep("greet") /\ channel' = [channel EXCEPT !.presence = "online"] /\ Go("drain")
    /\ UNCHANGED <<mailbox, seq_json, stopping, record>>

\* The first half of channels__recv: the buffer is emptied.
Drain(then) ==
    /\ self' = [self EXCEPT !.pc = then, !.batch = mailbox.buffer]
    /\ mailbox' = [mailbox EXCEPT !.buffer = <<>>]

\* The second half: what is undelivered is marked; what is neither returned nor
\* in the buffer by now is dropped.
Mark ==
    /\ channel' = [channel EXCEPT !.delivered = @ \cup Undelivered]
    /\ record' = [record EXCEPT !.dropped =
          @ \cup (Undelivered \ (Range(self.batch) \cup Range(mailbox.buffer)))]

\* Step 5: what is waiting is discarded.
DiscardBacklog ==
    \/ /\ InStep("drain")
       /\ Drain("discard")
       /\ UNCHANGED <<channel, seq_json, stopping, record>>
    \/ /\ InStep("discard")
       /\ channel' = [channel EXCEPT !.delivered = @ \cup Undelivered]
       /\ record' = [record EXCEPT
              !.dropped = @ \cup (Undelivered \ (Range(self.batch) \cup Range(mailbox.buffer))),
              !.strays = @ \cup (IF seq_json = 0 THEN Range(self.batch) ELSE {})]
       /\ self' = [self EXCEPT !.pc = "recover", !.batch = <<>>]
       /\ UNCHANGED <<mailbox, seq_json, stopping>>

\* Mutant of Recover: the recovery starts behind what is in the mailbox now.
RecoverFromNow ==
    /\ InStep("recover")
    /\ self' = IF seq_json = 0 THEN [self EXCEPT !.pc = "poll"]
               ELSE [self EXCEPT !.pc = "replay", !.since = mailbox.last_seen + 1]
    /\ UNCHANGED <<channel, mailbox, seq_json, stopping, record>>

\* recover_from_state: only a channel with a saved seq is replayed.
Recover ==
    /\ InStep("recover")
    /\ self' = IF seq_json = 0 THEN [self EXCEPT !.pc = "poll"]
               ELSE [self EXCEPT !.pc = "replay", !.since = seq_json + 1]
    /\ UNCHANGED <<channel, mailbox, seq_json, stopping, record>>

\* One page; since is inclusive, so that a page after the first begins with the
\* message the last one ended with.
Replay ==
    /\ InStep("replay")
    /\ LET found == Len(channel.log) + 1 - self.since
           more  == found > PageSize
           page  == [i \in 1 .. IF more THEN PageSize ELSE found |-> self.since + i - 1]
       IN  self' = [self EXCEPT !.pc = IF found = 0 THEN "poll" ELSE "next",
                                !.batch = page, !.has_more = more, !.replaying = found # 0]
    /\ UNCHANGED <<channel, mailbox, seq_json, stopping, record>>

-----------------------------------------------------------------------------
(* The main loop, or the single cycle of --once.                           *)

Poll ==
    /\ InStep("poll")
    /\ self.once \/ ~self.stop_event
    /\ Drain("mark")
    /\ UNCHANGED <<channel, seq_json, stopping, record>>

\* The rest of recv; a batch makes the agent busy, in the loop.
Polled ==
    /\ InStep("mark")
    /\ Mark
    /\ Go(IF self.batch # <<>> THEN IF self.once THEN "next" ELSE "busy"
          ELSE IF self.once THEN "stop" ELSE "poll")
    /\ UNCHANGED <<mailbox, seq_json, stopping>>

SetPresence ==
    /\ \/ InStep("busy") /\ channel' = [channel EXCEPT !.presence = "busy"] /\ Go("next")
       \/ InStep("idle") /\ channel' = [channel EXCEPT !.presence = "online"] /\ Go("poll")
    /\ UNCHANGED <<mailbox, seq_json, stopping, record>>

Current == Head(self.batch)

\* ack(received), which a replayed message does not get, and ack(processing).
Acknowledge ==
    /\ \/ /\ InStep("next") /\ ~self.replaying
          /\ self' = [self EXCEPT !.pc = "received", !.pending = @ \cup {Current}]
       \/ /\ InStep("received") \/ (InStep("next") /\ self.replaying)
          /\ self' = [self EXCEPT !.pc = "handling", !.pending = @ \cup {Current}]
    /\ UNCHANGED <<channel, mailbox, seq_json, stopping, record>>

\* A request is answered on its channel; the reply comes back like any message.
Reply ==
    /\ InStep("handling")
    /\ channel.log[Current] = "clarification_request"
    /\ record.room > 0
    /\ record' = [record EXCEPT !.room = @ - 1]
    /\ channel' = [channel EXCEPT !.log = Append(@, "other")]
    /\ Go("settle")
    /\ UNCHANGED <<mailbox, seq_json, stopping>>

\* The reply is refused: the loop catches the exception and nacks; in the
\* recovery and with --once it ends the agent.
ReplyFails ==
    /\ InStep("handling")
    /\ channel.log[Current] = "clarification_request"
    /\ IF self.replaying \/ self.once
       THEN /\ self' = Down
            /\ stopping' = NotStopping
            /\ record' = [record EXCEPT !.exit = "failed", !.strays = @ \cup InHand]
       ELSE Go("settle") /\ UNCHANGED <<stopping, record>>
    /\ UNCHANGED <<channel, mailbox, seq_json>>

\* ack(done), or ack(nack): the message has reached its end.
Settle ==
    /\ InStep("settle") \/ (InStep("handling") /\ channel.log[Current] = "other")
    /\ self' = [self EXCEPT !.pc = "save", !.pending = @ \ {Current}]
    /\ record' = [record EXCEPT !.handled = @ \cup {Current}]
    /\ UNCHANGED <<channel, mailbox, seq_json, stopping>>

\* SeqState.update, and on to the next message, page, poll or the stop.
Save ==
    /\ InStep("save")
    /\ seq_json' = Current
    /\ self' = [self EXCEPT
          !.batch = Tail(@), !.since = Current,
          !.replaying = @ /\ Len(self.batch) > 1,
          !.pc = IF Len(self.batch) > 1 THEN "next"
                 ELSE IF self.replaying THEN IF self.has_more THEN "replay" ELSE "poll"
                 ELSE IF self.once THEN "stop" ELSE "idle"]
    /\ UNCHANGED <<channel, mailbox, stopping, record>>

-----------------------------------------------------------------------------
(* The end.                                                                *)

\* graceful_stop starts: SIGTERM creates a task, --once calls it.
BeginStop(by) ==
    /\ stopping[by] = "off"
    /\ IF by = "run" THEN InStep("stop") ELSE ~InStep("down")
    /\ stopping' = [stopping EXCEPT ![by] = "waiting"]
    /\ UNCHANGED <<channel, mailbox, seq_json, self, record>>

\* Nothing is pending: offline, then unsubscribed, which settles the backlog.
SayOffline(by) ==
    /\ stopping[by] = "waiting"
    /\ self.pending = {}
    /\ channel' = [channel EXCEPT !.presence = "offline"]
    /\ stopping' = [stopping EXCEPT ![by] = "unsubscribing"]
    /\ UNCHANGED <<mailbox, seq_json, self, record>>

Unsubscribe(by) ==
    /\ stopping[by] = "unsubscribing"
    /\ channel' = [channel EXCEPT !.subscribed = FALSE, !.delivered = @ \cup Undelivered]
    /\ record' = [record EXCEPT !.dropped = @ \cup (Undelivered \ Range(mailbox.buffer))]
    /\ self' = [self EXCEPT !.stop_event = TRUE]
    /\ stopping' = [stopping EXCEPT ![by] = "done"]
    /\ UNCHANGED <<mailbox, seq_json>>

\* run returns.
Exit ==
    /\ IF self.once THEN InStep("stop") /\ stopping["run"] = "done"
       ELSE InStep("poll") /\ self.stop_event
    /\ record' = [record EXCEPT
          !.exit = IF self.pending # {} THEN "unsettled" ELSE IF self.once THEN "once" ELSE "clean",
          !.strays = @ \cup InHand]
    /\ self' = Down
    /\ stopping' = NotStopping
    /\ UNCHANGED <<channel, mailbox, seq_json>>

\* The process dies, or is killed, at any point.
Crash ==
    /\ ~InStep("down")
    /\ self' = Down
    /\ stopping' = NotStopping
    /\ record' = [record EXCEPT !.exit = "crashed",
          !.strays = @ \cup InHand]
    /\ UNCHANGED <<channel, mailbox, seq_json>>

AgentStep ==
    \/ SendWork \/ Buffer
    \/ \E once \in BOOLEAN : StartAgent(once)
    \/ Bootstrap \/ DiscardBacklog \/ Recover \/ Replay
    \/ Poll \/ Polled \/ SetPresence \/ Acknowledge
    \/ Reply \/ ReplyFails \/ Settle \/ Save
    \/ \E by \in {"signal", "run"} : BeginStop(by) \/ SayOffline(by) \/ Unsubscribe(by)
    \/ Exit \/ Crash

AgentSpec(starts) == AgentInit(starts) /\ [][AgentStep]_agentVars

-----------------------------------------------------------------------------

\* "No message is ever skipped across restarts" (recover_from_state), as far as
\* it goes: the saved seq has passed no message that was not handled to its end,
\* wherever the process died or was stopped, save for one that channels__recv or
\* an unsubscribe marked without returning it, or that was handed out before
\* the agent had saved its first seq.  An agent that exits of its own accord
\* leaves no message received or processing, and after --once it is offline and
\* unsubscribed, SIGTERM or not.
SavedMeansHandled ==
    /\ 1 .. seq_json \subseteq record.handled \cup record.dropped \cup record.strays
    /\ record.exit # "unsettled"
    /\ record.exit = "once" => channel.presence = "offline" /\ ~channel.subscribed

=============================================================================
