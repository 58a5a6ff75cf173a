------------------------------- MODULE Mailbox ------------------------------
(***************************************************************************)
(* How one agent's messages travel from the backing store to the agent in  *)
(* the MCP server: the store's watch() generator, the Listener task that   *)
(* drives it into an in-process queue (core/mcp_server/listener.py), and   *)
(* the tools channels__recv, channels__collect and channels__unsubscribe   *)
(* (core/mcp_server/tools.py) that drain the queue and the store.          *)
(*                                                                         *)
(* The store operations are the atomic ones of the memory adapter, seen by *)
(* the one agent this server serves: a message is its channel, its id is   *)
(* its position, and "settled" is the set of ids whose delivered_to names  *)
(* the agent.  Subscription patterns are the channels they match.  With an *)
(* unbounded queue neither the yields of one watch() round nor the puts    *)
(* suspend, so a round is one step.  channels__recv is two steps: what     *)
(* follows the drain awaits the middleware pipeline.  The history          *)
(* variables cover one run of the server process.                          *)
(***************************************************************************)
EXTENDS Naturals, Sequences, FiniteSets, SequencesExt

CONSTANTS
    Channels,      \* channel names
    Rank,          \* the alphabetical position of each channel name
    None,          \* Python's None
    Limits,        \* the max_messages and count values of the tools
    Filters,       \* the "channels" arguments of channels__recv: None or a set
    MaxMessages,   \* bound: messages ever sent
    MaxRestarts    \* bound: restarts of the server process

ASSUME MailboxAssumption ==
    /\ \A c \in Channels : Rank[c] \in Nat
    /\ \A c, d \in Channels : Rank[c] = Rank[d] => c = d
    /\ Limits \subseteq Nat \ {0}
    /\ None \notin [kept : Seq(Nat), channels : Filters, max_messages : Limits]
    /\ MaxMessages \in Nat
    /\ MaxRestarts \in Nat

VARIABLES
    messages,     \* the channel of each stored message, by id
    subscribed,   \* the channels the agent's patterns match
    settled,      \* the ids marked delivered to the agent
    watching,     \* whether the listener is inside watch()
    last_seen_id, \* watch()'s cursor
    queue,        \* Listener.queue
    call,         \* the channels__recv between its drain and its answer
    restarts,     \* restarts of the server so far
    erred,        \* history: whether watch() has raised since the server started
    received,     \* history: the ids channels__recv returned, in order
    accounted,    \* history: the ids channels__collect returned or unsubscribe settled
    wanted,       \* history: the ids sent while the agent was subscribed
    buffered,     \* history: the ids ever put into the queue of this server
    requeued      \* history: whether a filtered drain put a message back

vars == <<messages, subscribed, settled, watching, last_seen_id, queue, call,
          restarts, erred, received, accounted, wanted, buffered, requeued>>

history == <<erred, received, accounted, wanted, buffered, requeued>>

-----------------------------------------------------------------------------

Ids == 1 .. MaxMessages

Init ==
    /\ messages = <<>>
    /\ subscribed = {}
    /\ settled = {}
    /\ watching = TRUE
    /\ last_seen_id = 0
    /\ queue = <<>>
    /\ call = None
    /\ restarts = 0
    /\ erred = FALSE
    /\ received = <<>>
    /\ accounted = {}
    /\ wanted = {}
    /\ buffered = {}
    /\ requeued = FALSE

\* What a new server process starts with.  The lifespan starts the listener,
\* whose watch() runs before the first tool call is read.
FreshServer ==
    /\ watching' = TRUE
    /\ queue' = <<>>
    /\ call' = None
    /\ erred' = FALSE
    /\ received' = <<>>
    /\ accounted' = {}
    /\ wanted' = {}
    /\ buffered' = {}
    /\ requeued' = FALSE

\* A peer sends a message.
Send(c) ==
    /\ Len(messages) < MaxMessages
    /\ messages' = Append(messages, c)
    /\ wanted' = IF c \in subscribed THEN wanted \cup {Len(messages) + 1} ELSE wanted
    /\ UNCHANGED <<subscribed, settled, watching, last_seen_id, queue, call,
                   restarts, erred, received, accounted, buffered, requeued>>

Subscribe(c) ==
    /\ subscribed' = subscribed \cup {c}
    /\ UNCHANGED <<messages, settled, watching, last_seen_id, queue, call,
                   restarts, history>>

\* The store settles the pending messages; the listener's queue is not touched.
Unsubscribe(c) ==
    LET cleared == {i \in DOMAIN messages : i \notin settled /\ messages[i] = c}
    IN  /\ c \in subscribed
        /\ subscribed' = subscribed \ {c}
        /\ settled' = settled \cup cleared
        /\ accounted' = accounted \cup cleared
        /\ UNCHANGED <<messages, watching, last_seen_id, queue, call, restarts,
                       erred, received, wanted, buffered, requeued>>

-----------------------------------------------------------------------------
(* The store's recv: the oldest max_messages pending ids in the scope.     *)

RecvIds(channels, max_messages) ==
    LET scope == IF channels = None THEN subscribed ELSE channels
        pending == {i \in DOMAIN messages : i \notin settled /\ messages[i] \in scope}
    IN  {i \in pending : Cardinality({j \in pending : j <= i}) <= max_messages}

-----------------------------------------------------------------------------
(* watch() and the listener task.                                          *)

\* On entry the cursor is the highest id already delivered to the agent.
WatchStart ==
    /\ ~watching
    /\ watching' = TRUE
    /\ last_seen_id' = Max(settled \cup {0})
    /\ UNCHANGED <<messages, subscribed, settled, queue, call, restarts, history>>

\* Mutant of NewIds: the cursor is not compared.
NewIdsWithoutCursor ==
    {i \in DOMAIN messages : i \notin settled /\ messages[i] \in subscribed}

\* Mutant of NewIds: the cursor skips one id too many.
NewIdsOffByOne ==
    {i \in DOMAIN messages :
        i > last_seen_id + 1 /\ i \notin settled /\ messages[i] \in subscribed}

NewIds ==
    {i \in DOMAIN messages :
        i > last_seen_id /\ i \notin settled /\ messages[i] \in subscribed}

\* Mutant of WatchOrder: newest first.
WatchOrderReversed(i, j) ==
    \/ Rank[messages[i]] < Rank[messages[j]]
    \/ messages[i] = messages[j] /\ i > j

WatchOrder(i, j) ==
    \/ Rank[messages[i]] < Rank[messages[j]]
    \/ messages[i] = messages[j] /\ i < j

\* The arrangements of the set S, each member once, in the order Before.
Listings(S, Before(_, _)) ==
    {l \in [1 .. Cardinality(S) -> S] :
        /\ S \subseteq Range(l)
        /\ \A x, y \in DOMAIN l : x < y => Before(l[x], l[y])}

\* One round of the loop: everything new is yielded and put into the queue.
WatchFetch ==
    /\ watching
    /\ NewIds # {}
    /\ last_seen_id' = Max(NewIds)
    /\ \E yielded \in Listings(NewIds, WatchOrder) : queue' = queue \o yielded
    /\ buffered' = buffered \cup NewIds
    /\ UNCHANGED <<messages, subscribed, settled, watching, call, restarts,
                   erred, received, accounted, wanted, requeued>>

\* The store raises inside watch(): the listener logs, sleeps and starts over
\* (bound: once per run of the server).
WatchError ==
    /\ watching
    /\ ~erred
    /\ watching' = FALSE
    /\ erred' = TRUE
    /\ UNCHANGED <<messages, subscribed, settled, last_seen_id, queue, call,
                   restarts, received, accounted, wanted, buffered, requeued>>

\* The server process dies and is started again on a durable store: the queue
\* and the call in progress are gone, the store is as it was.
Restart ==
    /\ restarts < MaxRestarts
    /\ restarts' = restarts + 1
    /\ last_seen_id' = Max(settled \cup {0})
    /\ FreshServer
    /\ UNCHANGED <<messages, subscribed, settled>>

-----------------------------------------------------------------------------
(* The tools.                                                              *)

\* The positions a drain pops, and those of them its filter keeps.
PopCount(max_messages) == Min({max_messages, Len(queue)})

Popped(max_messages) == 1 .. PopCount(max_messages)

KeptOf(popped, channels) ==
    {x \in popped : channels = None \/ messages[queue[x]] \in channels}

Rest(max_messages) == SubSeq(queue, PopCount(max_messages) + 1, Len(queue))

FirstFirst(x, y) == x < y

LastFirst(x, y) == x > y

\* What stands in the queue at the given positions.
QueueAt(positions) == [x \in DOMAIN positions |-> queue[positions[x]]]

\* Mutant of Drain: what the filter rejects is not put back.
DrainDroppingRejected(channels, max_messages) ==
    LET popped == Popped(max_messages)
    IN  /\ call = None
        /\ \E kept \in Listings(KeptOf(popped, channels), FirstFirst) :
              call' = [kept |-> QueueAt(kept),
                       channels |-> channels, max_messages |-> max_messages]
        /\ queue' = Rest(max_messages)
        /\ UNCHANGED <<messages, subscribed, settled, watching, last_seen_id, restarts,
                       erred, received, accounted, wanted, buffered, requeued>>

\* channels__recv, first half: pop up to max_messages; those the filter rejects
\* go back to the end of the queue, last one first.
Drain(channels, max_messages) ==
    LET popped == Popped(max_messages)
        rejects == popped \ KeptOf(popped, channels)
    IN  /\ call = None
        /\ \E kept \in Listings(KeptOf(popped, channels), FirstFirst) :
              call' = [kept |-> QueueAt(kept),
                       channels |-> channels, max_messages |-> max_messages]
        /\ \E rejected \in Listings(rejects, LastFirst) :
              queue' = Rest(max_messages) \o QueueAt(rejected)
        /\ requeued' = (requeued \/ rejects # {})
        /\ UNCHANGED <<messages, subscribed, settled, watching, last_seen_id,
                       restarts, erred, received, accounted, wanted, buffered>>

\* channels__recv, second half: the pipeline dispatches store.recv, whose result
\* is dropped; the drained messages are the answer.
Answer ==
    /\ call # None
    /\ settled' = settled \cup RecvIds(call.channels, call.max_messages)
    /\ received' = received \o call.kept
    /\ call' = None
    /\ UNCHANGED <<messages, subscribed, watching, last_seen_id, queue, restarts,
                   erred, accounted, wanted, buffered, requeued>>

\* The pipeline turns an exception of the store into an error response, which
\* channels__recv does not look at.
AnswerDespiteError ==
    /\ call # None
    /\ received' = received \o call.kept
    /\ call' = None
    /\ UNCHANGED <<messages, subscribed, settled, watching, last_seen_id, queue,
                   restarts, erred, accounted, wanted, buffered, requeued>>

\* channels__collect drains the store directly.
Collect(c, count) ==
    /\ settled' = settled \cup RecvIds({c}, count)
    /\ accounted' = accounted \cup RecvIds({c}, count)
    /\ UNCHANGED <<messages, subscribed, watching, last_seen_id, queue, call,
                   restarts, erred, received, wanted, buffered, requeued>>

-----------------------------------------------------------------------------

Listen == WatchStart \/ WatchFetch

Next ==
    \/ \E c \in Channels : Send(c)
    \/ \E c \in Channels : Subscribe(c)
    \/ \E c \in Channels : Unsubscribe(c)
    \/ WatchStart
    \/ WatchFetch
    \/ WatchError
    \/ Restart
    \/ \E f \in Filters, k \in Limits : Drain(f, k)
    \/ Answer
    \/ AnswerDespiteError
    \/ \E c \in Channels, k \in Limits : Collect(c, k)

\* The event loop polls the listener task forever (every 50 ms, or after its
\* one-second pause); nothing else is assumed to happen.
Spec == Init /\ [][Next]_vars /\ WF_vars(Listen)

-----------------------------------------------------------------------------
(* Properties.                                                             *)

Kept == IF call = None THEN <<>> ELSE call.kept

\* Everything on its way to the agent, in the order it would be read.
Pipeline == received \o Kept \o queue

\* As long as watch() never fails, channels__recv returns no message
\* twice: the cursor of one watch() call outruns everything it has yielded.
RecvReturnsOnce ==
    ~erred =>
        \A x, y \in DOMAIN Pipeline : Pipeline[x] = Pipeline[y] => x = y

\* As long as watch() never fails and no filtered drain has put messages
\* back, the agent reads each channel in the order it was sent.
RecvKeepsOrder ==
    (~erred /\ ~requeued) =>
        \A x, y \in DOMAIN Pipeline :
            (x < y /\ messages[Pipeline[x]] = messages[Pipeline[y]])
                => Pipeline[x] < Pipeline[y]

\* Draining with a filter, putting back and answering never lose a message that
\* reached the buffer of this server, whatever errors watch() raises meanwhile.
BufferKeepsMessages ==
    buffered \subseteq Range(Pipeline)

\* Whatever was sent while the agent was subscribed is eventually put into the
\* listener's buffer, unless some recv or unsubscribe settles it before that,
\* watch() fails or the server dies (wanted is emptied): in one run of watch()
\* its cursor never overtakes a pending message.
WatchCatchesUp ==
    \A i \in Ids :
        i \in wanted ~> (i \in buffered \/ i \in settled \/ erred \/ i \notin wanted)

\* core/mcp_server/listener.py, class Listener: unbounded buffering "guarantees
\* no message loss".  A message marked delivered to the agent while it was
\* subscribed has been buffered for it, collected by it or given up by it.
NoMessageLoss ==
    \A i \in wanted : i \in settled => i \in buffered \cup accounted

=============================================================================
