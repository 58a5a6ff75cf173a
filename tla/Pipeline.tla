------------------------------ MODULE Pipeline ------------------------------
(***************************************************************************)
(* The middleware pipeline (core/middleware): how the chain is put         *)
(* together, how a call travels down it to the store and back up, and the  *)
(* trace it leaves; the middlewares auth, store_dispatch, schema_strict,   *)
(* hook_dispatcher and middleware_log.                                     *)
(*                                                                         *)
(* A call enters one middleware after the other and leaves them in the     *)
(* opposite order.  Between two of those steps other calls run.  The       *)
(* result on its way up is a response (perhaps an error envelope), a       *)
(* ShortCircuitResponse or another exception.                              *)
(*                                                                         *)
(* Abstractions: an input is what the middlewares look at; a schema is     *)
(* the set of inputs that conform to it; the store is the one its port     *)
(* promises (ChannelStore), every agent subscribed to every channel.       *)
(***************************************************************************)
EXTENDS Identity, Sequences, SequencesExt

CONSTANTS
    Channels,      \* channel names
    Topics,        \* correlation ids
    Threshold      \* the queue depth at which a channel counts as over its limit

VARIABLES
    chain,      \* Pipeline.order: the names of the middlewares, outermost first
    calls,      \* per task, the dispatch() in progress
    log,        \* the messages the store keeps, by number
    drained,    \* per agent, the numbers of the messages recv() handed out
    effects,    \* history: what the store did, for which task and agent
    invoked     \* per task, the dispatches begun

pipelineVars == <<chain, calls, log, drained, effects, invoked>>

\* The operations auth verifies, and the others store_dispatch knows.
EnforcedOperations == {"send", "recv", "subscribe", "list_agents"}

\* The order build_default_pipeline() assembles; what is not registered is left out.
DefaultOrder ==
    <<"namespace_resolver", "auth", "rate_limit", "schema_validator", "idempotency",
      "store_dispatch", "audit_log">>

Middleware(name, before, after) == [name |-> name, before |-> before, after |-> after]

AuthMiddleware ==
    Middleware("auth", {"rate_limit", "schema_validator", "idempotency", "store_dispatch"},
               {"namespace_resolver"})
StoreDispatchMiddleware == Middleware("store_dispatch", {}, {})
SchemaStrictMiddleware == Middleware("schema_strict", {"store_dispatch"}, {})
LoggingMiddleware == Middleware("middleware_log", {}, {"store_dispatch"})
HookDispatcher == Middleware("hook_dispatcher", {}, {})

BuildDefaultPipeline ==
    LET registered == {AuthMiddleware, StoreDispatchMiddleware}
        present == SelectSeq(DefaultOrder, LAMBDA n : \E m \in registered : m.name = n)
    IN  [i \in DOMAIN present |-> CHOOSE m \in registered : m.name = present[i]]

\* extend_pipeline_with_registry() for one plugin: behind what must come first, in front
\* of the first that must come later, which wins; at the end if nothing must come later.
InsertPlugin(base, plugin) ==
    LET later == {i \in DOMAIN base : base[i].name \in plugin.before}
        sooner == {i \in DOMAIN base : \/ base[i].name \in plugin.after
                                       \/ plugin.name \in base[i].before}
        latest == Min(later)
        earliest == IF sooner = {} THEN 1 ELSE Max(sooner) + 1
    IN  IF later = {} THEN Append(base, plugin)
        ELSE InsertAt(base, Min({earliest, latest}), plugin)

ExtendPipeline(base, plugins) == FoldLeft(InsertPlugin, base, plugins)

Order(middlewares) == [i \in DOMAIN middlewares |-> middlewares[i].name]

-----------------------------------------------------------------------------

\* What travels up: a response, with its error_code or None, the messages in it and its
\* backpressure; a ShortCircuitResponse with the error_code of its envelope; another
\* exception.
Result(how, code, messages, over) ==
    [how |-> how, code |-> code, messages |-> messages, over |-> over]

Returns(code, messages) == Result("returns", code, messages, FALSE)
Denies(code) == Result("denies", code, <<>>, FALSE)
Raises == Result("raises", None, <<>>, FALSE)

Skipped == [verdict |-> "skipped", code |-> None]

\* The trace entry of a middleware the result comes out of.
Verdict(result) ==
    [verdict |-> IF result.how = "raises" THEN "errored"
                 ELSE IF result.code = None THEN "passed" ELSE "rejected",
     code |-> result.code]

NoCall == [phase |-> "idle", at |-> 0, operation |-> None, input |-> None,
           credential |-> None, hint |-> None, agent |-> None, result |-> None,
           trace |-> <<>>]

\* dispatch(): a fresh context and a trace in which all is skipped.
Dispatch(t, operation, input, credential, hint) ==
    /\ calls' = [calls EXCEPT ![t] =
           [phase |-> "down", at |-> 1, operation |-> operation, input |-> input,
            credential |-> credential, hint |-> hint, agent |-> None, result |-> None,
            trace |-> [i \in DOMAIN chain |-> Skipped]]]
    /\ invoked' = [invoked EXCEPT ![t] = @ + 1]
    /\ UNCHANGED <<chain, log, drained, effects>>

\* The call of t is about to enter this middleware.
Entering(t, name) ==
    /\ calls[t].phase = "down"
    /\ calls[t].at \in DOMAIN chain
    /\ chain[calls[t].at] = name

\* call_next(), and a result that starts its way up from the middleware the call is in.
GoOn(t, call) == calls' = [calls EXCEPT ![t] = [call EXCEPT !.phase = "down", !.at = @ + 1]]
TurnBack(t, result) == calls' = [calls EXCEPT ![t].phase = "up", ![t].result = result]

CallsOnly == UNCHANGED <<identityVars, chain, log, drained, effects, invoked>>

\* SchemaStrictMiddleware: an input the operation's schema does not admit goes no further.
SchemaStrict(t) ==
    /\ Entering(t, "schema_strict")
    /\ \/ calls[t].input.conforms /\ GoOn(t, calls[t])
       \/ ~calls[t].input.conforms /\ TurnBack(t, Denies("validation_error"))
    /\ CallsOnly

\* HookDispatcher before call_next(): each hook may deny, and may fail.
PreHooks(t) ==
    /\ Entering(t, "hook_dispatcher")
    /\ \/ GoOn(t, calls[t]) /\ UNCHANGED faults
       \/ TurnBack(t, Denies("hook_denied")) /\ UNCHANGED faults
       \/ /\ faults < MaxFaults
          /\ faults' = faults + 1
          /\ TurnBack(t, Raises)
    /\ UNCHANGED <<clock, records, seenNonces, audit, verifying, admin, authority, accepted,
                   chain, log, drained, effects, invoked>>

\* LoggingMiddleware does nothing before call_next().
EnterLog(t) ==
    /\ Entering(t, "middleware_log")
    /\ GoOn(t, calls[t])
    /\ CallsOnly

\* Python's "a or b".
Or(a, b) == IF a # None THEN a ELSE b

\* The credential of the connection or, as older callers have it, the one in the input.
ResolveCredential(call) == Or(call.credential, call.input.signed_request)

\* AuthMiddleware: operations that are not enforced pass; without a credential there
\* is nothing to verify; one found in the input is taken out of it.
PassAuth(t) ==
    /\ Entering(t, "auth")
    /\ calls[t].operation \notin EnforcedOperations
    /\ GoOn(t, calls[t])
    /\ CallsOnly

MissCredential(t) ==
    /\ Entering(t, "auth")
    /\ calls[t].operation \in EnforcedOperations
    /\ ResolveCredential(calls[t]) = None
    /\ TurnBack(t, Denies("identity_failure"))
    /\ CallsOnly

BeginAuth(t) ==
    /\ Entering(t, "auth")
    /\ calls[t].operation \in EnforcedOperations
    /\ ResolveCredential(calls[t]) # None
    /\ calls' = [calls EXCEPT
           ![t].phase = "auth",
           ![t].input.signed_request = IF calls[t].credential = None THEN None ELSE @]
    /\ BeginVerify(t, ResolveCredential(calls[t]))
    /\ UNCHANGED <<chain, log, drained, effects, invoked>>

VerifyRecord(t) == CheckRecord(t) /\ UNCHANGED pipelineVars
VerifyNonce(t) == SpendNonce(t) /\ UNCHANGED pipelineVars

\* Mutant: a sender the input names is kept.
BindForSendClaimed(call, agent) ==
    IF call.operation = "send" /\ call.input.sender = None
    THEN [call EXCEPT !.input.sender = agent, !.agent = agent] ELSE [call EXCEPT !.agent = agent]

\* bind_for_send() names the sender whatever the input said; the other operations only
\* bind ctx.agent_id.
BindForSend(call, agent) ==
    IF call.operation = "send" THEN [call EXCEPT !.input.sender = agent, !.agent = agent]
    ELSE [call EXCEPT !.agent = agent]

\* verify() has come back: the identity is bound, or the call turns back.
EndAuth(t) ==
    /\ calls[t].phase = "auth"
    /\ verifying[t].phase \in {"verified", "refused", "broken"}
    /\ \/ /\ verifying[t].phase = "verified"
          /\ GoOn(t, BindForSend(calls[t], verifying[t].request.agent))
       \/ verifying[t].phase = "refused" /\ TurnBack(t, Denies("identity_failure"))
       \/ verifying[t].phase = "broken" /\ TurnBack(t, Raises)
    /\ verifying' = [verifying EXCEPT ![t] = NoVerify]
    /\ UNCHANGED <<clock, records, seenNonces, audit, admin, faults, authority, accepted,
                   chain, log, drained, effects, invoked>>

-----------------------------------------------------------------------------

\* Whom store_dispatch acts for: what the input names, the agent auth bound, the hint of
\* the transport, in that order.
ResolveAgentId(call) == Or(call.input.agent_id, Or(call.agent, call.hint))

Actor(call) ==
    CASE call.operation = "send" -> Or(call.input.sender, call.agent)
      [] call.operation = "group_create" -> Or(call.input.creator_id, Or(call.agent, call.hint))
      [] call.operation = "group_invite" -> Or(call.input.inviter_id, Or(call.agent, call.hint))
      [] OTHER -> ResolveAgentId(call)

\* What recv() of the store hands out: the oldest pending messages on these channels.
Pending(agent, channels) ==
    {n \in DOMAIN log : n \notin drained[agent] /\ (channels = None \/ log[n].channel \in channels)}

\* The first so many of these numbers, as the one list in which they ascend and none is
\* left out before one that is in.
Oldest(numbers, most) ==
    {list \in [1 .. Min({most, Cardinality(numbers)}) -> numbers] :
        /\ \A i, j \in DOMAIN list : i < j => list[i] < list[j]
        /\ \A n \in numbers \ Range(list), i \in DOMAIN list : list[i] < n}

\* store_dispatch, or the terminal behind a chain that has none, performs the operation.
AtStore(t) ==
    /\ calls[t].phase = "down"
    /\ calls[t].at = Len(chain) + 1 \/ Entering(t, "store_dispatch")

\* The operation is done, and its response starts its way up.
Performed(t, agent, result) ==
    /\ effects' = Append(effects, [task |-> t, operation |-> calls[t].operation,
                                   agent |-> agent, messages |-> result.messages])
    /\ TurnBack(t, result)

\* The messages of a channel nobody has drained, the one being sent included.
OverLimit(channel) ==
    Cardinality({n \in DOMAIN log : log[n].channel = channel
                     /\ \A a \in Agents : n \notin drained[a]}) + 1 >= Threshold

StoreSend(t) ==
    /\ AtStore(t)
    /\ calls[t].operation = "send"
    /\ log' = Append(log, [sender |-> Actor(calls[t]), channel |-> calls[t].input.channel,
                           about |-> calls[t].input.about])
    /\ Performed(t, Actor(calls[t]), Result("returns", None, <<Len(log) + 1>>,
                                            OverLimit(calls[t].input.channel)))
    /\ UNCHANGED <<identityVars, chain, drained, invoked>>

\* recv, and channels_collect, which is recv with another name.
StoreRecv(t) ==
    LET agent == Actor(calls[t])
        input == calls[t].input
    IN  /\ AtStore(t)
        /\ calls[t].operation \in {"recv", "channels_collect"}
        /\ agent \in Agents
        /\ \E got \in Oldest(Pending(agent, input.channels), input.max) :
               /\ drained' = [drained EXCEPT ![agent] = @ \cup Range(got)]
               /\ Performed(t, agent, Returns(None, got))
        /\ UNCHANGED <<identityVars, chain, log, invoked>>

\* Every other operation the store knows; and one it does not.
StoreOther(t) ==
    /\ AtStore(t)
    /\ calls[t].operation \notin {"send", "recv", "channels_collect", "unknown"}
    /\ Performed(t, Actor(calls[t]), Returns(None, <<>>))
    /\ UNCHANGED <<identityVars, chain, log, drained, invoked>>

StoreUnsupported(t) ==
    /\ AtStore(t)
    /\ calls[t].operation = "unknown"
    /\ TurnBack(t, Returns("internal_error", <<>>))
    /\ CallsOnly

\* The store raises: a group one is no member of, a database that is locked.
StoreRaises(t) ==
    /\ AtStore(t)
    /\ calls[t].operation # "unknown"
    /\ faults < MaxFaults
    /\ faults' = faults + 1
    /\ TurnBack(t, Raises)
    /\ UNCHANGED <<clock, records, seenNonces, audit, verifying, admin, authority, accepted,
                   chain, log, drained, effects, invoked>>

\* The result leaves the middleware the call is in, whose entry of the trace is written;
\* out of the outermost, dispatch() returns.  The terminal has no entry.
Leave(t) ==
    LET call == calls[t]
        i == call.at
        left(result) == [call EXCEPT
            !.at = i - 1, !.result = result,
            !.phase = IF i <= 1 THEN "returned" ELSE "up",
            !.trace = IF i \in DOMAIN chain THEN [call.trace EXCEPT ![i] = Verdict(result)]
                      ELSE call.trace]
        after == i \in DOMAIN chain /\ chain[i] \in {"hook_dispatcher", "middleware_log"}
                     /\ call.result.how = "returns"
    IN  /\ call.phase = "up"
        /\ \/ calls' = [calls EXCEPT ![t] = left(call.result)] /\ UNCHANGED faults
           \/ \* a hook after the call, or the log's write, fails
              /\ after
              /\ faults < MaxFaults
              /\ faults' = faults + 1
              /\ calls' = [calls EXCEPT ![t] = left(Raises)]
        /\ UNCHANGED <<clock, records, seenNonces, audit, verifying, admin, authority,
                       accepted, chain, log, drained, effects, invoked>>

\* Mutant: an exception is handed back as an empty response.
ErrorCodeSwallowed(t) == calls[t].result.code

\* What dispatch() hands back: an exception has become an internal error.
ErrorCode(t) == IF calls[t].result.how = "raises" THEN "internal_error"
                ELSE calls[t].result.code

PipelineStep(t) ==
    \/ SchemaStrict(t) \/ PreHooks(t) \/ EnterLog(t)
    \/ PassAuth(t) \/ MissCredential(t) \/ BeginAuth(t)
    \/ VerifyRecord(t) \/ VerifyNonce(t) \/ EndAuth(t)
    \/ StoreSend(t) \/ StoreRecv(t) \/ StoreOther(t) \/ StoreUnsupported(t) \/ StoreRaises(t)
    \/ Leave(t)

=============================================================================
