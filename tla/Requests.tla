------------------------------ MODULE Requests ------------------------------
(***************************************************************************)
(* Requests to a server, from their arrival to their answer: the HTTP      *)
(* routes (adapters/transports/http/routes.py), the MCP tools              *)
(* (core/mcp_server/tools.py), and a host that calls the pipeline itself   *)
(* with requests its clients signed.                                       *)
(*                                                                         *)
(* The HTTP routes register the bearer's agent when they see it first and  *)
(* sign every request in its name with the server's key; channels_collect  *)
(* is a loop of dispatches.  An MCP server signs in the name of its one    *)
(* agent.  Clients of a host sign for themselves, and may present a        *)
(* request again after its answer was lost.                                *)
(*                                                                         *)
(* channels__recv of the MCP tools, which answers from the listener's      *)
(* queue, is in Mailbox.                                                   *)
(***************************************************************************)
EXTENDS Pipeline

CONSTANTS
    ServerKey,     \* the key pair a server makes when it starts
    ServerAgent,   \* the agent of the MCP server
    Scenarios,     \* the chain, what each task may be asked, whether HTTP registers whom it
                   \* meets, whether time passes, whether the host registers and revokes,
                   \* who is registered and what messages there are at the start
    MaxPolls       \* bound: dispatches of one request

VARIABLES
    tasks,         \* per task, the request it serves and how far it is
    scenario       \* what may happen

vars == <<identityVars, pipelineVars, tasks, scenario>>

NoTask == [phase |-> "idle", request |-> None, round |-> 0, collected |-> <<>>,
           expired |-> FALSE, answer |-> None]

\* What a client sends: the fields of the input the middlewares look at, absent ones None.
NoInput == [conforms |-> TRUE, sender |-> None, agent_id |-> None, creator_id |-> None,
            inviter_id |-> None, signed_request |-> None, channel |-> None,
            channels |-> None, about |-> None, max |-> 50]

\* What it holds in this model: fields of the operation's schema.  Whom an operation is
\* for is none of them, the transports add it; that a body has no other fields is an
\* assumption about the clients, which only schema_strict checks.
ClientInputs ==
    [conforms : BOOLEAN, sender : Agents \cup {None}, agent_id : {None}, creator_id : {None},
     inviter_id : {None}, signed_request : {None}, channel : Channels \cup {None},
     channels : {None} \cup SUBSET Channels, about : Topics \cup {None}, max : Nat]

\* The routes that answer with what dispatch() returned, but for the names of fields, and
\* the operations that have a route at all.
PlainRoutes ==
    {"recv", "subscribe", "unsubscribe", "list_channels", "channels_ack",
     "channels_heartbeat", "replay", "list_agents", "group_create", "group_join",
     "group_leave", "group_list_members", "channels_collect"}

HttpOperations == PlainRoutes \cup {"send", "group_invite"}

\* AuthMiddleware.must_run_before: auth stands in front of the store.
AuthComesFirst(order) ==
    \E i \in DOMAIN order : /\ order[i] = "auth"
                            /\ \A j \in 1..i : order[j] # "store_dispatch"

ASSUME RequestsAssumption ==
    /\ ServerAgent \in Agents
    /\ ServerKey \in Keys
    /\ None \notin {"validation_error", "hook_denied", "identity_failure", "internal_error"}
    /\ MaxPolls \in Nat \ {0}
    /\ \A s \in Scenarios :
           /\ s.chain \in Seq(STRING) /\ AuthComesFirst(s.chain)
           /\ s.log \in Seq([sender : Agents \cup {None}, channel : Channels \cup {None},
                             about : Topics \cup {None}])
           /\ \A a \in Agents : \/ s.records[a] = None
                               \/ s.records[a] \in [key : Keys, revoked : BOOLEAN]
           /\ DOMAIN s.requests \subseteq Tasks
           /\ \A t \in DOMAIN s.requests : \A r \in s.requests[t] :
                  /\ r.via \in {"http", "mcp", "host"} /\ r.input \in ClientInputs
                  /\ r.via = "http" => r.operation \in HttpOperations
                  /\ r.wanted \in Nat

Answer(status, code, messages, complete) ==
    [status |-> status, code |-> code, messages |-> messages, complete |-> complete]

AnswerWith(t, answer) ==
    tasks' = [tasks EXCEPT ![t].phase = "answered", ![t].answer = answer]

\* A task runs alone from one await to the next.  It awaits its turn, the registry, the
\* lock of the nonces, a hook, the store (before the store acts and after), and sleep().
Suspended(t) ==
    \/ tasks[t].phase \in {"idle", "look", "register", "poll", "answered"}
    \/ /\ tasks[t].phase = "dispatch"
       /\ \/ verifying[t].phase \in {"lookup", "nonce"}
          \/ AtStore(t) \/ Entering(t, "hook_dispatcher")
          \/ /\ calls[t].phase = "up"
             /\ calls[t].at \in DOMAIN chain => chain[calls[t].at] = "store_dispatch"

\* A request arrives at the server and waits for this phase.
Take(t, r, phase) == tasks' = [tasks EXCEPT ![t].phase = phase, ![t].request = r]

\* _require_token() and the subscribe route's look at the pattern: what never gets as
\* far as the pipeline.
HttpRefuse(t) ==
    /\ tasks[t].phase = "idle"
    /\ \E r \in scenario.requests[t] :
           /\ r.via = "http"
           /\ \/ /\ r.token = None
                 /\ tasks' = [tasks EXCEPT ![t].phase = "answered", ![t].request = r,
                        ![t].answer = Answer("401", "missing_credential", <<>>, FALSE)]
              \/ /\ r.token # None /\ r.wildcard
                 /\ tasks' = [tasks EXCEPT ![t].phase = "answered", ![t].request = r,
                        ![t].answer = Answer("400", "validation_error", <<>>, FALSE)]
    /\ UNCHANGED <<identityVars, pipelineVars, scenario>>

\* A route hands its body to _dispatch().
HttpArrive(t) ==
    /\ tasks[t].phase = "idle"
    /\ \E r \in scenario.requests[t] :
           /\ r.via = "http" /\ r.token # None /\ ~r.wildcard
           /\ Take(t, r, IF scenario.autoRegister THEN "look" ELSE "sign")
    /\ UNCHANGED <<identityVars, pipelineVars, scenario>>

\* The first await of _dispatch(): is the agent known, revoked or not?
HttpLook(t) ==
    /\ tasks[t].phase = "look"
    /\ tasks' = [tasks EXCEPT ![t].phase =
           IF Lookup(tasks[t].request.token) = None THEN "register" ELSE "sign"]
    /\ UNCHANGED <<identityVars, pipelineVars, scenario>>

\* The second: whatever has happened since, it is registered with the server's key.
HttpRegister(t) ==
    /\ tasks[t].phase = "register"
    /\ SetRecords(WithRecord(tasks[t].request.token, ServerKey))
    /\ tasks' = [tasks EXCEPT ![t].phase = "sign"]
    /\ UNCHANGED <<clock, seenNonces, audit, verifying, admin, faults, accepted,
                   pipelineVars, scenario>>

\* resolve_credential() of both transports: a fresh uuid, signed now with the server's key.
ResolveServerCredential(t, agent) ==
    SignedRequest(agent, <<t, invoked[t]>>, clock, ServerKey)

\* channels_collect goes in as it came, and then as one recv after the other for what is
\* still missing.
HttpOperation(t) == IF tasks[t].round = 0 THEN tasks[t].request.operation ELSE "recv"

\* Mutant: every recv asks for as much as the store gives.
HttpInputWhole(t) == IF tasks[t].round = 0 THEN tasks[t].request.input ELSE NoInput

HttpInput(t) ==
    IF tasks[t].round = 0 THEN tasks[t].request.input
    ELSE [NoInput EXCEPT !.max = tasks[t].request.wanted - Len(tasks[t].collected)]

HttpSign(t) ==
    /\ tasks[t].phase = "sign"
    /\ tasks[t].request.via = "http"
    /\ Dispatch(t, HttpOperation(t), HttpInput(t),
                ResolveServerCredential(t, tasks[t].request.token), tasks[t].request.token)
    /\ tasks' = [tasks EXCEPT ![t].phase = "dispatch", ![t].round = @ + 1]
    /\ UNCHANGED <<identityVars, scenario>>

Returned(t, via) ==
    tasks[t].phase = "dispatch" /\ tasks[t].request.via = via /\ calls[t].phase = "returned"

\* The status of an error envelope.
StatusOf(code) ==
    CASE code = None -> "200"
      [] code = "identity_failure" -> "401"
      [] code = "internal_error" -> "500"
      [] OTHER -> "400"

\* op_send: a message stored on a channel that has become full is reported as rejected.
SendAnswer(t) ==
    IF ErrorCode(t) = None /\ calls[t].result.over
    THEN Answer("429", "backpressure_over_limit", <<>>, FALSE)
    ELSE Answer(StatusOf(ErrorCode(t)), ErrorCode(t), calls[t].result.messages,
                ErrorCode(t) = None)

\* op_group_invite: every failure is a missing membership.
InviteAnswer(t) ==
    IF ErrorCode(t) = "internal_error"
    THEN Answer("403", "GROUP_MEMBERSHIP_REQUIRED", <<>>, FALSE)
    ELSE Answer(StatusOf(ErrorCode(t)), ErrorCode(t), <<>>, ErrorCode(t) = None)

HttpAnswer(t) ==
    CASE calls[t].operation = "send" -> SendAnswer(t)
      [] calls[t].operation = "group_invite" -> InviteAnswer(t)
      [] calls[t].operation \in PlainRoutes ->
             Answer(StatusOf(ErrorCode(t)), ErrorCode(t), calls[t].result.messages,
                    ErrorCode(t) = None)

HttpReturn(t) ==
    /\ Returned(t, "http")
    /\ tasks[t].request.operation # "channels_collect" \/ ErrorCode(t) # None
    /\ AnswerWith(t, HttpAnswer(t))
    /\ UNCHANGED <<identityVars, pipelineVars, scenario>>

\* What the first dispatch drained is not looked at; of what a later one drained, the
\* replies to the topic are kept, and none if the request filters by status.
HttpCollected(t) ==
    LET r == tasks[t].request
        messages == calls[t].result.messages
        kept == {i \in DOMAIN messages : /\ tasks[t].round > 1 /\ ~r.filtered
                                         /\ log[messages[i]].about = r.topic}
    IN  /\ Returned(t, "http")
        /\ r.operation = "channels_collect" /\ ErrorCode(t) = None
        /\ \E at \in Oldest(kept, Cardinality(kept)) :
               tasks' = [tasks EXCEPT ![t].phase = "poll",
                                      ![t].collected = @ \o [i \in DOMAIN at |-> messages[at[i]]]]
        /\ UNCHANGED <<identityVars, pipelineVars, scenario>>

\* Mutant: the deadline is not looked at.
StillWaitingLonger(t) == Len(tasks[t].collected) < tasks[t].request.wanted

\* The loop of channels_collect: another recv while something is missing and the time is
\* not up.
StillWaiting(t) == Len(tasks[t].collected) < tasks[t].request.wanted /\ ~tasks[t].expired

HttpPoll(t) ==
    /\ tasks[t].phase = "poll"
    /\ \/ /\ StillWaiting(t) /\ tasks[t].round < MaxPolls
          /\ tasks' = [tasks EXCEPT ![t].phase =
                 IF scenario.autoRegister THEN "look" ELSE "sign"]
       \/ /\ ~StillWaiting(t)
          /\ AnswerWith(t, Answer("200", None, tasks[t].collected,
                                  Len(tasks[t].collected) = tasks[t].request.wanted))
    /\ UNCHANGED <<identityVars, pipelineVars, scenario>>

\* The deadline of a channels_collect passes.
Expire(t) ==
    /\ tasks[t].round >= 1 /\ tasks[t].phase # "answered"
    /\ \A u \in Tasks : Suspended(u)
    /\ tasks[t].request.operation = "channels_collect" /\ tasks[t].request.via = "http"
    /\ ~tasks[t].expired
    /\ tasks' = [tasks EXCEPT ![t].expired = TRUE]
    /\ UNCHANGED <<identityVars, pipelineVars, scenario>>

-----------------------------------------------------------------------------

\* A tool of the MCP server; subscribing to a reserved wildcard raises.
McpArrive(t) ==
    /\ tasks[t].phase = "idle"
    /\ \E r \in scenario.requests[t] :
           /\ r.via = "mcp"
           /\ \/ ~r.wildcard /\ Take(t, r, "sign")
              \/ /\ r.wildcard
                 /\ tasks' = [tasks EXCEPT ![t].phase = "answered", ![t].request = r,
                        ![t].answer = Answer("400", "validation_error", <<>>, FALSE)]
    /\ UNCHANGED <<identityVars, pipelineVars, scenario>>

\* The input a tool builds: it names its agent under the field store_dispatch reads,
\* which the published schema of the operation does not have.
McpGroupInput(r) ==
    CASE r.operation = "group_create" -> [r.input EXCEPT !.creator_id = ServerAgent]
      [] r.operation = "group_invite" -> [r.input EXCEPT !.inviter_id = ServerAgent]
      [] OTHER -> [r.input EXCEPT !.agent_id = ServerAgent]

McpCollectInput(r) ==
    [r.input EXCEPT !.agent_id = ServerAgent, !.channels = {r.input.channel}, !.max = r.wanted]

McpInput(r) ==
    CASE r.operation \in {"send", "list_channels", "replay"} -> r.input
      [] r.operation = "channels_collect" -> [McpCollectInput(r) EXCEPT !.conforms = FALSE]
      [] OTHER -> [McpGroupInput(r) EXCEPT !.conforms = FALSE]

McpSign(t) ==
    /\ tasks[t].phase = "sign"
    /\ tasks[t].request.via = "mcp"
    /\ Dispatch(t, tasks[t].request.operation, McpInput(tasks[t].request),
                ResolveServerCredential(t, ServerAgent), None)
    /\ tasks' = [tasks EXCEPT ![t].phase = "dispatch", ![t].round = @ + 1]
    /\ UNCHANGED <<identityVars, scenario>>

\* A tool returns the envelope it gets; channels__collect says whether it got all.
McpReturn(t) ==
    LET code == ErrorCode(t)
        messages == calls[t].result.messages
        all == tasks[t].request.operation = "channels_collect"
                   => Len(messages) >= tasks[t].request.wanted
    IN  /\ Returned(t, "mcp")
        /\ AnswerWith(t, Answer(StatusOf(code), code, messages, code = None /\ all))
        /\ UNCHANGED <<identityVars, pipelineVars, scenario>>

\* A host of its own dispatches what a client signed, beside the input or inside it.
HostArrive(t) ==
    /\ tasks[t].phase = "idle"
    /\ \E r \in scenario.requests[t] :
           /\ r.via = "host"
           /\ \/ ~r.inside /\ Dispatch(t, r.operation, r.input, r.signed, None)
              \/ /\ r.inside
                 /\ Dispatch(t, r.operation, [r.input EXCEPT !.signed_request = r.signed],
                             None, None)
           /\ tasks' = [tasks EXCEPT ![t].phase = "dispatch", ![t].request = r,
                                     ![t].round = 1]
    /\ UNCHANGED <<identityVars, scenario>>

HostReturn(t) ==
    /\ Returned(t, "host")
    /\ AnswerWith(t, Answer(StatusOf(ErrorCode(t)), ErrorCode(t), calls[t].result.messages,
                            ErrorCode(t) = None))
    /\ UNCHANGED <<identityVars, pipelineVars, scenario>>

-----------------------------------------------------------------------------

Init ==
    /\ scenario \in Scenarios
    /\ clock = 0
    /\ records = [a \in Agents |-> scenario.records[a]]
    /\ seenNonces = {}
    /\ audit = {}
    /\ verifying = [t \in Tasks |-> NoVerify]
    /\ admin = 0
    /\ faults = 0
    /\ authority = [t \in Tasks |-> {}]
    /\ accepted = {}
    /\ chain = scenario.chain
    /\ calls = [t \in Tasks |-> NoCall]
    /\ log = scenario.log
    /\ drained = [a \in Agents |-> {}]
    /\ effects = <<>>
    /\ invoked = [t \in Tasks |-> 0]
    /\ tasks = [t \in Tasks |-> NoTask]

Alone(t) == \A u \in Tasks \ {t} : Suspended(u)

\* Tasks are numbered in the order in which their requests arrive.
Arrive(t) ==
    /\ \A u \in DOMAIN scenario.requests : u < t => tasks[u].phase # "idle"
    /\ Alone(t)
    /\ HttpRefuse(t) \/ HttpArrive(t) \/ McpArrive(t) \/ HostArrive(t)

\* The next step of a request on its way.
Serve(t) ==
    /\ Alone(t)
    /\ \/ HttpLook(t) \/ HttpRegister(t) \/ HttpSign(t) \/ HttpReturn(t)
       \/ HttpCollected(t) \/ HttpPoll(t) \/ McpSign(t) \/ McpReturn(t) \/ HostReturn(t)
       \/ PipelineStep(t) /\ UNCHANGED <<tasks, scenario>>

Host ==
    /\ \A t \in Tasks : Suspended(t)
    /\ \/ scenario.time /\ Tick
       \/ /\ scenario.admin
          /\ \E a \in Agents : AdminRevoke(a) \/ \E key \in Keys : AdminRegister(a, key)
    /\ UNCHANGED <<pipelineVars, tasks, scenario>>

Next ==
    \/ Host
    \/ \E t \in DOMAIN scenario.requests : Arrive(t)
    \/ \E t \in Tasks : Serve(t) \/ Expire(t)

\* The event loop runs every task that can go on, and time passes; nobody has to ask, and
\* nobody has to register or revoke.
Fairness == \A t \in Tasks : WF_vars(Serve(t)) /\ WF_vars(Expire(t))

Spec == Init /\ [][Next]_vars /\ Fairness

-----------------------------------------------------------------------------

\* The variables have their types, and a channels_collect never keeps more than it was
\* asked for (HttpInput, HttpCollected).
RequestsTypeOK ==
    /\ IdentityTypeOK
    /\ \A n \in DOMAIN log : log[n].channel \in Channels \cup {None}
    /\ \A a \in Agents : drained[a] \subseteq DOMAIN log
    /\ \A i \in DOMAIN effects : effects[i].task \in Tasks
    /\ \A t \in Tasks :
           /\ calls[t].phase \in {"idle", "down", "auth", "up", "returned"}
           /\ calls[t].at \in 0..Len(chain) + 1
           /\ tasks[t].phase \in
                  {"idle", "look", "register", "sign", "dispatch", "poll", "answered"}
           /\ tasks[t].round \in 0..MaxPolls
           /\ tasks[t].collected # <<>> => Len(tasks[t].collected) <= tasks[t].request.wanted

\* A request passes verify() only with a key that was registered for its agent and not
\* revoked at some moment while it was verified.
VerifiedByGoodKey ==
    \A t \in Tasks : verifying[t].phase = "verified" =>
        <<verifying[t].request.agent, verifying[t].request.key>> \in authority[t]

\* What the store did for a request is done in the name of whoever sent it.  For an
\* operation auth enforces, that is the agent of a signed request which verify() accepted
\* for this very task, once for each time the store acted, and whose key was registered
\* and not revoked at some moment while it was verified; a message carries that agent as
\* its sender, whatever the input claimed.  For the others it is the bearer, or the agent
\* of the MCP server.
EffectsAreCertified ==
    /\ VerifiedByGoodKey
    /\ \A i \in DOMAIN effects :
           LET e == effects[i]
               r == tasks[e.task].request
               enforced == e.operation \in {"send", "recv", "subscribe", "list_agents"}
           IN  /\ enforced => \E x \in accepted : x.task = e.task /\ x.request.agent = e.agent
               /\ e.operation = "send" => log[e.messages[1]].sender = e.agent
               /\ r.via = "http" => e.agent = r.token
               /\ r.via = "mcp" => e.agent = ServerAgent
                                   \/ e.operation \in {"list_channels", "replay"}
    /\ \A t \in Tasks :
           Cardinality({i \in DOMAIN effects : effects[i].task = t /\ effects[i].operation
                            \in {"send", "recv", "subscribe", "list_agents"}})
               <= Cardinality({x \in accepted : x.task = t})

\* The trace of a finished dispatch: an entry for each middleware reached and "skipped"
\* for the others; what passed had everything inside it pass, and what was rejected had
\* everything inside it rejected for the same reason.
TraceTells(trace) ==
    \E reached \in 0..Len(trace) :
        /\ \A i \in DOMAIN trace : trace[i].verdict = "skipped" <=> i > reached
        /\ \A i, j \in 1..reached : i < j =>
               /\ trace[i].verdict = "passed" => trace[j].verdict = "passed"
               /\ trace[i].verdict = "rejected" => trace[j] = trace[i]

\* What the store did for this task.
DoneFor(t) == {i \in DOMAIN effects : effects[i].task = t}

AnswerIsTrue(t) ==
    LET r == tasks[t].request
        answer == tasks[t].answer
        done == DoneFor(t)
        polled == r.via = "http" /\ r.operation = "channels_collect"
        drainedHere == UNION {Range(effects[i].messages) : i \in done}
    IN  /\ calls[t].phase = "returned" =>
               /\ TraceTells(calls[t].trace)
               /\ answer.status = "200" =>
                      calls[t].trace = <<>> \/ calls[t].trace[1].verdict = "passed"
        /\ ~polled /\ answer.status = "200" =>
               \E i \in DOMAIN effects : /\ done = {i} /\ effects[i].operation = r.operation
                                         /\ answer.messages = effects[i].messages
        /\ ~polled /\ answer.status \in {"400", "401"} => done = {}
        /\ ~polled /\ answer.status \in {"403", "500"} =>
               \/ done = {}
               \/ \E i \in DOMAIN calls[t].trace :
                      /\ calls[t].trace[i].verdict = "errored"
                      /\ chain[i] \in {"hook_dispatcher", "middleware_log"}
        /\ answer.status = "429" =>
               \E i \in DOMAIN effects : done = {i} /\ effects[i].operation = "send"
        /\ polled /\ answer.status = "200" =>
               /\ Range(answer.messages) \subseteq drainedHere
               /\ \A n \in Range(answer.messages) : log[n].about = r.topic
               /\ IsInjective(answer.messages)
               /\ answer.complete <=> Len(answer.messages) = r.wanted

\* An answer, the trace and what the store did agree: success means the operation was done
\* exactly once, and the answer holds the messages it drained; a refusal means nothing was
\* done; after an internal error something was done only where a hook or the log failed
\* behind it.  A collect answers with replies to its topic that it drained itself, each
\* once, and is complete when it has as many as were wanted.  (A send reported as rejected
\* for backpressure was done: op_send looks at the depth after the store has stored.)
AnswersAreTrue == \A t \in Tasks : tasks[t].phase = "answered" => AnswerIsTrue(t)

\* Every request is answered: whatever a middleware denies or raises comes back up, and a
\* channels_collect stops at its deadline.
RequestsEnd ==
    \A t \in Tasks : []<>(tasks[t].phase \in {"idle", "answered"})

=============================================================================
