------------------------------ MODULE MCRequests ----------------------------
(* Small instances of Requests for TLC, one per scenario: a host with        *)
(* clients that sign and retry, the HTTP server with and without automatic   *)
(* registration, the MCP server, and chains with plugins and hooks.          *)
EXTENDS Requests, TLC

Default == Order(BuildDefaultPipeline)
Strict == Order(ExtendPipeline(BuildDefaultPipeline,
                               <<SchemaStrictMiddleware, LoggingMiddleware>>))

Request(via, operation, token, input) ==
    [via |-> via, operation |-> operation, token |-> token, input |-> input,
     signed |-> None, inside |-> FALSE, wildcard |-> FALSE, wanted |-> 0, topic |-> None, filtered |-> FALSE]

\* A message to the chat that claims to come from someone else, and one about a topic.
Claimed == [NoInput EXCEPT !.channel = "chat", !.sender = "a2"]
Reply == [NoInput EXCEPT !.channel = "chat", !.about = "topic"]
Wrong == [NoInput EXCEPT !.channel = "chat", !.conforms = FALSE]

Signed(operation, agent, nonce, timestamp, key) ==
    [Request("host", operation, None, Claimed) EXCEPT
         !.signed = SignedRequest(agent, nonce, timestamp, key)]

Http(operation, token) == Request("http", operation, token, Reply)
Mcp(operation) == Request("mcp", operation, ServerAgent, Reply)

Collect(via, token, filtered) ==
    [Request(via, "channels_collect", token, [NoInput EXCEPT !.channel = "chat"]) EXCEPT
         !.wanted = 1, !.topic = "topic", !.filtered = filtered]

\* Each of n tasks may be asked any of these.
Each(n, requests) == [t \in 1..n |-> requests]

NoRecords == [a \in Agents |-> None]
Known(a, k) == [NoRecords EXCEPT ![a] = [key |-> k, revoked |-> FALSE]]

Scenario(order, requests) ==
    [chain |-> order, requests |-> requests, autoRegister |-> TRUE,
     time |-> FALSE, admin |-> FALSE, records |-> NoRecords, log |-> <<>>]

MCScenarios ==
    { \* one signed request, presented by three tasks while time passes
     [Scenario(Default, Each(3, {Signed("send", "a1", "n", 1, "k1")})) EXCEPT
         !.time = TRUE, !.records = Known("a1", "k1")],
      \* requests of several kinds while the host registers and revokes
     [Scenario(Default, Each(2,
               {Signed("recv", "a1", "n", 0, "k1"), Signed("send", "a1", "m", 0, "k2"),
                [Signed("send", "a1", "m", 0, "k1") EXCEPT !.inside = TRUE],
                Signed("send", None, "m", 0, "k1"), Signed("unknown", "a1", "n", 0, "k1"),
                Request("host", "recv", None, Claimed)})) EXCEPT
         !.admin = TRUE, !.records = Known("a1", "k1")],
      \* the HTTP server, which registers whom it meets, before a strict schema
     Scenario(Strict, Each(2,
              {Http("send", "a1"), Request("http", "send", "a1", Wrong),
               Request("http", "send", "a1", Claimed), Http("recv", "a2"), Http("recv", None),
               [Http("subscribe", "a1") EXCEPT !.wildcard = TRUE], Http("subscribe", "a1"),
               Http("group_invite", "a1"), Http("channels_heartbeat", "a2")})),
     [Scenario(Default, Each(2, {Http("send", "a1"), Http("recv", "a2")})) EXCEPT
         !.autoRegister = FALSE, !.admin = TRUE, !.records = Known("a1", ServerKey)],
      \* a collect while others send and drain
     [Scenario(Default, <<{Collect("http", "a1", FALSE), Collect("http", "a1", TRUE)},
                          {Http("send", "a2"), Request("http", "send", "a2", Claimed)},
                          {Http("send", "a2"), Http("recv", "a1")}>>) EXCEPT
         !.autoRegister = FALSE,
         !.records = [a \in Agents |-> [key |-> ServerKey, revoked |-> FALSE]],
         !.log = <<[sender |-> "a2", channel |-> "chat", about |-> "topic"]>>],
     [Scenario(Default, Each(1, {Collect("http", "a1", FALSE)})) EXCEPT
         !.autoRegister = FALSE, !.admin = TRUE,
         !.records = [a \in Agents |-> [key |-> ServerKey, revoked |-> FALSE]]],
      \* the MCP server
     [Scenario(Default, Each(2,
               {Mcp("send"), Mcp("subscribe"), Collect("mcp", ServerAgent, FALSE),
                Mcp("group_create"), Mcp("group_invite"), Mcp("list_channels"),
                [Mcp("subscribe") EXCEPT !.wildcard = TRUE]})) EXCEPT
         !.records = Known(ServerAgent, ServerKey)],
     [Scenario(Strict, Each(2, {Mcp("send"), Mcp("channels_ack")})) EXCEPT
         !.records = Known(ServerAgent, ServerKey)],
      \* chains a host built: hooks and a log around auth, the store behind the chain
     [Scenario(<<"hook_dispatcher", "middleware_log", "auth">>, Each(2,
               {Signed("send", "a1", "n", 0, "k1"), Signed("unknown", "a1", "m", 0, "k1")}))
          EXCEPT !.records = Known("a1", "k1")]}

=============================================================================
