-------------------------------- MODULE MCHost ------------------------------
(***************************************************************************)
(* What surrounds the protocol server on a host, in one run: the database  *)
(* files being opened and upgraded, the plugins being loaded, a project    *)
(* being installed into, the chat TUI and the reference agent.  They share *)
(* no state, so a behaviour is about one of them, chosen at the start, and *)
(* leaves the others at rest.                                              *)
(***************************************************************************)
EXTENDS Migration, PluginLoader, Installer, ChatClient, ReferenceAgent

VARIABLE focus

MCHostVersion == <<1, 2, 0, 1>>

VersionRange(form, at) == [form |-> form, at |-> at]

\* A plain plugin; the sites below change a field or two of it.
PlainManifest(id) ==
    [id |-> id, well_formed |-> TRUE, protocol_version |-> VersionRange("^", <<1, 0, 0, 1>>),
     observe_only |-> FALSE, may_short_circuit |-> FALSE, provides |-> {},
     requires |-> {}, must_run_before |-> {}, must_run_after |-> {}]

EntryPoint(manifest) == [manifest |-> manifest, imports |-> TRUE]

\* Three plugins with every set of ordering constraints between them.
OrderedSites ==
    {[n \in 1 .. 3 |-> EntryPoint([PlainManifest(n) EXCEPT !.must_run_before =
                          {k \in 1 .. 3 : <<n, k>> \in before},
                                                           !.must_run_after = after[n]])] :
        before \in SUBSET {<<a, b>> \in (1 .. 3) \X (1 .. 3) : a # b},
        after \in {<<{}, {}, {}>>, <<{3}, {}, {}>>, <<{}, {1}, {1, 2}>>}}

OddManifests ==
    {[PlainManifest(2) EXCEPT !.well_formed = FALSE],
     [PlainManifest(2) EXCEPT !.observe_only = TRUE, !.may_short_circuit = TRUE],
     [PlainManifest(2) EXCEPT !.requires = {1}],
     [PlainManifest(2) EXCEPT !.requires = {100}],
     [PlainManifest(2) EXCEPT !.provides = {101}],
     [PlainManifest(3) EXCEPT !.must_run_before = {1}]}
    \cup {[PlainManifest(2) EXCEPT !.protocol_version = r] :
            r \in {VersionRange(f, <<1, n, p, 1>>) : f \in {"^", "~", "pin"}, n \in 1 .. 3, p \in 0 .. 1}
                  \cup {VersionRange("^", <<0, 9, 0, 1>>), VersionRange("~", <<1, 2, 0, 0>>),
                        VersionRange("*", <<0, 0, 0, 1>>), VersionRange("latest", <<0, 0, 0, 1>>),
                        [form |-> "pep440", clauses |-> {<<">=", <<1, 0, 0, 1>>>>, <<"<", <<1, 2, 0, 1>>>>}]}}

OddSites ==
    {<<EntryPoint([PlainManifest(1) EXCEPT !.requires = r]), EntryPoint(odd),
       [manifest |-> [PlainManifest(3) EXCEPT !.must_run_before = {1}], imports |-> i]>> :
        r \in {{}, {101}}, odd \in OddManifests, i \in BOOLEAN}

Calls == [env : {"dev", "production"}, allowlist : {Absent, {}, {1, 2}, {3}, {1, 4}},
          no_discovery : {FALSE}]
         \cup {[env |-> "production", allowlist |-> {1}, no_discovery |-> TRUE]}

DevCall == [env |-> "dev", allowlist |-> Absent, no_discovery |-> FALSE]

\* Bounds of the chat: the pump against faults; two commands that overlap; all
\* loops and the end of the app; a command against a fault; two drains and a
\* command.
ChatBound(pump, beat, roster, posts, commands, faults) ==
    [calls |-> [t \in Loops |-> CASE t = "pump" -> pump [] t = "beat" -> beat
                                  [] t = "roster" -> roster],
     posts |-> posts, commands |-> commands, faults |-> faults]

ChatBounds ==
    {ChatBound(2, 0, 0, 1, 0, 2), ChatBound(0, 0, 0, 0, 2, 0), ChatBound(1, 1, 0, 1, 1, 0),
     ChatBound(0, 0, 1, 1, 1, 0), ChatBound(1, 0, 0, 1, 1, 1), ChatBound(2, 0, 0, 2, 1, 0)}

NoChat == ChatBound(0, 0, 0, 0, 0, 0)

\* Starts of the agent: the first; one with two pages to replay; one that dies
\* or is stopped once more.
AgentStart(log, room, lives) == [log |-> log, room |-> room, lives |-> lives]

AgentStarts ==
    {AgentStart(<<>>, 2, 2), AgentStart(<<"other", "other", "other", "other">>, 0, 2),
     AgentStart(<<"other", "clarification_request">>, 1, 2)}

NoAgent == AgentStart(<<>>, 0, 0)

OneDatabase == {d \in Databases : d.features = {}}
OneProject == {p \in Projects : p.settings = Missing}

\* What a behaviour is about; the other parts stay as they are.
Init ==
    /\ focus \in {"migration", "order", "loader", "installer", "chat", "agent"}
    /\ MigrationInit(IF focus = "migration" THEN Databases ELSE OneDatabase)
    /\ LoaderInit(IF focus = "order" THEN OrderedSites
                  ELSE IF focus = "loader" THEN OddSites ELSE {<<>>})
    /\ InstallerInit(IF focus = "installer" THEN Projects ELSE OneProject)
    /\ ChatInit(IF focus = "chat" THEN ChatBounds ELSE {NoChat})
    /\ focus # "chat" => ~app.python311
    /\ AgentInit(IF focus = "agent" THEN AgentStarts ELSE {NoAgent})

MigrationNext ==
    /\ focus = "migration"
    /\ \E o \in Openers : MigrationStep(o)
    /\ UNCHANGED <<focus, loaderVars, installerVars, chatVars, agentVars>>

LoaderNext ==
    /\ focus \in {"order", "loader"}
    /\ LoaderStep(IF focus = "order" THEN {DevCall} ELSE Calls)
    /\ UNCHANGED <<focus, migrationVars, installerVars, chatVars, agentVars>>

InstallerNext ==
    /\ focus = "installer"
    /\ InstallerStep
    /\ UNCHANGED <<focus, migrationVars, loaderVars, chatVars, agentVars>>

ChatNext ==
    /\ focus = "chat"
    /\ ChatStep
    /\ UNCHANGED <<focus, migrationVars, loaderVars, installerVars, agentVars>>

AgentNext ==
    /\ focus = "agent"
    /\ AgentStep
    /\ UNCHANGED <<focus, migrationVars, loaderVars, installerVars, chatVars>>

Next == MigrationNext \/ LoaderNext \/ InstallerNext \/ ChatNext \/ AgentNext

hostVars == <<focus, loaderVars, migrationVars, installerVars, chatVars, agentVars>>

ChatDoes(step) == focus = "chat" /\ step /\ UNCHANGED <<focus, migrationVars, loaderVars,
                                                        installerVars, agentVars>>

\* The event loop runs every task that can go on and fires every timer; a server
\* that lives handles what it is asked, and its pipe can be read.
Fairness ==
    /\ \A t \in Tasks :
          /\ WF_hostVars(ChatDoes(Ask(t)))
          /\ WF_hostVars(ChatDoes(Resume(t)))
          /\ WF_hostVars(ChatDoes(TimeOut(t)))
    /\ WF_hostVars(ChatDoes(Serve \/ Refuse))
    /\ WF_hostVars(ChatDoes(ReadAnswer \/ EndOfFile))
    /\ WF_hostVars(ChatDoes(CancelNext \/ Stop))

Spec == Init /\ [][Next]_hostVars /\ Fairness
=============================================================================
