------------------------------ MODULE Installer -----------------------------
(***************************************************************************)
(* "sox-protocol install", "upgrade" and "verify" on a Claude Code project *)
(* (adapters/runtimes/claude_code/install.py, cli/install.py,              *)
(* cli/upgrade.py, cli/verify.py).  The installer merges its own entries   *)
(* into files that belong to the user and that the user and Claude Code go *)
(* on editing: it reads a file, merges, and rewrites it whole.  It may die *)
(* at any point; write_text truncates before it writes, so a file may be   *)
(* left empty or cut short.                                                *)
(*                                                                         *)
(* Abstractions: a file is what the installer tells apart in it.  Of the   *)
(* entries of others only which are there is kept; a hook list is how many *)
(* entries it has of each sort: "ours" in the present or the old format,   *)
(* and the user's.  What is rendered is the release it comes from and        *)
(* whether it has the activation section; the channels in it, dry runs and *)
(* the summary are left out.  The migration that ends an upgrade is        *)
(* modelled in Migration.                                                  *)
(***************************************************************************)
EXTENDS Naturals

CONSTANTS
    AgentFiles,       \* the files .claude/agents/*.md
    MaxCommands,      \* bound: commands started
    MaxEdits          \* bound: edits by the user or Claude Code, and deaths

VARIABLES
    project,          \* the files of the project
    package,          \* the release of sox-protocol that is installed
    installer,        \* the command that is running
    theirs,           \* history: the entries others have put into settings.json
    mishaps,          \* history: files rewritten over an edit or left half-written
    budget            \* commands and edits so far

installerVars == <<project, package, installer, theirs, mishaps, budget>>

Newest == 2

_HOOK_EVENTS == {"PostToolUse", "Stop", "SubagentStop"}

_event_to_script_name(event) ==
    IF event = "PostToolUse" THEN "post_tool_use.sh" ELSE "stop.sh"

HookScripts == {_event_to_script_name(e) : e \in _HOOK_EVENTS}

\* Two of the fifteen tools.
_SOX_MCP_TOOL_NAMES == {"channels__send", "channels__recv"}

Missing == [kind |-> "missing"]
Empty == [kind |-> "empty"]
Damaged == [kind |-> "damaged"]
File(content) == [kind |-> "file", content |-> content]

NoHooks == [user |-> 0, ours |-> 0, old |-> 0]

\* A settings.json without a word of the installer's.
BareSettings ==
    [hooks |-> [e \in _HOOK_EVENTS |-> NoHooks], server |-> "none",
     allowed |-> FALSE, allow |-> {}]

OldSettings ==
    [BareSettings EXCEPT !.hooks = [e \in _HOOK_EVENTS |-> [NoHooks EXCEPT !.user = 1, !.old = 1]]]

\* A project nobody installed into, one with settings of the user's, and one of
\* an old installer.
Projects ==
    {[skill |-> Missing, scripts |-> [s \in HookScripts |-> Missing], mcp |-> Missing,
      settings |-> settings, agents |-> [f \in AgentFiles |-> 0]] :
        settings \in {Missing, File(OldSettings)}}

Idle == [pc |-> "idle", args |-> "none", release |-> 0, read |-> BareSettings]

EntriesOf(settings) ==
    IF settings.kind # "file" THEN {}
    ELSE {<<e, "user">> : e \in {d \in _HOOK_EVENTS : settings.content.hooks[d].user > 0}}
         \cup {<<"allow", t>> : t \in settings.content.allow \ _SOX_MCP_TOOL_NAMES}

InstallerInit(projects) ==
    /\ project \in projects
    /\ package = 1
    /\ installer = Idle
    /\ theirs = EntriesOf(project.settings)
    /\ mishaps = {}
    /\ budget = [commands |-> 0, edits |-> 0]

-----------------------------------------------------------------------------
(* The commands.                                                           *)

\* add_install_subcommand, add_upgrade_subcommand: the flags of both; upgrade
\* passes an agent-id source on only if it is given one.
Commands ==
    {c \in [command : {"install", "upgrade"}, auto_subscribe : BOOLEAN,
            inject_permissions : BOOLEAN,
            agent_id_source : {"claude_code_agent_name", "env:NAME"},
            skip_pip : BOOLEAN, check_only : BOOLEAN] :
        c.command = "install" => c.skip_pip /\ ~c.check_only}

Running(pc) == installer.pc = pc

Proceed(pc) == installer' = [installer EXCEPT !.pc = pc]

Untouched == UNCHANGED <<package, theirs, budget>>

\* install_command, or upgrade_command up to its first step.
Start(args) ==
    /\ Running("idle")
    /\ budget.commands < MaxCommands
    /\ installer' = [pc |-> IF args.command = "upgrade" /\ (~args.skip_pip \/ args.check_only)
                            THEN "pip" ELSE "skill",
                     args |-> args, release |-> package, read |-> BareSettings]
    /\ budget' = [budget EXCEPT !.commands = @ + 1]
    /\ UNCHANGED <<project, package, theirs, mishaps>>

\* _check_packages: the newest release, or none when PyPI cannot be reached.
_check_packages == {0, Newest}

\* _reexec_self: the new process gets --skip-pip and, of the flags that matter
\* here, none of the others.
_reexec_self(args) ==
    [args EXCEPT !.auto_subscribe = FALSE, !.inject_permissions = TRUE,
                 !.agent_id_source = "claude_code_agent_name", !.skip_pip = TRUE]

\* Step 1 of upgrade: pip may fail; after a success the new code starts over.
PipUpgrade ==
    /\ Running("pip")
    /\ \E latest \in _check_packages :
          \/ /\ installer.args.check_only
             /\ installer' = Idle
             /\ UNCHANGED package
          \/ /\ ~installer.args.check_only
             /\ latest > package
             /\ package' = latest
             /\ installer' = [installer EXCEPT !.pc = "skill", !.release = latest,
                                               !.args = _reexec_self(@)]
          \/ /\ ~installer.args.check_only
             /\ latest > package
             /\ installer' = Idle
             /\ UNCHANGED package
          \/ /\ ~installer.args.check_only
             /\ latest <= package
             /\ Proceed("skill")
             /\ UNCHANGED package
    /\ UNCHANGED <<project, theirs, mishaps, budget>>

-----------------------------------------------------------------------------
(* install, file by file.                                                  *)

\* render_skill_md
render_skill_md(args, release) ==
    File([release |-> release, activation |-> args.auto_subscribe])

\* _write_skill
WriteSkill ==
    /\ Running("skill")
    /\ project' = [project EXCEPT !.skill = render_skill_md(installer.args, installer.release)]
    /\ Proceed("scripts")
    /\ UNCHANGED mishaps /\ Untouched

\* _write_hooks: a script that differs is copied and made executable.
WriteHooks ==
    /\ Running("scripts")
    /\ project' = [project EXCEPT !.scripts =
                     [s \in HookScripts |->
                         IF @[s] = File([release |-> installer.release, executable |-> FALSE])
                         THEN @[s]
                         ELSE File([release |-> installer.release, executable |-> TRUE])]]
    /\ Proceed("mcp")
    /\ UNCHANGED mishaps /\ Untouched

\* _update_mcp_json: an entry that is there is left as it is.
UpdateMcpJson ==
    /\ Running("mcp")
    /\ IF project.mcp = Damaged
       THEN installer' = Idle /\ UNCHANGED project
       ELSE /\ project' = IF project.mcp.kind = "file" THEN project
                          ELSE [project EXCEPT !.mcp =
                                   File([server |-> installer.args.agent_id_source])]
            /\ Proceed("read")
    /\ UNCHANGED mishaps /\ Untouched

\* _load_settings: an empty file counts as no settings, a damaged one ends the
\* installation with an exception.
LoadSettings ==
    /\ Running("read")
    /\ installer' =
        IF project.settings = Damaged THEN Idle
        ELSE [installer EXCEPT !.pc = "settings",
                !.read = IF project.settings.kind = "file" THEN project.settings.content
                         ELSE BareSettings]
    /\ UNCHANGED <<project, mishaps>> /\ Untouched

\* Mutant of MergeHooks: the list is replaced, not merged.
MergeHooksReplacing(entries) == [NoHooks EXCEPT !.ours = 1]

\* The entries of one event: ours in the old format go, ours is added once.
MergeHooks(entries) ==
    [entries EXCEPT !.old = 0, !.ours = IF @ = 0 THEN 1 ELSE @]

\* _update_settings without reading and writing.
MergeSettings(settings, args) ==
    [hooks   |-> [e \in _HOOK_EVENTS |-> MergeHooks(settings.hooks[e])],
     server  |-> IF settings.server = "none" THEN args.agent_id_source ELSE settings.server,
     allowed |-> TRUE,
     allow   |-> settings.allow \cup
                 (IF args.inject_permissions THEN _SOX_MCP_TOOL_NAMES ELSE {})]

\* The merged settings are written if they differ from what was read.
WriteSettings ==
    /\ Running("settings")
    /\ LET merged == MergeSettings(installer.read, installer.args)
           write  == merged # installer.read
           content == IF project.settings.kind = "file" THEN project.settings.content
                      ELSE BareSettings
       IN  /\ project' = IF write THEN [project EXCEPT !.settings = File(merged)] ELSE project
           /\ mishaps' = IF write /\ content # installer.read
                         THEN mishaps \cup {"settings"} ELSE mishaps
    /\ Proceed("agents")
    /\ Untouched

\* _insert_bootstrap: the line is appended to the agent files that lack it.
InsertBootstrap ==
    /\ Running("agents")
    /\ project' = [project EXCEPT !.agents =
                     [f \in AgentFiles |-> IF @[f] = 0 THEN 1 ELSE @[f]]]
    /\ Proceed(IF installer.args.command = "upgrade" THEN "migrate" ELSE "done")
    /\ UNCHANGED mishaps /\ Untouched

\* Step 3 of upgrade: _discover_db_path and _run_migration, which may fail.
Migrate ==
    /\ Running("migrate")
    /\ Proceed("done") \/ installer' = Idle
    /\ UNCHANGED <<project, mishaps>> /\ Untouched

Finish ==
    /\ Running("done")
    /\ installer' = Idle
    /\ UNCHANGED <<project, mishaps>> /\ Untouched

-----------------------------------------------------------------------------
(* The others, and faults.                                                 *)

Spend ==
    /\ budget.edits < MaxEdits
    /\ budget' = [budget EXCEPT !.edits = @ + 1]

\* The user adds a hook, or Claude Code records a permission the user gave; a
\* file that is damaged is started anew.
EditSettings ==
    /\ Spend
    /\ LET content == IF project.settings.kind = "file" THEN project.settings.content
                      ELSE BareSettings
       IN  \E edited \in {[content EXCEPT !.hooks["Stop"].user = @ + 1],
                          [content EXCEPT !.allow = @ \cup {"Bash"}]} :
              /\ project' = [project EXCEPT !.settings = File(edited)]
              /\ theirs' = theirs \cup EntriesOf(File(edited))
    /\ UNCHANGED <<package, installer, mishaps>>

\* The process is killed, perhaps while it rewrites a file or
\* between copying a script and making it executable.
KillInstaller ==
    /\ installer.pc # "idle"
    /\ Spend
    /\ \/ UNCHANGED <<project, mishaps>>
       \/ /\ Running("settings")
          /\ MergeSettings(installer.read, installer.args) # installer.read
          /\ \E cut \in {Empty, Damaged} : project' = [project EXCEPT !.settings = cut]
          /\ mishaps' = mishaps \cup {"settings"}
       \/ /\ Running("mcp")
          /\ project.mcp.kind # "file"
          /\ \E cut \in {Empty, Damaged} : project' = [project EXCEPT !.mcp = cut]
          /\ UNCHANGED mishaps
       \/ /\ Running("scripts")
          /\ \E s \in HookScripts :
                /\ project.scripts[s] \notin {File([release |-> installer.release,
                                                   executable |-> x]) : x \in BOOLEAN}
                /\ project' = [project EXCEPT !.scripts[s] =
                                 File([release |-> installer.release, executable |-> FALSE])]
          /\ mishaps' = mishaps \cup {"scripts"}
    /\ installer' = Idle
    /\ UNCHANGED <<package, theirs>>

InstallerStep ==
    \/ \E args \in Commands : Start(args)
    \/ PipUpgrade
    \/ WriteSkill \/ WriteHooks \/ UpdateMcpJson \/ LoadSettings \/ WriteSettings
    \/ InsertBootstrap \/ Migrate \/ Finish
    \/ EditSettings \/ KillInstaller

InstallerSpec == InstallerInit(Projects) /\ [][InstallerStep]_installerVars

-----------------------------------------------------------------------------

\* verify: the server is registered in settings.json, the scripts are there and
\* executable, every event has a hook, and the skill is there and names the
\* tools, as every release's does.
verify ==
    /\ project.settings.kind = "file"
    /\ project.settings.content.server # "none"
    /\ \A s \in HookScripts : project.scripts[s].kind = "file" /\ project.scripts[s].content.executable
    /\ \A e \in _HOOK_EVENTS : project.settings.content.hooks[e] # NoHooks
    /\ project.skill.kind = "file"

\* Installing and upgrading keep what they find and leave a complete
\* installation, however often and over whatever they run: no entry of the user
\* or of Claude Code is ever missing from settings.json, unless the installer
\* rewrote the file over an edit or was killed writing it; and a command that
\* ends well leaves a project that verify passes, unless a kill left a script
\* that is not executable, with its hook exactly once for every event, none in
\* the old format, its tools permitted if it was told so,
\* every agent file with one bootstrap line, and the skill of its own release.
InstallKeepsAndCompletes ==
    /\ "settings" \notin mishaps => theirs \subseteq EntriesOf(project.settings)
    /\ Running("done") =>
          /\ "scripts" \notin mishaps => verify
          /\ \A e \in _HOOK_EVENTS :
                /\ project.settings.content.hooks[e].ours = 1
                /\ project.settings.content.hooks[e].old = 0
          /\ installer.args.inject_permissions
                => _SOX_MCP_TOOL_NAMES \subseteq project.settings.content.allow
          /\ project.mcp.kind = "file"
          /\ \A f \in AgentFiles : project.agents[f] = 1
          /\ project.skill.content.release = package

=============================================================================
