---------------------------- MODULE PluginLoader ----------------------------
(***************************************************************************)
(* Discovery, validation, ordering and registration of plugins:            *)
(* MiddlewareRegistry (core/middleware/registry.py) and the manifest       *)
(* checks of core/middleware/plugin_loader.py.  load_plugins is called     *)
(* when a server starts and, in one process, by every create_app; it stops *)
(* with an error at the first check that fails, and keeps what it had      *)
(* registered until then.                                                  *)
(*                                                                         *)
(* Abstractions: plugin ids and entry-point names are numbers in           *)
(* alphabetical order, capability names numbers that are no ids.  A        *)
(* manifest that cannot be found, parsed or validated is one that is not   *)
(* well_formed.  A version is <<major, minor, patch, release>>, release    *)
(* being 0 for a pre-release and 1 otherwise; a protocol_version is a form *)
(* and the version it names.  A constraint given twice counts once.        *)
(***************************************************************************)
EXTENDS Naturals, Sequences, FiniteSets, FiniteSetsExt, Functions

CONSTANTS
    Absent,          \* Python's None
    HostVersion,     \* the host's protocol version
    MaxLoads         \* bound: calls of load_plugins

VARIABLES
    site,            \* the entry points: name -> manifest and whether it imports
    loader           \* the registry and the call in progress

loaderVars == <<site, loader>>

\* Versions, and what a manifest may ask of one: a PEP 440 specifier or a form that names
\* a version, an npm one or another.
Versions == Nat \X Nat \X Nat \X {0, 1}

VersionRanges ==
    [form : STRING \ {"pep440"}, at : Versions]
    \cup [form : {"pep440"}, clauses : SUBSET ({">=", "<", "=="} \X Versions)]

Manifests ==
    [id : Nat, well_formed : BOOLEAN, protocol_version : VersionRanges,
     observe_only : BOOLEAN, may_short_circuit : BOOLEAN, provides : SUBSET Nat,
     requires : SUBSET Nat, must_run_before : SUBSET Nat, must_run_after : SUBSET Nat]

\* What can be installed.
Sites ==
    UNION {[names -> [manifest : Manifests, imports : BOOLEAN]] : names \in SUBSET Nat}

\* The errors of the three checks of a manifest.
Complaints ==
    {"PluginManifestInvalid", "PluginProtocolVersionMismatch", "PluginCapabilityConflict"}

ASSUME LoaderAssumption ==
    /\ HostVersion \in Versions
    /\ Absent \notin Complaints \cup {"PluginNotAllowed", "PluginNotFound", "ImportError",
                                      "PluginOrderingCycle", "PluginRequirementUnmet"}

Call == [env : {"dev", "production"}, allowlist : {Absent} \cup SUBSET Nat,
         no_discovery : BOOLEAN]

\* MiddlewareRegistry.__init__
LoaderInit(sites) ==
    /\ site \in sites
    /\ loader = [pc |-> "idle", call |-> Absent, left |-> {}, found |-> <<>>,
                 pending |-> <<>>, factories |-> {}, loaded |-> {},
                 order |-> Absent, under |-> Absent, error |-> Absent, loads |-> 0]

-----------------------------------------------------------------------------
(* Versions.                                                               *)

\* The order of versions, pre-releases before their release.
Earlier(v, w) ==
    \E i \in 1 .. 4 : v[i] < w[i] /\ \A j \in 1 .. i - 1 : v[j] = w[j]

\* SpecifierSet: a clause is an operator and a version; "<" leaves out the
\* pre-releases of its version.
Satisfies(v, clause) ==
    CASE clause[1] = ">=" -> ~Earlier(v, clause[2])
      [] clause[1] = "<"  -> /\ Earlier(v, clause[2])
                             /\ \E i \in 1 .. 3 : v[i] # clause[2][i]
      [] clause[1] = "==" -> v = clause[2]

\* Mutant of _normalize_npm_caret: a caret admits the next major version too.
NormalizeCaretWide(range) ==
    LET v == range.at
        below(w) == {<<">=", v>>, <<"<", w>>}
    IN  CASE range.form = "*" -> {<<">=", <<0, 0, 0, 1>>>>}
          [] range.form = "^" -> below(<<v[1] + 2, 0, 0, 1>>)
          [] range.form = "~" -> below(<<v[1], v[2] + 1, 0, 1>>)
          [] range.form = "pin" -> {<<"==", v>>}

\* "^1.2.3", "^1.2", "^1" and "1.x" run up to the next major version, "~1.2.3"
\* and "1.2.x" up to the next minor one; "1.2.3" is a pin.
_normalize_npm_caret(range) ==
    LET v == range.at
        below(w) == {<<">=", v>>, <<"<", w>>}
    IN  CASE range.form = "*" -> {<<">=", <<0, 0, 0, 1>>>>}
          [] range.form = "^" -> below(<<v[1] + 1, 0, 0, 1>>)
          [] range.form = "~" -> below(<<v[1], v[2] + 1, 0, 1>>)
          [] range.form = "pin" -> {<<"==", v>>}

NpmForms == {"*", "^", "~", "pin"}

\* PEP 440 first, the npm forms next; anything else is an invalid manifest.
parse_version_range(range) ==
    IF range.form = "pep440" THEN range.clauses
    ELSE IF range.form \in NpmForms THEN _normalize_npm_caret(range)
    ELSE Absent

check_protocol_version(m) ==
    LET clauses == parse_version_range(m.protocol_version)
    IN  IF clauses = Absent THEN "PluginManifestInvalid"
        ELSE IF \A c \in clauses : Satisfies(HostVersion, c) THEN Absent
        ELSE "PluginProtocolVersionMismatch"

assert_capability_orthogonality(m) ==
    IF m.observe_only /\ m.may_short_circuit THEN "PluginCapabilityConflict" ELSE Absent

\* validate_manifest
validate_manifest(m) == IF m.well_formed THEN Absent ELSE "PluginManifestInvalid"

\* The three checks of an entry point's manifest: the first error, or none.
Complaint(m) ==
    IF validate_manifest(m) # Absent THEN validate_manifest(m)
    ELSE IF check_protocol_version(m) # Absent THEN check_protocol_version(m)
    ELSE assert_capability_orthogonality(m)

-----------------------------------------------------------------------------
(* Ordering.                                                               *)

\* Pairs <<a, b>>: a has to run before b.
Constraints(M) ==
    {e \in (DOMAIN M) \X (DOMAIN M) :
        e[2] \in M[e[1]].must_run_before \/ e[1] \in M[e[2]].must_run_after}

\* The plugins whose in_degree is 0 once those in "done" have been placed.
Ready(M, done) ==
    {n \in DOMAIN M \ done : \A e \in Constraints(M) : e[2] = n => e[1] \in done}

\* Kahn's algorithm with a queue kept in alphabetical order; what is missing
\* from the result lies on a cycle or behind one.
_toposort_plugins(M) ==
    LET run[k \in 0 .. Cardinality(DOMAIN M)] ==
            IF k = 0 THEN <<>>
            ELSE LET done  == run[k - 1]
                     queue == Ready(M, Range(done))
                 IN  IF queue = {} THEN done ELSE Append(done, Min(queue))
    IN  run[Cardinality(DOMAIN M)]

Ascending(S) ==
    CHOOSE list \in [1 .. Cardinality(S) -> S] :
        \A i, j \in DOMAIN list : i < j => list[i] < list[j]

\* The sort of assemble: the names that become free are queued behind the
\* others, alphabetically among themselves.
_topological_sort(M) ==
    LET run[k \in 0 .. Cardinality(DOMAIN M)] ==
            IF k = 0 THEN [done |-> <<>>, queue |-> Ascending(Ready(M, {}))]
            ELSE LET s == run[k - 1]
                 IN  IF s.queue = <<>> THEN s
                     ELSE LET done  == Append(s.done, Head(s.queue))
                              freed == Ready(M, Range(done)) \ Range(s.queue)
                          IN  [done |-> done, queue |-> Tail(s.queue) \o Ascending(freed)]
    IN  run[Cardinality(DOMAIN M)].done

-----------------------------------------------------------------------------
(* load_plugins.                                                           *)

\* read_manifest_for_entry_point
Manifest(name) == site[name].manifest

\* manifests[manifest.id] = manifest: the entry point scanned last has the id.
Claimed(found, name) ==
    [id \in DOMAIN found \cup {Manifest(name).id} |->
        IF id = Manifest(name).id THEN name ELSE found[id]]

\* The manifests found, by plugin id.
Found == [id \in DOMAIN loader.found |-> Manifest(loader.found[id])]

\* An exception leaves the registry as it is and ends the call.
Raise(error) ==
    loader' = [loader EXCEPT !.pc = "idle", !.error = error]

Production == loader.call.env = "production"

\* Steps 0 to 2.
LoadPlugins(call) ==
    /\ loader.pc = "idle"
    /\ loader.loads < MaxLoads
    /\ loader' =
        LET begun == [loader EXCEPT !.call = call, !.loads = @ + 1, !.error = Absent]
        IN  IF call.no_discovery
            THEN [begun EXCEPT !.order = <<>>, !.under = call]
            ELSE IF call.env = "production" /\ call.allowlist \in {Absent, {}}
            THEN [begun EXCEPT !.error = "PluginNotAllowed"]
            ELSE [begun EXCEPT !.pc = "scan", !.left = DOMAIN site, !.found = <<>>]
    /\ UNCHANGED site

\* Step 3: the entry points in the order the environment lists them.
Scan ==
    /\ loader.pc = "scan"
    /\ \E name \in loader.left :
          IF /\ Production
             /\ loader.call.allowlist # Absent
             /\ name \notin loader.call.allowlist
          THEN loader' = [loader EXCEPT !.left = @ \ {name}]
          ELSE IF Complaint(Manifest(name)) # Absent
          THEN Raise(Complaint(Manifest(name)))
          ELSE loader' = [loader EXCEPT !.left = @ \ {name},
                                        !.found = Claimed(@, name)]
    /\ UNCHANGED site

\* Step 4: in production only what is allowed; a developer's host loads the
\* rest as well, with a warning.
ToLoad ==
    LET admitted == {id \in DOMAIN Found :
                        \/ loader.call.allowlist = Absent
                        \/ id \in loader.call.allowlist
                        \/ ~Production}
    IN  [id \in admitted |-> Found[id]]

Provided(M) == DOMAIN M \cup UNION {M[id].provides : id \in DOMAIN M}

\* Steps 4 to 6: the filter, the order and the requirements.
Resolve ==
    /\ loader.pc = "scan"
    /\ loader.left = {}
    /\ LET order == _toposort_plugins(ToLoad)
       IN  IF /\ loader.call.allowlist # Absent
              /\ ~(loader.call.allowlist \subseteq DOMAIN Found)
           THEN Raise("PluginNotFound")
           ELSE IF Len(order) # Cardinality(DOMAIN ToLoad)
           THEN Raise("PluginOrderingCycle")
           ELSE IF \E id \in DOMAIN ToLoad : ~(ToLoad[id].requires \subseteq Provided(ToLoad))
           THEN Raise("PluginRequirementUnmet")
           ELSE loader' = [loader EXCEPT !.pc = "register", !.pending = order]
    /\ UNCHANGED site

\* Step 7, for one plugin: its module is imported, and its factory registered
\* unless an earlier call has done that.
Register ==
    /\ loader.pc = "register"
    /\ loader.pending # <<>>
    /\ IF site[loader.found[Head(loader.pending)]].imports
       THEN loader' = [loader EXCEPT !.factories = @ \cup {Head(loader.pending)},
                                     !.pending = Tail(@)]
       ELSE Raise("ImportError")
    /\ UNCHANGED site

Freeze ==
    /\ loader.pc = "register"
    /\ loader.pending = <<>>
    /\ loader' = [loader EXCEPT !.pc = "idle", !.loaded = DOMAIN ToLoad,
                                !.order = _toposort_plugins(ToLoad), !.under = loader.call]
    /\ UNCHANGED site

\* assemble: the names that are not registered are skipped.
assemble(names) ==
    _topological_sort([id \in names \cap loader.factories |-> Found[id]])

LoaderStep(calls) ==
    (\E call \in calls : LoadPlugins(call)) \/ Scan \/ Resolve \/ Register \/ Freeze

\* Any calls over any installed plugins; MCHost runs it on few.
LoaderSpec == LoaderInit(Sites) /\ [][LoaderStep(Call)]_loaderVars

-----------------------------------------------------------------------------

\* Every order of the plugins in M that respects their constraints.
Extensions(M) ==
    {s \in [1 .. Cardinality(DOMAIN M) -> DOMAIN M] :
        /\ Range(s) = DOMAIN M
        /\ \A e \in Constraints(M) : \E i, j \in DOMAIN s : i < j /\ s[i] = e[1] /\ s[j] = e[2]}

Alphabetical(s, t) ==
    \/ s = t
    \/ \E i \in DOMAIN s : s[i] < t[i] /\ \A j \in 1 .. i - 1 : s[j] = t[j]

\* The ranges of npm, said without a conversion: the same major, or the same
\* major and minor version, and nothing older than the version named.
Admits(range, v) ==
    LET same(n) == \A i \in 1 .. n : v[i] = range.at[i]
    IN  CASE range.form = "*" -> TRUE
          [] range.form = "^" -> same(1) /\ ~Earlier(v, range.at)
          [] range.form = "~" -> same(2) /\ ~Earlier(v, range.at)
          [] range.form = "pin" -> same(4)
          [] range.form = "pep440" -> \A c \in range.clauses : Satisfies(v, c)
          [] OTHER -> FALSE

\* The order a server freezes is the alphabetically first one the constraints
\* of the loaded plugins allow, whatever the order of discovery and whatever
\* calls failed before; it holds only plugins the call allowed that speak the
\* host's version, promise nothing contradictory, find what they require and
\* are registered; assemble respects the same constraints; and a cycle is
\* reported only when no order exists.
OrderIsCanonical ==
    LET order == loader.order
        M == [id \in DOMAIN Found \cap Range(order) |-> Found[id]]
    IN  /\ (loader.pc = "idle" /\ order \notin {Absent, <<>>} /\ loader.error = Absent) =>
              /\ DOMAIN M = Range(order)
              /\ order \in Extensions(M)
              /\ \A s \in Extensions(M) : Alphabetical(order, s)
              /\ Range(order) \subseteq loader.factories
              /\ loader.under.env = "production"
                    => Range(order) \subseteq loader.under.allowlist
              /\ \A id \in Range(order) :
                    /\ M[id].well_formed
                    /\ Admits(M[id].protocol_version, HostVersion)
                    /\ ~(M[id].observe_only /\ M[id].may_short_circuit)
                    /\ M[id].requires \subseteq Provided(M)
              /\ \A names \in SUBSET Range(order) :
                    assemble(names) \in Extensions([id \in names |-> M[id]])
        /\ loader.error = "PluginOrderingCycle" => Extensions(ToLoad) = {}

=============================================================================
