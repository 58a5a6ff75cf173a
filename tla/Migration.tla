------------------------------ MODULE Migration -----------------------------
(***************************************************************************)
(* Opening a SQLite store: schema.sql, the detection of the version and    *)
(* the chain of migration scripts (adapters/backing_stores/sqlite/         *)
(* migration_runner.py and SqliteStore.initialize).  Several processes may *)
(* open one file at the same time, and each may die between any two        *)
(* statements.                                                             *)
(*                                                                         *)
(* executescript and the DDL statements run in autocommit: every statement *)
(* of schema.sql and of a script is a step that is durable at once.  The   *)
(* version row is written and committed with no other statement in         *)
(* between: one step.                                                      *)
(*                                                                         *)
(* Abstractions: a version "1.2" is the number 12, and 0 stands for "0.0", *)
(* nothing recorded; of the tables only what tells the versions apart is   *)
(* kept; the messages are those of one channel, each reduced to its seq    *)
(* (0 is the column's default).  Indexes, WAL and foreign keys are left    *)
(* out.                                                                    *)
(***************************************************************************)
EXTENDS Naturals, Sequences, FiniteSets

CONSTANTS
    Openers,      \* processes that open the file
    MaxRows,      \* bound: messages in the table
    MaxDeaths     \* bound: processes that die while opening

VARIABLES
    disk,         \* the database file
    opener,       \* what each process is doing
    deaths,       \* how many have died
    torn          \* history: a half-applied 1.0 -> 1.1 was taken for applied

migrationVars == <<disk, opener, deaths, torn>>

schema_version == 13

_MIGRATION_CHAIN == <<<<10, 11>>, <<11, 12>>, <<12, 13>>>>

\* The structural marker by which the runner recognises an applied step.
Marker == [v \in {11, 12, 13} |->
    CASE v = 11 -> "messages.seq" [] v = 12 -> "messages.reply_to" [] v = 13 -> "liveness"]

Shape == {"messages", "messages.seq", "messages.reply_to", "liveness"}

\* The files the program can find: none yet, one of each release, and one of a
\* later release.
Databases ==
    {[features |-> {}, version |-> 0, rows |-> <<>>],
     [features |-> {"messages"}, version |-> 0, rows |-> <<0, 0>>],
     [features |-> {"messages", "messages.seq"}, version |-> 11, rows |-> <<1, 2>>],
     [features |-> Shape \ {"liveness"}, version |-> 12, rows |-> <<1, 2>>],
     [features |-> Shape, version |-> 13, rows |-> <<1, 2>>],
     [features |-> Shape, version |-> 14, rows |-> <<1, 2>>]}

Closed == [pc |-> "closed", chain |-> <<>>, by |-> "nobody"]

MigrationInit(databases) ==
    /\ disk \in databases
    /\ opener = [o \in Openers |-> Closed]
    /\ deaths = 0
    /\ torn = FALSE

-----------------------------------------------------------------------------

Goto(o, pc) == opener' = [opener EXCEPT ![o].pc = pc]

At(o, pc) == opener[o].pc = pc

\* A migration walks the chain from the version found to the target.
_chain_for[v \in {10, 11, 12, 13}] ==
    IF v = schema_version
    THEN <<>>
    ELSE LET step == CHOOSE s \in {_MIGRATION_CHAIN[i] : i \in DOMAIN _MIGRATION_CHAIN} :
                        s[1] = v
         IN  <<step>> \o _chain_for[step[2]]

\* initialize: a file without tables gets the messages table in its newest
\* shape, an existing one keeps its own.
ApplySchemaMessages(o) ==
    /\ At(o, "closed")
    /\ disk' = IF "messages" \in disk.features THEN disk
               ELSE [disk EXCEPT !.features = @ \cup (Shape \ {"liveness"})]
    /\ opener' = [opener EXCEPT ![o] = [pc |-> "schema", chain |-> <<>>, by |-> "initialize"]]
    /\ UNCHANGED <<deaths, torn>>

\* "sox-protocol upgrade" runs the migrations on an existing file without
\* schema.sql.
Upgrade(o) ==
    /\ At(o, "closed")
    /\ disk.features # {}
    /\ opener' = [opener EXCEPT ![o] = [pc |-> "version", chain |-> <<>>, by |-> "upgrade"]]
    /\ UNCHANGED <<disk, deaths, torn>>

ApplySchemaLiveness(o) ==
    /\ At(o, "schema")
    /\ disk' = [disk EXCEPT !.features = @ \cup {"liveness"}]
    /\ Goto(o, "version")
    /\ UNCHANGED <<deaths, torn>>

\* Go on with the rest of a chain; after it the store is open, and upgrade ends.
Follow(o, chain) ==
    opener' = [opener EXCEPT ![o] =
        IF chain # <<>> THEN [pc |-> "detect", chain |-> chain, by |-> @.by]
        ELSE IF @.by = "initialize" THEN [pc |-> "open", chain |-> <<>>, by |-> @.by]
        ELSE Closed]

\* Refuse a newer file, or start the chain of an older one.
StartChain(o, starting) ==
    IF starting > schema_version
    THEN opener' = [opener EXCEPT ![o] = Closed]
    ELSE Follow(o, _chain_for[starting])

\* get_persisted_version
ReadVersion(o) ==
    /\ At(o, "version")
    /\ IF disk.version = 0 THEN Goto(o, "marker") ELSE StartChain(o, disk.version)
    /\ UNCHANGED <<disk, deaths, torn>>

\* Nothing recorded: a fresh file, which schema.sql has just given the newest
\* shape, or an untracked one of the first release.
CheckFresh(o) ==
    /\ At(o, "marker")
    /\ IF "messages.reply_to" \in disk.features
       THEN Goto(o, "fresh")
       ELSE StartChain(o, _MIGRATION_CHAIN[1][1])
    /\ UNCHANGED <<disk, deaths, torn>>

RecordFresh(o) ==
    /\ At(o, "fresh")
    /\ disk' = [disk EXCEPT !.version = schema_version]
    /\ Follow(o, <<>>)
    /\ UNCHANGED <<deaths, torn>>

Step(o) == Head(opener[o].chain)

Unnumbered == {i \in DOMAIN disk.rows : disk.rows[i] = 0}

\* _apply_migration: is the structural change there already?
Detect(o) ==
    /\ At(o, "detect")
    /\ LET present == Marker[Step(o)[2]] \in disk.features
       IN  /\ Goto(o, IF present THEN "bump" ELSE "alter")
           /\ torn' = (torn \/ (present /\ Step(o)[2] = 11 /\ Unnumbered # {}))
    /\ UNCHANGED <<disk, deaths>>

\* The first statement of the script.  ALTER TABLE fails when another process
\* has added the column in the meantime, and initialize with it.
Alter(o) ==
    /\ At(o, "alter")
    /\ IF Marker[Step(o)[2]] \in disk.features /\ Step(o)[2] # 13
       THEN /\ opener' = [opener EXCEPT ![o] = Closed]
            /\ UNCHANGED disk
       ELSE /\ disk' = [disk EXCEPT !.features = @ \cup {Marker[Step(o)[2]]}]
            /\ Goto(o, IF Step(o)[2] = 11 THEN "backfill" ELSE "bump")
    /\ UNCHANGED <<deaths, torn>>

\* The second statement of v1_0_to_v1_1.sql numbers the rows that have no number
\* by their rank on the channel.
Backfill(o) ==
    /\ At(o, "backfill")
    /\ disk' = [disk EXCEPT !.rows =
                   [i \in DOMAIN @ |-> IF @[i] = 0 THEN i ELSE @[i]]]
    /\ Goto(o, "bump")
    /\ UNCHANGED <<deaths, torn>>

\* Mutant of Bump: the version recorded is the target of the whole chain.
BumpToTarget(o) ==
    /\ At(o, "bump")
    /\ disk' = [disk EXCEPT !.version = schema_version]
    /\ Follow(o, Tail(opener[o].chain))
    /\ UNCHANGED <<deaths, torn>>

\* _set_persisted_version and commit; then the next step of the chain.
Bump(o) ==
    /\ At(o, "bump")
    /\ disk' = [disk EXCEPT !.version = Step(o)[2]]
    /\ Follow(o, Tail(opener[o].chain))
    /\ UNCHANGED <<deaths, torn>>

\* An open store is used: send numbers from the greatest seq of the channel.
SendRow(o) ==
    /\ At(o, "open")
    /\ Len(disk.rows) < MaxRows
    /\ LET last == CHOOSE n \in {disk.rows[i] : i \in DOMAIN disk.rows} \cup {0} :
                      \A i \in DOMAIN disk.rows : n >= disk.rows[i]
       IN  disk' = [disk EXCEPT !.rows = Append(@, last + 1)]
    /\ UNCHANGED <<opener, deaths, torn>>

\* A process dies while it opens the file, or closes it later.
Die(o) ==
    /\ ~At(o, "closed")
    /\ deaths < MaxDeaths
    /\ opener' = [opener EXCEPT ![o] = Closed]
    /\ deaths' = deaths + 1
    /\ UNCHANGED <<disk, torn>>

MigrationStep(o) ==
    \/ ApplySchemaMessages(o) \/ ApplySchemaLiveness(o) \/ Upgrade(o)
    \/ ReadVersion(o) \/ CheckFresh(o) \/ RecordFresh(o)
    \/ Detect(o) \/ Alter(o) \/ Backfill(o) \/ Bump(o)
    \/ SendRow(o) \/ Die(o)

\* Any processes open, upgrade and use any file of these; MCHost runs it on few.
MigrationSpec ==
    MigrationInit(Databases) /\ [][\E o \in Openers : MigrationStep(o)]_migrationVars

-----------------------------------------------------------------------------

\* What the recorded version and an open store may be trusted for, whoever else
\* opens or upgrades the file at the time and wherever a process died: the
\* version never claims a column that is not there (migration_runner.py: "the
\* persisted version is only bumped after commit"); an open store has the newest
\* shape and is not of a later release; and the messages are numbered 1, 2, 3
\* without a gap, unless the numbering was found half-applied and taken for
\* applied.
VersionIsEarned ==
    /\ \A v \in {11, 12} : disk.version >= v => Marker[v] \in disk.features
    /\ \A o \in Openers : At(o, "open") =>
          /\ Shape \subseteq disk.features
          /\ disk.version <= schema_version
          /\ ~torn => {disk.rows[i] : i \in DOMAIN disk.rows} = 1 .. Len(disk.rows)

=============================================================================
