---------------------------- MODULE Host_proofs ----------------------------
(***************************************************************************)
(* Proofs about what surrounds the server on a host: the database files it *)
(* opens (Migration), the project it is installed into (Installer) and the *)
(* plugins it loads (PluginLoader).                                        *)
(*                                                                         *)
(* Migration, for any number of processes that open one file, any number   *)
(* of messages and any number of deaths.  Three things carry the argument. *)
(* The columns of the file only ever grow.  A process that has a step s of *)
(* the chain before it has seen the columns of every step before s.  And   *)
(* once the messages are numbered they stay numbered, which they are as    *)
(* soon as anybody is past the script that numbers them, unless that       *)
(* script was found half-applied.                                          *)
(*                                                                         *)
(* Installer, for any agent files and any number of commands, edits and    *)
(* kills.  What a command has behind it is complete and stays so, because  *)
(* others only add to settings.json; and from reading settings.json to     *)
(* writing it, what the installer merges is in the file as it was read,    *)
(* so a merge that changes nothing need not be written.                    *)
(*                                                                         *)
(* PluginLoader, for any plugins and any calls.  What both sorts compute   *)
(* is shown by induction on their rounds, in the form of sets of numbers:  *)
(* what passes from each number to the next holds of all (UpTo), and so    *)
(* there is a function defined from the number before (Recursion).         *)
(***************************************************************************)
EXTENDS Migration, PluginLoader, Installer, FiniteSetTheorems, SequenceTheorems,
        WellFoundedInduction, TLAPS

-----------------------------------------------------------------------------
(* Migration: the chain.                                                   *)

Steps == {<<10, 11>>, <<11, 12>>, <<12, 13>>}

\* What can be left of the chain.
Chains == {<<>>, <<<<12, 13>>>>, <<<<11, 12>>, <<12, 13>>>>, _MIGRATION_CHAIN}

\* Short sequences put together and taken apart.
LEMMA OnePlusOne ==
    ASSUME NEW a, NEW b
    PROVE  <<a>> \o <<b>> = <<a, b>>
<1> DEFINE s == <<a>> \o <<b>>
           u == <<a, b>>
           S == {a, b}
<1>1. <<a>> \in Seq(S) /\ <<b>> \in Seq(S) /\ u \in Seq(S)
  OBVIOUS
<1>2. s \in Seq(S) /\ Len(s) = 2 /\ s[1] = a /\ s[2] = b
  BY <1>1
<1>3. Len(u) = 2 /\ u[1] = a /\ u[2] = b
  OBVIOUS
<1>4. s = u
  <2> HIDE DEF s, u, S
  <2> QED
    BY <1>1, <1>2, <1>3, SeqEqual
<1> QED
  BY <1>4

LEMMA OnePlusTwo ==
    ASSUME NEW a, NEW b, NEW c
    PROVE  <<a>> \o <<b, c>> = <<a, b, c>>
<1> DEFINE s == <<a>> \o <<b, c>>
           u == <<a, b, c>>
           S == {a, b, c}
<1>1. <<a>> \in Seq(S) /\ <<b, c>> \in Seq(S) /\ u \in Seq(S)
  OBVIOUS
<1>2. s \in Seq(S) /\ Len(s) = 3 /\ s[1] = a /\ s[2] = b /\ s[3] = c
  BY <1>1
<1>3. Len(u) = 3 /\ u[1] = a /\ u[2] = b /\ u[3] = c
  OBVIOUS
<1>4. s = u
  <2> HIDE DEF s, u, S
  <2> QED
    BY <1>1, <1>2, <1>3, SeqEqual
<1> QED
  BY <1>4

LEMMA OneTaken ==
    ASSUME NEW a
    PROVE  Head(<<a>>) = a /\ Tail(<<a>>) = <<>> /\ <<a>> # <<>>
  OBVIOUS

LEMMA TwoTaken ==
    ASSUME NEW a, NEW b
    PROVE  Head(<<a, b>>) = a /\ Tail(<<a, b>>) = <<b>> /\ <<a, b>> # <<>>
  OBVIOUS

LEMMA ThreeTaken ==
    ASSUME NEW a, NEW b, NEW c
    PROVE  Head(<<a, b, c>>) = a /\ Tail(<<a, b, c>>) = <<b, c>> /\ <<a, b, c>> # <<>>
  OBVIOUS

First == <<10, 11>>
Second == <<11, 12>>
Third == <<12, 13>>

\* A chain that is not done begins with a step, whose target is where the rest begins or
\* the newest version.
LEMMA ChainShape ==
    ASSUME NEW c \in Chains, c # <<>>
    PROVE  /\ Head(c) \in Steps
           /\ Tail(c) \in Chains
           /\ Tail(c) # <<>> => Head(Tail(c))[1] = Head(c)[2]
           /\ Tail(c) = <<>> => Head(c)[2] = schema_version
<1>1. Steps = {First, Second, Third}
  BY DEF Steps, First, Second, Third
<1>2. Chains = {<<>>, <<Third>>, <<Second, Third>>, <<First, Second, Third>>}
  BY DEF Chains, _MIGRATION_CHAIN, First, Second, Third
<1>3. /\ First[2] = Second[1]
      /\ Second[2] = Third[1]
      /\ Third[2] = schema_version
  BY DEF First, Second, Third, schema_version
<1>4. CASE c = <<Third>>
  BY <1>1, <1>2, <1>3, <1>4, OneTaken
<1>5. CASE c = <<Second, Third>>
  BY <1>1, <1>2, <1>3, <1>5, OneTaken, TwoTaken
<1>6. CASE c = <<First, Second, Third>>
  BY <1>1, <1>2, <1>3, <1>6, TwoTaken, ThreeTaken
<1> QED
  BY <1>2, <1>4, <1>5, <1>6

\* The step of the chain that starts at a version.
StepFrom(v) ==
    CHOOSE s \in {_MIGRATION_CHAIN[i] : i \in DOMAIN _MIGRATION_CHAIN} : s[1] = v

LEMMA StepFromIs ==
    StepFrom(10) = First /\ StepFrom(11) = Second /\ StepFrom(12) = Third
<1>1. {_MIGRATION_CHAIN[i] : i \in DOMAIN _MIGRATION_CHAIN} = Steps
  BY DEF _MIGRATION_CHAIN, Steps
<1> QED
  BY <1>1 DEF StepFrom, Steps, First, Second, Third

\* What _chain_for returns.
LEMMA ChainForIs ==
    /\ _chain_for[13] = <<>>
    /\ _chain_for[12] = <<Third>>
    /\ _chain_for[11] = <<Second, Third>>
    /\ _chain_for[10] = <<First, Second, Third>>
<1> DEFINE D == {10, 11, 12, 13}
           F(g) == [v \in D |-> IF v = schema_version THEN <<>>
                                ELSE <<StepFrom(v)>> \o g[StepFrom(v)[2]]]
           walk == [v \in D |-> IF v = 13 THEN <<>>
                                ELSE IF v = 12 THEN <<Third>>
                                ELSE IF v = 11 THEN <<Second, Third>>
                                ELSE <<First, Second, Third>>]
<1>1. First[2] = 11 /\ Second[2] = 12 /\ Third[2] = 13
  BY DEF First, Second, Third
<1>2. /\ <<Third>> \o <<>> = <<Third>>
      /\ <<Second>> \o <<Third>> = <<Second, Third>>
      /\ <<First>> \o <<Second, Third>> = <<First, Second, Third>>
  BY OnePlusOne, OnePlusTwo
<1>3. walk = F(walk)
  BY <1>1, <1>2, StepFromIs DEF schema_version
<1>4. _chain_for = CHOOSE g : g = F(g)
  BY DEF _chain_for, StepFrom
<1>5. _chain_for = F(_chain_for)
  <2> HIDE DEF F, walk
  <2> QED
    BY <1>3, <1>4
<1>6. \A v \in D : _chain_for[v] = IF v = schema_version THEN <<>>
                                   ELSE <<StepFrom(v)>> \o _chain_for[StepFrom(v)[2]]
  BY <1>5
<1> HIDE DEF F, walk
<1>7. _chain_for[13] = <<>>
  BY <1>6 DEF schema_version
<1>8. _chain_for[12] = <<Third>>
  <2>1. _chain_for[12] = <<Third>> \o _chain_for[13]
    BY <1>1, <1>6, StepFromIs DEF schema_version
  <2> QED
    BY <1>2, <1>7, <2>1
<1>9. _chain_for[11] = <<Second, Third>>
  <2>1. _chain_for[11] = <<Second>> \o _chain_for[12]
    BY <1>1, <1>6, StepFromIs DEF schema_version
  <2> QED
    BY <1>2, <1>8, <2>1
<1>10. _chain_for[10] = <<First, Second, Third>>
  <2>1. _chain_for[10] = <<First>> \o _chain_for[11]
    BY <1>1, <1>6, StepFromIs DEF schema_version
  <2> QED
    BY <1>2, <1>9, <2>1
<1> QED
  BY <1>7, <1>8, <1>9, <1>10

\* From a version the chain begins with the step that starts there.
LEMMA ChainForStarts ==
    ASSUME NEW v \in {10, 11, 12, 13}
    PROVE  /\ _chain_for[v] \in Chains
           /\ _chain_for[v] = <<>> <=> v = 13
           /\ v # 13 => Head(_chain_for[v])[1] = v
<1>1. Chains = {<<>>, <<Third>>, <<Second, Third>>, <<First, Second, Third>>}
  BY DEF Chains, _MIGRATION_CHAIN, First, Second, Third
<1>2. First[1] = 10 /\ Second[1] = 11 /\ Third[1] = 12
  BY DEF First, Second, Third
<1>3. CASE v = 13
  BY <1>1, <1>3, ChainForIs
<1>4. CASE v = 12
  BY <1>1, <1>2, <1>4, ChainForIs, OneTaken
<1>5. CASE v = 11
  BY <1>1, <1>2, <1>5, ChainForIs, TwoTaken
<1>6. CASE v = 10
  BY <1>1, <1>2, <1>6, ChainForIs, ThreeTaken
<1> QED
  BY <1>3, <1>4, <1>5, <1>6

-----------------------------------------------------------------------------
(* Migration: the inductive invariant.                                     *)

Pcs == {"closed", "schema", "version", "marker", "fresh", "detect", "alter", "backfill",
        "bump", "open"}

OpenerStates == [pc : Pcs, chain : Chains, by : {"nobody", "initialize", "upgrade"}]

Columns == disk.features
Rows == disk.rows

\* Every message has the number it would get if they were numbered now.
Numbered == \A i \in DOMAIN Rows : Rows[i] = i

\* The file: the columns appear in the order of the releases, and the version claims none
\* that is not there.
FileOK ==
    /\ disk = [features |-> Columns, version |-> disk.version, rows |-> Rows]
    /\ Columns \subseteq Shape
    /\ disk.version \in {0, 11, 12, 13, 14}
    /\ torn \in BOOLEAN
    /\ Columns # {} => "messages" \in Columns
    /\ "messages.reply_to" \in Columns => "messages.seq" \in Columns
    /\ disk.version >= 11 => "messages.seq" \in Columns
    /\ disk.version >= 12 => "messages.reply_to" \in Columns

\* The messages are numbered as soon as the version or a later column says so.
RowsOK ==
    ~torn =>
        /\ Rows \in Seq(Nat)
        /\ \A i \in DOMAIN Rows : Rows[i] \in {0, i}
        /\ Columns = {} => Rows = <<>>
        /\ disk.version >= 11 => Numbered
        /\ "messages.reply_to" \in Columns => Numbered

\* The columns that the steps up to this version add.
ColumnsUpTo(v) ==
    /\ v >= 11 => "messages.seq" \in Columns
    /\ v >= 12 => "messages.reply_to" \in Columns

Migrating == {"detect", "alter", "backfill", "bump"}

\* What a process may rely on where it is.
Seen(p) ==
    /\ p.pc # "closed" => "messages" \in Columns
    /\ p.pc \in Migrating => p.chain # <<>> /\ ColumnsUpTo(Head(p.chain)[1])
    /\ p.pc \in {"backfill", "bump"} => ColumnsUpTo(Head(p.chain)[2])
    /\ p.pc = "fresh" => "messages.reply_to" \in Columns
    /\ p.by = "initialize" /\ p.pc # "schema" => "liveness" \in Columns
    /\ p.pc = "open" => p.by = "initialize" /\ "messages.reply_to" \in Columns
    /\ disk.version = 14 => p.pc \in {"closed", "schema", "version"}

\* A process that is past the script that numbers the messages.
PastBackfill(p) ==
    \/ p.pc \in {"fresh", "bump", "open"}
    \/ p.pc \in Migrating /\ Head(p.chain)[1] >= 11

Relies(p) == Seen(p) /\ (~torn /\ PastBackfill(p) => Numbered)

MigrationInv ==
    /\ FileOK /\ RowsOK
    /\ opener \in [Openers -> OpenerStates]
    /\ \A o \in Openers : Relies(opener[o])

\* What no step takes away.
Grows ==
    /\ Columns \subseteq Columns'
    /\ disk'.version = 14 => disk.version = 14
    /\ torn => torn'
    /\ ~torn' /\ Numbered => Numbered'

\* A step puts one process somewhere else.
LEMMA OneOpener ==
    ASSUME MigrationInv, NEW o \in Openers, NEW p \in OpenerStates,
           opener' = [opener EXCEPT ![o] = p],
           Grows, FileOK', RowsOK', Relies(p)'
    PROVE  MigrationInv'
<1>1. opener' \in [Openers -> OpenerStates]
  BY DEF MigrationInv
<1>2. ASSUME NEW u \in Openers
      PROVE  Relies(opener[u])'
  <2>1. CASE u = o
    <3>1. opener'[u] = p
      BY <2>1 DEF MigrationInv
    <3> QED
      BY <3>1 DEF Relies, Seen, PastBackfill
  <2>2. CASE u # o
    <3> DEFINE q == opener[u]
    <3>1. opener'[u] = q /\ q \in OpenerStates /\ Relies(q) /\ torn \in BOOLEAN
      BY <2>2 DEF MigrationInv, FileOK
    <3>2. Relies(q)'
      <4>1. Seen(q) /\ (~torn /\ PastBackfill(q) => Numbered)
        BY <3>1 DEF Relies
      <4> QED
        BY <3>1, <4>1 DEF Grows, Relies, Seen, ColumnsUpTo, PastBackfill
    <3> QED
      BY <3>1, <3>2 DEF Relies, Seen, PastBackfill
  <2> QED
    BY <2>1, <2>2
<1> QED
  BY <1>1, <1>2 DEF MigrationInv

-----------------------------------------------------------------------------
(* Migration: what the steps do to the file.                               *)

\* The file is left alone, whatever is found out about it.
LEMMA SameFile ==
    ASSUME FileOK, RowsOK, disk' = disk, torn' \in BOOLEAN, torn => torn'
    PROVE  FileOK' /\ RowsOK' /\ Grows
  BY DEF FileOK, RowsOK, Grows, Columns, Rows, Numbered

\* One field of the file changes.
LEMMA FileFields ==
    ASSUME FileOK, NEW x
    PROVE  /\ [disk EXCEPT !.features = x] =
                 [features |-> x, version |-> disk.version, rows |-> Rows]
           /\ [disk EXCEPT !.version = x] =
                 [features |-> Columns, version |-> x, rows |-> Rows]
           /\ [disk EXCEPT !.rows = x] =
                 [features |-> Columns, version |-> disk.version, rows |-> x]
<1>1. DOMAIN disk = {"features", "version", "rows"}
  BY DEF FileOK
<1> QED
  BY <1>1 DEF Columns, Rows

\* schema.sql and the scripts add columns.
LEMMA MoreColumns ==
    ASSUME FileOK, RowsOK, NEW x \in SUBSET Shape, Columns \subseteq x,
           disk' = [disk EXCEPT !.features = x], torn' = torn,
           "messages" \in x,
           "messages.reply_to" \in x => "messages.seq" \in x,
           ~torn /\ "messages.reply_to" \in x => Numbered
    PROVE  /\ FileOK' /\ RowsOK' /\ Grows
           /\ Columns' = x /\ disk'.version = disk.version
<1>1. disk' = [features |-> x, version |-> disk.version, rows |-> Rows]
  BY FileFields
<1>2. Columns' = x /\ disk'.version = disk.version /\ Rows' = Rows
  BY <1>1 DEF Columns, Rows
<1>3. Numbered' <=> Numbered
  BY <1>2 DEF Numbered
<1>4. FileOK'
  BY <1>1, <1>2 DEF FileOK
<1> QED
  BY <1>2, <1>3, <1>4 DEF RowsOK, Grows

\* The version is recorded.
LEMMA NewVersion ==
    ASSUME FileOK, RowsOK, NEW v \in {11, 12, 13},
           disk' = [disk EXCEPT !.version = v], torn' = torn,
           ColumnsUpTo(v), ~torn => Numbered
    PROVE  /\ FileOK' /\ RowsOK' /\ Grows
           /\ Columns' = Columns /\ disk'.version = v
           /\ ~torn => Numbered'
<1>1. disk' = [features |-> Columns, version |-> v, rows |-> Rows]
  BY FileFields
<1>2. Columns' = Columns /\ disk'.version = v /\ Rows' = Rows
  BY <1>1 DEF Columns, Rows
<1>3. Numbered' <=> Numbered
  BY <1>2 DEF Numbered
<1>4. FileOK'
  BY <1>1, <1>2 DEF FileOK, ColumnsUpTo
<1> QED
  BY <1>2, <1>3, <1>4 DEF RowsOK, Grows

\* Messages are numbered, or a message with the next number is added.
LEMMA NewRows ==
    ASSUME FileOK, Columns # {}, NEW rows,
           disk' = [disk EXCEPT !.rows = rows], torn' = torn,
           ~torn => rows \in Seq(Nat) /\ \A i \in DOMAIN rows : rows[i] = i
    PROVE  /\ FileOK' /\ RowsOK' /\ Grows
           /\ Columns' = Columns /\ disk'.version = disk.version
           /\ ~torn => Numbered'
<1>1. disk' = [features |-> Columns, version |-> disk.version, rows |-> rows]
  BY FileFields
<1>2. Columns' = Columns /\ disk'.version = disk.version /\ Rows' = rows
  BY <1>1 DEF Columns, Rows
<1>3. ~torn => Numbered'
  BY <1>2 DEF Numbered
<1>4. FileOK'
  BY <1>1, <1>2 DEF FileOK
<1> QED
  BY <1>2, <1>3, <1>4 DEF RowsOK, Grows, FileOK

-----------------------------------------------------------------------------
(* Migration: the steps keep the invariant.                                *)

\* A process goes on.
LEMMA StateFields ==
    ASSUME NEW q \in OpenerStates, NEW pc
    PROVE  [q EXCEPT !.pc = pc] = [pc |-> pc, chain |-> q.chain, by |-> q.by]
<1>1. DOMAIN q = {"pc", "chain", "by"}
  BY DEF OpenerStates
<1> QED
  BY <1>1

\* A process closes the file, or dies.
LEMMA Closes ==
    ASSUME MigrationInv, NEW o \in Openers, opener' = [opener EXCEPT ![o] = Closed],
           Grows, FileOK', RowsOK'
    PROVE  MigrationInv'
<1>1. Closed \in OpenerStates
  BY DEF Closed, OpenerStates, Pcs, Chains
<1>2. PICK p \in OpenerStates : p = Closed
  BY <1>1
<1>3. /\ p.pc = "closed" /\ p.by = "nobody"
      /\ opener' = [opener EXCEPT ![o] = p]
  BY <1>2 DEF Closed
<1>4. Relies(p)'
  BY <1>3 DEF Relies, Seen, PastBackfill, Migrating
<1> QED
  BY <1>3, <1>4, OneOpener

\* What is left of a chain is begun, or the store is open.
LEMMA FollowKeeps ==
    ASSUME MigrationInv, NEW o \in Openers, NEW chain \in Chains, Follow(o, chain),
           Grows, FileOK', RowsOK', opener[o].pc \notin {"closed", "schema"},
           disk'.version # 14,
           chain = <<>> => "messages.reply_to" \in Columns',
           chain # <<>> => ColumnsUpTo(Head(chain)[1])',
           ~torn' /\ (chain = <<>> \/ Head(chain)[1] >= 11) => Numbered'
    PROVE  MigrationInv'
<1>1. opener[o] \in OpenerStates /\ Seen(opener[o])
  BY DEF MigrationInv, Relies
<1>2. CASE chain # <<>>
  <2>1. PICK p \in OpenerStates : p = [pc |-> "detect", chain |-> chain, by |-> opener[o].by]
    BY <1>1 DEF OpenerStates, Pcs
  <2>2. opener' = [opener EXCEPT ![o] = p]
    BY <1>1, <1>2, <2>1 DEF Follow
  <2>3. Seen(p)'
    BY <1>1, <1>2, <2>1 DEF Seen, Grows, Migrating
  <2>4. Relies(p)'
    BY <1>2, <2>1, <2>3 DEF Relies, PastBackfill, Migrating
  <2> QED
    BY <2>2, <2>4, OneOpener
<1>3. CASE chain = <<>> /\ opener[o].by = "initialize"
  <2>1. PICK p \in OpenerStates : p = [pc |-> "open", chain |-> chain, by |-> "initialize"]
    BY <1>1 DEF OpenerStates, Pcs
  <2>2. opener' = [opener EXCEPT ![o] = p]
    BY <1>1, <1>3, <2>1 DEF Follow
  <2>3. Seen(p)'
    BY <1>1, <1>3, <2>1 DEF Seen, Grows, Migrating
  <2>4. Relies(p)'
    BY <1>3, <2>1, <2>3 DEF Relies, PastBackfill, Migrating
  <2> QED
    BY <2>2, <2>4, OneOpener
<1>4. CASE chain = <<>> /\ opener[o].by # "initialize"
  BY <1>4, Closes DEF Follow
<1> QED
  BY <1>2, <1>3, <1>4

\* A process goes on with its chain.
LEMMA GoesOn ==
    ASSUME MigrationInv, NEW o \in Openers, NEW pc \in Pcs, Goto(o, pc)
    PROVE  \E p \in OpenerStates :
              /\ p = [pc |-> pc, chain |-> opener[o].chain, by |-> opener[o].by]
              /\ opener' = [opener EXCEPT ![o] = p]
<1>1. opener[o] \in OpenerStates
  BY DEF MigrationInv
<1>2. [opener[o] EXCEPT !.pc = pc]
          = [pc |-> pc, chain |-> opener[o].chain, by |-> opener[o].by]
  BY <1>1, StateFields
<1>3. [pc |-> pc, chain |-> opener[o].chain, by |-> opener[o].by] \in OpenerStates
  BY <1>1 DEF OpenerStates
<1>4. opener' = [opener EXCEPT
                     ![o] = [pc |-> pc, chain |-> opener[o].chain, by |-> opener[o].by]]
  BY <1>2 DEF Goto
<1> QED
  BY <1>3, <1>4

\* The columns grow by what schema.sql creates.
LEMMA SchemaMessagesKeeps ==
    ASSUME MigrationInv, NEW o \in Openers, ApplySchemaMessages(o)
    PROVE  MigrationInv'
<1>1. FileOK /\ RowsOK
  BY DEF MigrationInv
<1>2. FileOK' /\ RowsOK' /\ Grows /\ "messages" \in Columns'
  <2>1. CASE "messages" \in Columns
    <3>1. disk' = disk /\ torn' = torn
      BY <2>1 DEF ApplySchemaMessages, Columns
    <3> QED
      BY <1>1, <2>1, <3>1, SameFile DEF FileOK, Columns
  <2>2. CASE "messages" \notin Columns
    <3> DEFINE x == Columns \cup (Shape \ {"liveness"})
    <3>1. /\ disk' = [disk EXCEPT !.features = x]
          /\ torn' = torn
      BY <2>2 DEF ApplySchemaMessages, Columns
    <3>2. Columns = {} /\ (~torn => Numbered)
      BY <1>1, <2>2 DEF FileOK, RowsOK, Numbered
    <3>3. x \in SUBSET Shape /\ Columns \subseteq x /\ {"messages", "messages.seq"} \subseteq x
      BY <3>2 DEF Shape
    <3> HIDE DEF x
    <3> QED
      BY <1>1, <3>1, <3>2, <3>3, MoreColumns
  <2> QED
    BY <2>1, <2>2
<1>3. PICK p \in OpenerStates : p = [pc |-> "schema", chain |-> <<>>, by |-> "initialize"]
  BY DEF OpenerStates, Pcs, Chains
<1>4. opener' = [opener EXCEPT ![o] = p]
  BY <1>3 DEF ApplySchemaMessages
<1>5. Relies(p)'
  BY <1>2, <1>3 DEF Relies, Seen, PastBackfill, Migrating
<1> QED
  BY <1>2, <1>4, <1>5, OneOpener

LEMMA SchemaLivenessKeeps ==
    ASSUME MigrationInv, NEW o \in Openers, ApplySchemaLiveness(o)
    PROVE  MigrationInv'
<1> DEFINE x == Columns \cup {"liveness"}
<1>1. FileOK /\ RowsOK /\ opener[o] \in OpenerStates /\ Seen(opener[o])
  BY DEF MigrationInv, Relies
<1>2. disk' = [disk EXCEPT !.features = x] /\ torn' = torn
  BY DEF ApplySchemaLiveness, Columns
<1>3. "messages" \in Columns
  BY <1>1 DEF Seen, ApplySchemaLiveness, At
<1>4. FileOK' /\ RowsOK' /\ Grows /\ Columns' = x
  <2>1. /\ x \in SUBSET Shape /\ Columns \subseteq x /\ "messages" \in x
        /\ "messages.reply_to" \in x => "messages.seq" \in x
        /\ ~torn /\ "messages.reply_to" \in x => Numbered
    BY <1>1, <1>3 DEF FileOK, RowsOK, Shape
  <2> HIDE DEF x
  <2> QED
    BY <1>1, <1>2, <2>1, MoreColumns
<1>5. PICK p \in OpenerStates :
          /\ p = [pc |-> "version", chain |-> opener[o].chain, by |-> opener[o].by]
          /\ opener' = [opener EXCEPT ![o] = p]
  BY GoesOn DEF ApplySchemaLiveness, Pcs
<1>6. Relies(p)'
  BY <1>3, <1>4, <1>5 DEF Relies, Seen, PastBackfill, Migrating
<1> QED
  BY <1>4, <1>5, <1>6, OneOpener

\* "sox-protocol upgrade" begins.
LEMMA UpgradeKeeps ==
    ASSUME MigrationInv, NEW o \in Openers, Upgrade(o)
    PROVE  MigrationInv'
<1>1. FileOK' /\ RowsOK' /\ Grows /\ "messages" \in Columns'
  BY SameFile DEF Upgrade, MigrationInv, FileOK, Columns
<1>2. PICK p \in OpenerStates : p = [pc |-> "version", chain |-> <<>>, by |-> "upgrade"]
  BY DEF OpenerStates, Pcs, Chains
<1>3. opener' = [opener EXCEPT ![o] = p]
  BY <1>2 DEF Upgrade
<1>4. Relies(p)'
  BY <1>1, <1>2 DEF Relies, Seen, PastBackfill, Migrating
<1> QED
  BY <1>1, <1>3, <1>4, OneOpener

\* The chain starts at a version whose columns are there.
LEMMA StartKeeps ==
    ASSUME MigrationInv, NEW o \in Openers, NEW v \in {10, 11, 12, 13, 14},
           StartChain(o, v), UNCHANGED <<disk, torn>>,
           opener[o].pc \in {"version", "marker"},
           ColumnsUpTo(v), v # 14 => disk.version # 14, ~torn /\ v >= 11 => Numbered
    PROVE  MigrationInv'
<1>1. FileOK' /\ RowsOK' /\ Grows
  BY SameFile DEF MigrationInv, FileOK
<1>2. CASE v = 14
  BY <1>1, <1>2, Closes DEF StartChain, schema_version
<1>3. CASE v # 14
  <2>1. PICK chain \in Chains : chain = _chain_for[v]
    BY <1>3, ChainForStarts
  <2>2. /\ chain = <<>> <=> v = 13
        /\ chain # <<>> => Head(chain)[1] = v
    BY <1>3, <2>1, ChainForStarts
  <2>3. Follow(o, chain)
    BY <1>3, <2>1 DEF StartChain, schema_version
  <2>4. disk'.version # 14 /\ (~torn' /\ v >= 11 => Numbered')
    BY <1>3 DEF Numbered, Rows
  <2>5. ColumnsUpTo(v)'
    BY DEF ColumnsUpTo, Columns
  <2>6. chain = <<>> => "messages.reply_to" \in Columns'
    BY <2>2, <2>5 DEF ColumnsUpTo
  <2> QED
    BY <1>1, <2>2, <2>3, <2>4, <2>5, <2>6, FollowKeeps
<1> QED
  BY <1>2, <1>3

\* Reading the version, and finding none.
LEMMA ReadVersionKeeps ==
    ASSUME MigrationInv, NEW o \in Openers, ReadVersion(o)
    PROVE  MigrationInv'
<1>1. /\ FileOK /\ RowsOK /\ Seen(opener[o])
      /\ opener[o].pc = "version" /\ disk' = disk /\ torn' = torn
  BY DEF MigrationInv, Relies, ReadVersion, At
<1>2. CASE disk.version = 0
  <2>1. FileOK' /\ RowsOK' /\ Grows
    BY <1>1, SameFile DEF FileOK
  <2>2. PICK p \in OpenerStates :
            /\ p = [pc |-> "marker", chain |-> opener[o].chain, by |-> opener[o].by]
            /\ opener' = [opener EXCEPT ![o] = p]
    BY <1>2, GoesOn DEF ReadVersion, Pcs
  <2>3. Relies(p)'
    BY <1>1, <1>2, <2>2 DEF Relies, Seen, PastBackfill, Migrating, Columns
  <2> QED
    BY <2>1, <2>2, <2>3, OneOpener
<1>3. CASE disk.version # 0
  <2>1. disk.version \in {11, 12, 13, 14} /\ StartChain(o, disk.version)
    BY <1>1, <1>3 DEF FileOK, ReadVersion
  <2>2. ColumnsUpTo(disk.version) /\ (~torn /\ disk.version >= 11 => Numbered)
    BY <1>1 DEF FileOK, RowsOK, ColumnsUpTo
  <2> QED
    BY <1>1, <2>1, <2>2, StartKeeps
<1> QED
  BY <1>2, <1>3

\* A file that records no version is fresh, or of the first release.
LEMMA CheckFreshKeeps ==
    ASSUME MigrationInv, NEW o \in Openers, CheckFresh(o)
    PROVE  MigrationInv'
<1>1. /\ FileOK /\ RowsOK /\ Seen(opener[o])
      /\ opener[o].pc = "marker" /\ disk' = disk /\ torn' = torn
  BY DEF MigrationInv, Relies, CheckFresh, At
<1>2. disk.version # 14
  BY <1>1 DEF Seen
<1>3. CASE "messages.reply_to" \in Columns
  <2>1. FileOK' /\ RowsOK' /\ Grows
    BY <1>1, SameFile DEF FileOK
  <2>2. PICK p \in OpenerStates :
            /\ p = [pc |-> "fresh", chain |-> opener[o].chain, by |-> opener[o].by]
            /\ opener' = [opener EXCEPT ![o] = p]
    BY <1>3, GoesOn DEF CheckFresh, Pcs, Columns
  <2>3. Seen(p)'
    BY <1>1, <1>2, <1>3, <2>2 DEF Seen, Migrating, Columns
  <2>4. ~torn' => Numbered'
    BY <1>1, <1>3 DEF RowsOK, Numbered, Rows
  <2> QED
    BY <2>1, <2>2, <2>3, <2>4, OneOpener DEF Relies
<1>4. CASE "messages.reply_to" \notin Columns
  <2>1. StartChain(o, 10)
    BY <1>4 DEF CheckFresh, Columns, _MIGRATION_CHAIN
  <2> QED
    BY <1>1, <1>2, <2>1, StartKeeps DEF ColumnsUpTo
<1> QED
  BY <1>3, <1>4

LEMMA RecordFreshKeeps ==
    ASSUME MigrationInv, NEW o \in Openers, RecordFresh(o)
    PROVE  MigrationInv'
<1>1. /\ FileOK /\ RowsOK /\ Seen(opener[o]) /\ opener[o].pc = "fresh"
      /\ disk' = [disk EXCEPT !.version = 13] /\ torn' = torn
  BY DEF MigrationInv, Relies, RecordFresh, At, schema_version
<1>2. "messages.reply_to" \in Columns /\ ColumnsUpTo(13) /\ (~torn => Numbered)
  BY <1>1 DEF Seen, FileOK, RowsOK, ColumnsUpTo
<1>3. /\ FileOK' /\ RowsOK' /\ Grows /\ Columns' = Columns
      /\ disk'.version = 13 /\ (~torn => Numbered')
  BY <1>1, <1>2, NewVersion
<1>4. PICK chain \in Chains : chain = <<>>
  BY DEF Chains
<1>5. Follow(o, chain)
  BY <1>4 DEF RecordFresh
<1> QED
  BY <1>1, <1>2, <1>3, <1>4, <1>5, FollowKeeps

-----------------------------------------------------------------------------
(* Migration: the steps of one migration script.                           *)

\* A process that is migrating has a step s of the chain before it, and has seen the
\* columns of the steps before.
LEMMA StepAhead ==
    ASSUME MigrationInv, NEW o \in Openers, opener[o].pc \in Migrating
    PROVE  /\ Step(o) \in Steps
           /\ opener[o].chain \in Chains /\ opener[o].chain # <<>>
           /\ ColumnsUpTo(Step(o)[1])
           /\ opener[o].pc \in {"backfill", "bump"} => ColumnsUpTo(Step(o)[2])
           /\ ~torn /\ Step(o)[1] >= 11 => Numbered
           /\ "messages" \in Columns
           /\ disk.version # 14
<1>1. opener[o].chain \in Chains /\ Relies(opener[o])
  BY DEF MigrationInv, OpenerStates
<1>2. opener[o].chain # <<>>
  BY <1>1 DEF Relies, Seen
<1>3. Step(o) \in Steps
  BY <1>1, <1>2, ChainShape DEF Step
<1> QED
  BY <1>1, <1>2, <1>3 DEF Relies, Seen, Step, PastBackfill, Migrating

\* Each step adds its marker, which completes the columns up to its target.
LEMMA MarkerCompletes ==
    ASSUME NEW s \in Steps
    PROVE  /\ s[2] = 11 => s[1] = 10 /\ Marker[s[2]] = "messages.seq"
           /\ s[2] = 12 => s[1] = 11 /\ Marker[s[2]] = "messages.reply_to"
           /\ s[2] = 13 => s[1] = 12 /\ Marker[s[2]] = "liveness"
           /\ s[2] \in {11, 12, 13}
           /\ ColumnsUpTo(s[1]) /\ Marker[s[2]] \in Columns => ColumnsUpTo(s[2])
<1>1. /\ Marker[11] = "messages.seq"
      /\ Marker[12] = "messages.reply_to"
      /\ Marker[13] = "liveness"
  BY DEF Marker
<1> QED
  BY <1>1 DEF Steps, ColumnsUpTo

LEMMA DetectKeeps ==
    ASSUME MigrationInv, NEW o \in Openers, Detect(o)
    PROVE  MigrationInv'
<1> DEFINE s == Step(o)
           present == Marker[s[2]] \in Columns
<1>1. /\ FileOK /\ RowsOK /\ Seen(opener[o]) /\ opener[o].pc = "detect"
      /\ disk' = disk
      /\ torn' = (torn \/ (present /\ s[2] = 11 /\ Unnumbered # {}))
      /\ Goto(o, IF present THEN "bump" ELSE "alter")
  BY DEF MigrationInv, Relies, Detect, At, Columns
<1>2. FileOK' /\ RowsOK' /\ Grows
  BY <1>1, SameFile DEF FileOK
<1>3. /\ s \in Steps /\ opener[o].chain # <<>> /\ ColumnsUpTo(s[1])
      /\ ~torn /\ s[1] >= 11 => Numbered
      /\ "messages" \in Columns /\ disk.version # 14
  BY <1>1, StepAhead DEF Migrating
<1>4. PICK p \in OpenerStates :
          /\ p = [pc |-> IF present THEN "bump" ELSE "alter",
                  chain |-> opener[o].chain, by |-> opener[o].by]
          /\ opener' = [opener EXCEPT ![o] = p]
  BY <1>1, GoesOn DEF Pcs
<1>5. present => ColumnsUpTo(s[2])
  BY <1>3, MarkerCompletes
<1>6. Columns' = Columns /\ Numbered' = Numbered
  BY <1>1 DEF Columns, Rows, Numbered
<1>7. Seen(p)'
  <2> HIDE DEF present
  <2> QED
    BY <1>1, <1>3, <1>4, <1>5, <1>6 DEF Seen, ColumnsUpTo, Migrating, Step
<1>8. ~torn' /\ PastBackfill(p) => Numbered
  <2>1. CASE s[1] >= 11
    BY <1>1, <1>3, <2>1
  <2>2. CASE ~present /\ ~(s[1] >= 11)
    BY <1>4, <2>2 DEF PastBackfill, Migrating, Step
  <2>3. CASE present /\ ~(s[1] >= 11)
    <3>1. s[2] = 11
      BY <1>3, <2>3, MarkerCompletes
    <3>2. ~torn' => ~torn /\ Unnumbered = {}
      BY <1>1, <2>3, <3>1
    <3> QED
      BY <1>1, <3>2 DEF RowsOK, Numbered, Unnumbered, Rows
  <2> QED
    BY <2>1, <2>2, <2>3
<1>9. Relies(p)'
  BY <1>6, <1>7, <1>8 DEF Relies, PastBackfill
<1> QED
  BY <1>2, <1>4, <1>9, OneOpener

LEMMA AlterKeeps ==
    ASSUME MigrationInv, NEW o \in Openers, Alter(o)
    PROVE  MigrationInv'
<1> DEFINE s == Step(o)
           m == Marker[s[2]]
           x == Columns \cup {m}
<1>1. /\ FileOK /\ RowsOK /\ Seen(opener[o]) /\ opener[o].pc = "alter"
      /\ torn' = torn
  BY DEF MigrationInv, Relies, Alter, At
<1>2. /\ s \in Steps /\ opener[o].chain # <<>> /\ ColumnsUpTo(s[1])
      /\ ~torn /\ s[1] >= 11 => Numbered
      /\ "messages" \in Columns /\ disk.version # 14
  BY <1>1, StepAhead DEF Migrating
<1>3. CASE m \in Columns /\ s[2] # 13
  <2>1. disk' = disk /\ opener' = [opener EXCEPT ![o] = Closed]
    BY <1>3 DEF Alter, Columns
  <2>2. FileOK' /\ RowsOK' /\ Grows
    BY <1>1, <2>1, SameFile DEF FileOK
  <2> QED
    BY <2>1, <2>2, Closes
<1>4. CASE ~(m \in Columns /\ s[2] # 13)
  <2>1. /\ disk' = [disk EXCEPT !.features = x]
        /\ Goto(o, IF s[2] = 11 THEN "backfill" ELSE "bump")
    BY <1>4 DEF Alter, Columns
  <2>2. /\ x \in SUBSET Shape /\ Columns \subseteq x /\ "messages" \in x
        /\ "messages.reply_to" \in x => "messages.seq" \in x
        /\ ~torn /\ "messages.reply_to" \in x => Numbered
    BY <1>1, <1>2, MarkerCompletes DEF FileOK, RowsOK, Shape, ColumnsUpTo
  <2>3. FileOK' /\ RowsOK' /\ Grows /\ Columns' = x /\ disk'.version = disk.version
    <3> HIDE DEF x
    <3> QED
      BY <1>1, <2>1, <2>2, MoreColumns
  <2>4. PICK p \in OpenerStates :
            /\ p = [pc |-> IF s[2] = 11 THEN "backfill" ELSE "bump",
                    chain |-> opener[o].chain, by |-> opener[o].by]
            /\ opener' = [opener EXCEPT ![o] = p]
    BY <2>1, GoesOn DEF Pcs
  <2>5. PICK r \in Steps : r = s
    BY <1>2
  <2>6. ColumnsUpTo(r[1])' /\ ColumnsUpTo(r[2])'
    BY <1>2, <2>3, <2>5, MarkerCompletes DEF ColumnsUpTo
  <2>7. Head(p.chain) = r
    BY <2>4, <2>5 DEF Step
  <2>8. Seen(p)'
    BY <1>1, <1>2, <2>3, <2>4, <2>6, <2>7 DEF Seen, Migrating
  <2>9. ~torn' /\ PastBackfill(p) => Numbered'
    BY <1>1, <1>2, <2>3, <2>4, MarkerCompletes
       DEF PastBackfill, Migrating, Step, Grows
  <2> QED
    BY <2>3, <2>4, <2>8, <2>9, OneOpener DEF Relies, PastBackfill
<1> QED
  BY <1>3, <1>4

\* Every message that has no number gets the one it should have.
LEMMA BackfillKeeps ==
    ASSUME MigrationInv, NEW o \in Openers, Backfill(o)
    PROVE  MigrationInv'
<1>1. /\ FileOK /\ RowsOK /\ opener[o].pc = "backfill" /\ torn' = torn
      /\ Goto(o, "bump")
  BY DEF MigrationInv, Backfill, At
<1>2. /\ Step(o) \in Steps /\ opener[o].chain # <<>>
      /\ ColumnsUpTo(Step(o)[1]) /\ ColumnsUpTo(Step(o)[2])
      /\ "messages" \in Columns /\ disk.version # 14
  BY <1>1, StepAhead DEF Migrating
<1>3. PICK rows : rows = [i \in DOMAIN Rows |-> IF Rows[i] = 0 THEN i ELSE Rows[i]]
  OBVIOUS
<1>4. disk' = [disk EXCEPT !.rows = rows]
  BY <1>3 DEF Backfill, Rows
<1>5. ~torn => rows \in Seq(Nat) /\ \A i \in DOMAIN rows : rows[i] = i
  BY <1>1, <1>3 DEF RowsOK
<1>6. /\ FileOK' /\ RowsOK' /\ Grows /\ Columns' = Columns
      /\ disk'.version = disk.version /\ (~torn => Numbered')
  BY <1>1, <1>2, <1>4, <1>5, NewRows
<1>7. PICK p \in OpenerStates :
          /\ p = [pc |-> "bump", chain |-> opener[o].chain, by |-> opener[o].by]
          /\ opener' = [opener EXCEPT ![o] = p]
  BY <1>1, GoesOn DEF Pcs
<1>8. PICK r \in Steps : r = Step(o)
  BY <1>2
<1>9. ColumnsUpTo(r[1])' /\ ColumnsUpTo(r[2])' /\ Head(p.chain) = r
  BY <1>2, <1>6, <1>7, <1>8 DEF ColumnsUpTo, Step
<1>10. "liveness" \in Columns \/ opener[o].by # "initialize"
  BY <1>1 DEF MigrationInv, Relies, Seen
<1>11. Seen(p)'
  BY <1>2, <1>6, <1>7, <1>9, <1>10 DEF Seen, Migrating
<1> QED
  BY <1>1, <1>6, <1>7, <1>11, OneOpener DEF Relies

\* The version is recorded when the columns it stands for are there.
LEMMA BumpKeeps ==
    ASSUME MigrationInv, NEW o \in Openers, Bump(o)
    PROVE  MigrationInv'
<1>1. /\ FileOK /\ RowsOK /\ opener[o].pc = "bump" /\ torn' = torn
      /\ disk' = [disk EXCEPT !.version = Step(o)[2]]
      /\ Follow(o, Tail(opener[o].chain))
  BY DEF MigrationInv, Bump, At
<1>2. /\ Step(o) \in Steps /\ opener[o].chain \in Chains /\ opener[o].chain # <<>>
      /\ ColumnsUpTo(Step(o)[2])
  BY <1>1, StepAhead DEF Migrating
<1>3. PICK v \in {11, 12, 13} : v = Step(o)[2]
  BY <1>2, MarkerCompletes
<1>4. ColumnsUpTo(v) /\ (~torn => Numbered)
  BY <1>1, <1>2, <1>3 DEF MigrationInv, Relies, PastBackfill
<1>5. /\ FileOK' /\ RowsOK' /\ Grows /\ Columns' = Columns
      /\ disk'.version = v /\ (~torn => Numbered')
  BY <1>1, <1>3, <1>4, NewVersion
<1>6. PICK chain \in Chains : chain = Tail(opener[o].chain)
  BY <1>2, ChainShape
<1>7. /\ chain # <<>> => Head(chain)[1] = v
      /\ chain = <<>> => v = 13
  BY <1>2, <1>3, <1>6, ChainShape DEF Step, schema_version
<1>8. ColumnsUpTo(v)'
  BY <1>4, <1>5 DEF ColumnsUpTo
<1>9. chain = <<>> => "messages.reply_to" \in Columns'
  BY <1>7, <1>8 DEF ColumnsUpTo
<1>10. chain # <<>> => ColumnsUpTo(Head(chain)[1])'
  BY <1>7, <1>8 DEF ColumnsUpTo
<1>11. Follow(o, chain)
  BY <1>1, <1>6
<1>12. opener[o].pc \notin {"closed", "schema"} /\ disk'.version # 14 /\ (~torn' => Numbered')
  BY <1>1, <1>5
<1> QED
  BY <1>5, <1>9, <1>10, <1>11, <1>12, FollowKeeps

-----------------------------------------------------------------------------
(* Migration: an open store in use.                                        *)

\* The greatest number is that of the last message.
LEMMA GreatestIsLast ==
    ASSUME Rows \in Seq(Nat), Numbered
    PROVE  (CHOOSE n \in {Rows[i] : i \in DOMAIN Rows} \cup {0} :
                \A i \in DOMAIN Rows : n >= Rows[i]) = Len(Rows)
<1> DEFINE S == {Rows[i] : i \in DOMAIN Rows} \cup {0}
           Above(n) == \A i \in DOMAIN Rows : n >= Rows[i]
<1>1. DOMAIN Rows = 1 .. Len(Rows) /\ Len(Rows) \in Nat
  OBVIOUS
<1>2. \A i \in DOMAIN Rows : Rows[i] = i
  BY DEF Numbered
<1>3. Len(Rows) \in S /\ Above(Len(Rows))
  <2>1. CASE Len(Rows) = 0
    BY <1>1, <2>1
  <2>2. CASE Len(Rows) # 0
    <3>1. Len(Rows) \in DOMAIN Rows /\ Rows[Len(Rows)] = Len(Rows)
      BY <1>1, <1>2, <2>2
    <3> QED
      BY <1>1, <1>2, <3>1
  <2> QED
    BY <2>1, <2>2
<1>4. ASSUME NEW n \in S, Above(n)
      PROVE  n = Len(Rows)
  <2>1. n \in Nat /\ n <= Len(Rows)
    BY <1>1, <1>2
  <2>2. CASE Len(Rows) = 0
    BY <2>1, <2>2
  <2>3. CASE Len(Rows) # 0
    <3>1. Len(Rows) \in DOMAIN Rows /\ Rows[Len(Rows)] = Len(Rows)
      BY <1>1, <1>2, <2>3
    <3>2. n >= Rows[Len(Rows)]
      BY <1>4, <3>1
    <3>3. n >= Len(Rows)
      BY <3>1, <3>2
    <3>4. ASSUME NEW a \in Nat, NEW b \in Nat, a <= b, a >= b
          PROVE  a = b
      BY <3>4
    <3> QED
      BY <1>1, <2>1, <3>3, <3>4
  <2> QED
    BY <2>2, <2>3
<1> HIDE DEF S, Above
<1>5. (CHOOSE n \in S : Above(n)) = Len(Rows)
  BY <1>3, <1>4
<1> QED
  BY <1>5 DEF S, Above

LEMMA SendRowKeeps ==
    ASSUME MigrationInv, NEW o \in Openers, SendRow(o)
    PROVE  MigrationInv'
<1>1. /\ FileOK /\ RowsOK /\ Relies(opener[o]) /\ opener[o].pc = "open"
      /\ torn' = torn /\ opener' = opener
  BY DEF MigrationInv, SendRow, At
<1>2. Columns # {} /\ (~torn => Numbered)
  BY <1>1 DEF Relies, Seen, PastBackfill
<1>3. PICK last : last = CHOOSE n \in {Rows[i] : i \in DOMAIN Rows} \cup {0} :
                            \A i \in DOMAIN Rows : n >= Rows[i]
  OBVIOUS
<1>4. PICK rows : rows = Append(Rows, last + 1)
  OBVIOUS
<1>5. disk' = [disk EXCEPT !.rows = rows]
  BY <1>3, <1>4 DEF SendRow, Rows
<1>6. ~torn => rows \in Seq(Nat) /\ \A i \in DOMAIN rows : rows[i] = i
  <2> SUFFICES ASSUME ~torn
               PROVE  rows \in Seq(Nat) /\ \A i \in DOMAIN rows : rows[i] = i
    OBVIOUS
  <2>1. Rows \in Seq(Nat) /\ last = Len(Rows)
    BY <1>1, <1>2, <1>3, GreatestIsLast DEF RowsOK
  <2> QED
    BY <1>2, <1>4, <2>1 DEF Numbered
<1>7. /\ FileOK' /\ RowsOK' /\ Grows /\ Columns' = Columns
      /\ disk'.version = disk.version /\ (~torn => Numbered')
  BY <1>1, <1>2, <1>5, <1>6, NewRows
<1>8. PICK p \in OpenerStates : p = opener[o]
  BY DEF MigrationInv
<1>9. opener' = [opener EXCEPT ![o] = p]
  BY <1>1, <1>8 DEF MigrationInv
<1>10. Relies(p)'
  BY <1>1, <1>7, <1>8 DEF Relies, Seen, Migrating
<1> QED
  BY <1>7, <1>9, <1>10, OneOpener

LEMMA DieKeeps ==
    ASSUME MigrationInv, NEW o \in Openers, Die(o)
    PROVE  MigrationInv'
<1>1. FileOK' /\ RowsOK' /\ Grows
  BY SameFile DEF MigrationInv, FileOK, Die
<1> QED
  BY <1>1, Closes DEF Die

-----------------------------------------------------------------------------

\* Every step keeps the invariant.
LEMMA MigrationInvStep ==
    ASSUME MigrationInv, [\E o \in Openers : MigrationStep(o)]_migrationVars
    PROVE  MigrationInv'
<1>1. CASE UNCHANGED migrationVars
  BY <1>1 DEF migrationVars, MigrationInv, FileOK, RowsOK, Relies, Seen, PastBackfill,
              ColumnsUpTo, Numbered, Columns, Rows
<1>2. ASSUME NEW o \in Openers, MigrationStep(o)
      PROVE  MigrationInv'
  BY <1>2, SchemaMessagesKeeps, SchemaLivenessKeeps, UpgradeKeeps, ReadVersionKeeps,
     CheckFreshKeeps, RecordFreshKeeps, DetectKeeps, AlterKeeps, BackfillKeeps, BumpKeeps,
     SendRowKeeps, DieKeeps
     DEF MigrationStep
<1> QED
  BY <1>1, <1>2

\* The files the program can find satisfy it.
LEMMA MigrationInvInit ==
    ASSUME MigrationInit(Databases)
    PROVE  MigrationInv
<1>1. /\ disk \in Databases /\ opener = [o \in Openers |-> Closed] /\ torn = FALSE
  BY DEF MigrationInit
<1>2. FileOK
  <2>1. disk = [features |-> Columns, version |-> disk.version, rows |-> Rows]
    BY <1>1 DEF Databases, Columns, Rows
  <2>2. CASE disk.version = 0
    <3>1. Columns = {} \/ Columns = {"messages"}
      BY <1>1, <2>2 DEF Databases, Columns
    <3>2. /\ Columns \subseteq Shape /\ (Columns # {} => "messages" \in Columns)
          /\ "messages.reply_to" \notin Columns
      BY <3>1 DEF Shape
    <3>3. ~(disk.version >= 11) /\ ~(disk.version >= 12)
      BY <2>2
    <3> QED
      BY <1>1, <2>1, <2>2, <3>2, <3>3 DEF FileOK
  <2>3. CASE disk.version = 11
    <3>1. Columns = {"messages", "messages.seq"}
      BY <1>1, <2>3 DEF Databases, Columns
    <3>2. /\ Columns \subseteq Shape /\ {"messages", "messages.seq"} \subseteq Columns
          /\ "messages.reply_to" \notin Columns
      BY <3>1 DEF Shape
    <3>3. ~(disk.version >= 12) /\ disk.version \in {0, 11, 12, 13, 14}
      BY <2>3
    <3> QED
      BY <1>1, <2>1, <3>2, <3>3 DEF FileOK
  <2>4. CASE disk.version \in {12, 13, 14}
    <3>1. Columns = Shape \ {"liveness"} \/ Columns = Shape
      BY <1>1, <2>4 DEF Databases, Columns
    <3>2. /\ Columns \subseteq Shape
          /\ {"messages", "messages.seq", "messages.reply_to"} \subseteq Columns
      BY <3>1 DEF Shape
    <3> QED
      BY <1>1, <2>1, <2>4, <3>2 DEF FileOK
  <2> QED
    BY <1>1, <2>2, <2>3, <2>4 DEF Databases
<1>3. RowsOK
  <2>1. CASE disk = [features |-> {}, version |-> 0, rows |-> <<>>]
    BY <1>1, <2>1 DEF RowsOK, Columns, Rows, Numbered
  <2>2. CASE disk = [features |-> {"messages"}, version |-> 0, rows |-> <<0, 0>>]
    BY <1>1, <2>2 DEF RowsOK, Columns, Rows, Numbered
  <2>3. CASE disk.rows = <<1, 2>> /\ "messages" \in disk.features
    BY <1>1, <2>3 DEF RowsOK, Columns, Rows, Numbered
  <2> QED
    BY <1>1, <2>1, <2>2, <2>3 DEF Databases, Shape
<1>4. Closed \in OpenerStates
  BY DEF Closed, OpenerStates, Pcs, Chains
<1>5. Relies(Closed)
  BY DEF Relies, Seen, PastBackfill, Migrating, Closed
<1> QED
  BY <1>1, <1>2, <1>3, <1>4, <1>5 DEF MigrationInv

\* The recorded version never claims a column that is not there, and an open store has
\* the newest shape, is of no later release, and has its messages numbered without a gap
\* unless the numbering was found half-applied, however many processes open, upgrade and
\* use one file at a time and wherever each of them dies (SqliteStore.initialize and
\* migrate() of migration_runner.py).
THEOREM VersionIsEarnedAlways == MigrationSpec => []VersionIsEarned
<1>1. MigrationInit(Databases) => MigrationInv
  BY MigrationInvInit
<1>2. MigrationInv /\ [\E o \in Openers : MigrationStep(o)]_migrationVars => MigrationInv'
  BY MigrationInvStep
<1>3. MigrationInv => VersionIsEarned
  <2> SUFFICES ASSUME MigrationInv
               PROVE  VersionIsEarned
    OBVIOUS
  <2>1. ASSUME NEW v \in {11, 12}, disk.version >= v
        PROVE  Marker[v] \in disk.features
    <3>1. Marker[11] = "messages.seq" /\ Marker[12] = "messages.reply_to"
      BY DEF Marker
    <3> QED
      BY <2>1, <3>1 DEF MigrationInv, FileOK, Columns
  <2>2. ASSUME NEW o \in Openers, At(o, "open")
        PROVE  /\ Shape \subseteq disk.features
               /\ disk.version <= schema_version
               /\ ~torn => {disk.rows[i] : i \in DOMAIN disk.rows} = 1 .. Len(disk.rows)
    <3>1. FileOK /\ RowsOK /\ Relies(opener[o]) /\ opener[o].pc = "open"
      BY <2>2 DEF MigrationInv, At
    <3>2. Shape \subseteq Columns /\ disk.version # 14
      BY <3>1 DEF FileOK, Relies, Seen, Shape
    <3>3. ~torn => Rows \in Seq(Nat) /\ Numbered
      BY <3>1 DEF RowsOK, Relies, PastBackfill
    <3>4. ~torn => {Rows[i] : i \in DOMAIN Rows} = 1 .. Len(Rows)
      BY <3>3 DEF Numbered
    <3> QED
      BY <3>1, <3>2, <3>4 DEF FileOK, Columns, Rows, schema_version
  <2> QED
    BY <2>1, <2>2 DEF VersionIsEarned
<1> QED
  BY <1>1, <1>2, <1>3, PTL DEF MigrationSpec

-----------------------------------------------------------------------------
(* The installer.                                                          *)

\* The places of a command, by what it has behind it.
PastAgents == {"migrate", "done"}
PastSettings == PastAgents \cup {"agents"}
PastMcp == PastSettings \cup {"read", "settings"}
PastScripts == PastMcp \cup {"mcp"}
PastSkill == PastScripts \cup {"scripts"}
Places == PastSkill \cup {"idle", "pip", "skill"}

\* A hook list never has the installer's entry twice.
HookLists == [user : Nat, ours : {0, 1}, old : Nat]

Sources == {"claude_code_agent_name", "env:NAME"}

Tools == _SOX_MCP_TOOL_NAMES \cup {"Bash"}

Settings ==
    [hooks : [_HOOK_EVENTS -> HookLists], server : Sources \cup {"none"},
     allowed : BOOLEAN, allow : SUBSET Tools]

SettingsFiles == {Missing, Empty, Damaged} \cup {File(s) : s \in Settings}

McpFiles == {Missing, Empty, Damaged} \cup {File(s) : s \in [server : Sources]}

ScriptFiles == {Missing} \cup {File(s) : s \in [release : Nat, executable : BOOLEAN]}

SkillFiles == {Missing} \cup {File(s) : s \in [release : Nat, activation : BOOLEAN]}

ProjectStates ==
    [skill : SkillFiles, scripts : [HookScripts -> ScriptFiles], mcp : McpFiles,
     settings : SettingsFiles, agents : [AgentFiles -> {0, 1}]]

InstallerStates ==
    [pc : Places, args : {"none"} \cup Commands, release : Nat, read : Settings]

InstallerType ==
    /\ project \in ProjectStates
    /\ package \in Nat
    /\ installer \in InstallerStates
    /\ installer.pc # "idle" => installer.args \in Commands

\* What others put into settings.json is there.
EntriesKept == "settings" \notin mishaps => theirs \subseteq EntriesOf(project.settings)

\* Since the installer read the settings they were only added to.
ReadInv ==
    installer.pc = "settings" =>
        IF project.settings.kind = "file"
        THEN /\ project.settings.content.server = installer.read.server
             /\ installer.read.allow \subseteq project.settings.content.allow
             /\ \A e \in _HOOK_EVENTS :
                    /\ project.settings.content.hooks[e].ours = installer.read.hooks[e].ours
                    /\ project.settings.content.hooks[e].old = installer.read.hooks[e].old
        ELSE installer.read = BareSettings

\* What a command has behind it is complete.
SettingsDone ==
    installer.pc \in PastSettings =>
        /\ project.settings.kind = "file"
        /\ project.settings.content.server # "none"
        /\ \A e \in _HOOK_EVENTS : /\ project.settings.content.hooks[e].ours = 1
                                   /\ project.settings.content.hooks[e].old = 0
        /\ installer.args.inject_permissions
              => _SOX_MCP_TOOL_NAMES \subseteq project.settings.content.allow

FilesDone ==
    /\ installer.pc # "idle" => installer.release = package
    /\ installer.pc \in PastSkill =>
           project.skill.kind = "file" /\ project.skill.content.release = installer.release
    /\ installer.pc \in PastScripts => \A s \in HookScripts : project.scripts[s].kind = "file"
    /\ "scripts" \notin mishaps =>
           \A s \in HookScripts : project.scripts[s].kind = "file"
                                      => project.scripts[s].content.executable
    /\ installer.pc \in PastMcp => project.mcp.kind = "file"
    /\ installer.pc \in PastAgents => \A f \in AgentFiles : project.agents[f] = 1

InstallerInv ==
    /\ InstallerType
    /\ EntriesKept
    /\ ReadInv
    /\ SettingsDone
    /\ FilesDone

LEMMA KindsDiffer ==
    /\ Missing.kind = "missing" /\ Empty.kind = "empty" /\ Damaged.kind = "damaged"
    /\ \A c : File(c).kind = "file" /\ File(c).content = c
BY DEF Missing, Empty, Damaged, File

LEMMA SettingsFileIs ==
    ASSUME NEW f \in SettingsFiles
    PROVE  /\ f.kind = "file" => f.content \in Settings /\ f = File(f.content)
           /\ f.kind # "file" => EntriesOf(f) = {}
<1>1. f.kind # "file" => EntriesOf(f) = {}
  BY DEF EntriesOf
<1>2. ASSUME f.kind = "file" PROVE f.content \in Settings /\ f = File(f.content)
  <2>1. PICK s \in Settings : f = File(s)
    BY <1>2, KindsDiffer DEF SettingsFiles
  <2> QED BY <2>1, KindsDiffer
<1> QED BY <1>1, <1>2

LEMMA BareIs ==
    /\ BareSettings \in Settings
    /\ BareSettings.server = "none"
    /\ BareSettings.allow = {}
    /\ \A e \in _HOOK_EVENTS : BareSettings.hooks[e] = NoHooks
<1>1. NoHooks \in HookLists
  BY DEF NoHooks, HookLists
<1>2. [e \in _HOOK_EVENTS |-> NoHooks] \in [_HOOK_EVENTS -> HookLists]
  BY <1>1
<1> QED BY <1>2 DEF BareSettings, Settings

\* What merging adds, and that it takes away nothing of the user's.
LEMMA MergedIs ==
    ASSUME NEW settings \in Settings, NEW args \in Commands
    PROVE  LET merged == MergeSettings(settings, args)
           IN  /\ merged \in Settings
               /\ merged.server # "none"
               /\ settings.allow \subseteq merged.allow
               /\ args.inject_permissions => _SOX_MCP_TOOL_NAMES \subseteq merged.allow
               /\ \A e \in _HOOK_EVENTS : /\ merged.hooks[e].user = settings.hooks[e].user
                                          /\ merged.hooks[e].ours = 1
                                          /\ merged.hooks[e].old = 0
<1> DEFINE merged == MergeSettings(settings, args)
<1>1. /\ settings.server \in Sources \cup {"none"} /\ settings.allow \in SUBSET Tools
      /\ args.agent_id_source \in Sources /\ "none" \notin Sources
      /\ args.inject_permissions \in BOOLEAN
      /\ _SOX_MCP_TOOL_NAMES \subseteq Tools
  BY DEF Settings, Commands, Sources, Tools
<1>2. ASSUME NEW e \in _HOOK_EVENTS
      PROVE  /\ MergeHooks(settings.hooks[e]) \in HookLists
             /\ MergeHooks(settings.hooks[e]).user = settings.hooks[e].user
             /\ MergeHooks(settings.hooks[e]).ours = 1
             /\ MergeHooks(settings.hooks[e]).old = 0
  <2>1. settings.hooks[e] \in HookLists
    BY DEF Settings
  <2> QED BY <2>1 DEF HookLists, MergeHooks
<1>3. /\ merged.hooks = [e \in _HOOK_EVENTS |-> MergeHooks(settings.hooks[e])]
      /\ merged.server = IF settings.server = "none" THEN args.agent_id_source
                         ELSE settings.server
      /\ merged.allow = settings.allow \cup
             (IF args.inject_permissions THEN _SOX_MCP_TOOL_NAMES ELSE {})
  BY DEF MergeSettings
<1>4. merged \in Settings
  <2>1. [e \in _HOOK_EVENTS |-> MergeHooks(settings.hooks[e])] \in [_HOOK_EVENTS -> HookLists]
    BY <1>2
  <2>2. settings.allow \cup (IF args.inject_permissions THEN _SOX_MCP_TOOL_NAMES ELSE {})
            \in SUBSET Tools
    BY <1>1
  <2>3. (IF settings.server = "none" THEN args.agent_id_source ELSE settings.server)
            \in Sources \cup {"none"}
    BY <1>1
  <2> QED BY <2>1, <2>2, <2>3 DEF MergeSettings, Settings
<1>5. merged.server # "none"
  BY <1>1, <1>3
<1>6. \A e \in _HOOK_EVENTS : /\ merged.hooks[e].user = settings.hooks[e].user
                              /\ merged.hooks[e].ours = 1
                              /\ merged.hooks[e].old = 0
  BY <1>2, <1>3
<1>7. /\ settings.allow \subseteq merged.allow
      /\ args.inject_permissions => _SOX_MCP_TOOL_NAMES \subseteq merged.allow
  BY <1>1, <1>3
<1> HIDE DEF merged
<1> QED BY <1>4, <1>5, <1>6, <1>7 DEF merged

\* Settings that have what others had have their entries.
LEMMA EntriesGrow ==
    ASSUME NEW s \in Settings, NEW t \in Settings,
           s.allow \subseteq t.allow,
           \A e \in _HOOK_EVENTS : s.hooks[e].user <= t.hooks[e].user
    PROVE  EntriesOf(File(s)) \subseteq EntriesOf(File(t))
<1>1. \A e \in _HOOK_EVENTS : s.hooks[e].user > 0 => t.hooks[e].user > 0
  <2> TAKE e \in _HOOK_EVENTS
  <2>1. s.hooks[e].user \in Nat /\ t.hooks[e].user \in Nat
    BY DEF Settings, HookLists
  <2> QED BY <2>1
<1>2. /\ EntriesOf(File(s)) = {<<e, "user">> : e \in {d \in _HOOK_EVENTS : s.hooks[d].user > 0}}
                              \cup {<<"allow", x>> : x \in s.allow \ _SOX_MCP_TOOL_NAMES}
      /\ EntriesOf(File(t)) = {<<e, "user">> : e \in {d \in _HOOK_EVENTS : t.hooks[d].user > 0}}
                              \cup {<<"allow", x>> : x \in t.allow \ _SOX_MCP_TOOL_NAMES}
  BY KindsDiffer DEF EntriesOf
<1> QED BY <1>1, <1>2

LEMMA InstallerStart ==
    InstallerInit(Projects) => InstallerInv
<1> SUFFICES ASSUME InstallerInit(Projects) PROVE InstallerInv
  OBVIOUS
<1>1. PICK settings \in {Missing, File(OldSettings)} :
          project = [skill |-> Missing, scripts |-> [s \in HookScripts |-> Missing],
                     mcp |-> Missing, settings |-> settings,
                     agents |-> [f \in AgentFiles |-> 0]]
  BY DEF InstallerInit, Projects
<1>2. OldSettings \in Settings
  <2>1. [e \in _HOOK_EVENTS |-> [NoHooks EXCEPT !.user = 1, !.old = 1]]
            \in [_HOOK_EVENTS -> HookLists]
    <3>1. [NoHooks EXCEPT !.user = 1, !.old = 1] \in HookLists
      BY DEF NoHooks, HookLists
    <3> QED BY <3>1
  <2> QED BY <2>1, BareIs DEF OldSettings, Settings
<1>3. project \in ProjectStates
  <2>1. settings \in SettingsFiles
    BY <1>2 DEF SettingsFiles
  <2> QED BY <1>1, <2>1 DEF ProjectStates, SkillFiles, ScriptFiles, McpFiles
<1>4. installer = Idle /\ installer.pc = "idle" /\ installer \in InstallerStates
  BY BareIs DEF InstallerInit, Idle, InstallerStates, Places
<1>5. InstallerType
  BY <1>3, <1>4 DEF InstallerInit, InstallerType
<1>6. EntriesKept
  BY DEF InstallerInit, EntriesKept
<1>7. ReadInv /\ SettingsDone
  BY <1>4 DEF ReadInv, SettingsDone, PastSettings, PastAgents
<1>8. FilesDone
  <2>1. \A s \in HookScripts : project.scripts[s].kind # "file"
    BY <1>1, KindsDiffer
  <2> QED BY <1>4, <2>1
      DEF FilesDone, PastSkill, PastScripts, PastMcp, PastSettings, PastAgents
<1> QED BY <1>5, <1>6, <1>7, <1>8 DEF InstallerInv

\* A command that ends or waits at its start has nothing behind it.
LEMMA RestKeeps ==
    ASSUME InstallerInv,
           installer'.pc \in {"idle", "pip", "skill"},
           installer' \in InstallerStates,
           installer'.pc # "idle" => installer'.args \in Commands
                                     /\ installer'.release = package',
           package' \in Nat,
           UNCHANGED <<project, theirs, mishaps>>
    PROVE  InstallerInv'
<1>1. InstallerType'
  BY DEF InstallerInv, InstallerType
<1>2. EntriesKept'
  BY DEF InstallerInv, EntriesKept
<1>3. ReadInv' /\ SettingsDone'
  BY DEF ReadInv, SettingsDone, PastSettings, PastAgents
<1>4. FilesDone'
  BY DEF InstallerInv, FilesDone, PastSkill, PastScripts, PastMcp, PastSettings, PastAgents
<1> QED BY <1>1, <1>2, <1>3, <1>4 DEF InstallerInv

LEMMA IdleIs == Idle \in InstallerStates /\ Idle.pc = "idle"
BY BareIs DEF Idle, InstallerStates, Places

LEMMA CommandStarts ==
    ASSUME InstallerInv, NEW args \in Commands, Start(args)
    PROVE  InstallerInv'
<1>1. PICK pc \in {"pip", "skill"} :
          installer' = [pc |-> pc, args |-> args, release |-> package, read |-> BareSettings]
  BY DEF Start
<1>2. /\ installer'.pc = pc /\ installer'.args = args /\ installer'.release = package
      /\ installer' \in InstallerStates
  BY <1>1, BareIs DEF InstallerStates, Places, InstallerInv, InstallerType
<1> QED BY <1>2, RestKeeps DEF Start, InstallerInv, InstallerType

LEMMA PipKeeps ==
    ASSUME InstallerInv, PipUpgrade
    PROVE  InstallerInv'
<1>1. /\ installer \in InstallerStates /\ installer.args \in Commands
      /\ installer.release = package /\ package \in Nat
      /\ installer.pc = "pip"
  BY DEF PipUpgrade, Running, InstallerInv, InstallerType, FilesDone
<1>2. CASE installer' = Idle /\ UNCHANGED package
  BY <1>1, <1>2, IdleIs, RestKeeps DEF PipUpgrade
<1>3. CASE Proceed("skill") /\ UNCHANGED package
  <2>1. /\ installer'.pc = "skill" /\ installer'.args = installer.args
        /\ installer'.release = installer.release
        /\ installer' \in InstallerStates
    BY <1>1, <1>3 DEF Proceed, InstallerStates, Places
  <2> QED BY <1>1, <1>3, <2>1, RestKeeps DEF PipUpgrade
<1>4. ASSUME NEW latest \in _check_packages, package' = latest,
             installer' = [installer EXCEPT !.pc = "skill", !.release = latest,
                                            !.args = _reexec_self(@)]
      PROVE  InstallerInv'
  <2>1. latest \in Nat
    BY DEF _check_packages, Newest
  <2>2. _reexec_self(installer.args) \in Commands
    BY <1>1 DEF _reexec_self, Commands
  <2>3. PICK args \in Commands : args = _reexec_self(installer.args)
    BY <2>2
  <2>4. /\ installer'.pc = "skill" /\ installer'.args = args
        /\ installer'.release = latest
        /\ installer' \in InstallerStates
    BY <1>1, <1>4, <2>1, <2>3 DEF InstallerStates, Places
  <2> QED BY <1>1, <1>4, <2>1, <2>4, RestKeeps DEF PipUpgrade
<1> QED BY <1>2, <1>3, <1>4 DEF PipUpgrade

\* What holds while a command installs.
LEMMA InstallingIs ==
    ASSUME InstallerInv, installer.pc # "idle"
    PROVE  /\ project \in ProjectStates /\ package \in Nat
           /\ installer \in InstallerStates
           /\ installer.args \in Commands /\ installer.read \in Settings
           /\ installer.release = package /\ installer.release \in Nat
           /\ project.settings \in SettingsFiles
BY DEF InstallerInv, InstallerType, FilesDone, InstallerStates, ProjectStates

\* The installer goes on.
LEMMA ProceedIs ==
    ASSUME installer \in InstallerStates, NEW pc \in Places, Proceed(pc)
    PROVE  /\ installer' \in InstallerStates
           /\ installer'.pc = pc /\ installer'.args = installer.args
           /\ installer'.release = installer.release /\ installer'.read = installer.read
BY DEF Proceed, InstallerStates

LEMMA SkillKeeps ==
    ASSUME InstallerInv, WriteSkill
    PROVE  InstallerInv'
<1>0. installer.pc = "skill" /\ Proceed("scripts")
      /\ UNCHANGED <<package, theirs, budget, mishaps>>
  BY DEF WriteSkill, Running, Untouched
<1>1. PICK args \in Commands : args = installer.args
  BY <1>0, InstallingIs
<1>2. PICK skill : /\ skill = File([release |-> installer.release,
                                    activation |-> args.auto_subscribe])
                   /\ project' = [project EXCEPT !.skill = skill]
  BY <1>1 DEF WriteSkill, render_skill_md
<1>3. skill \in SkillFiles /\ skill.kind = "file" /\ skill.content.release = installer.release
  <2>1. [release |-> installer.release, activation |-> args.auto_subscribe]
            \in [release : Nat, activation : BOOLEAN]
    BY <1>0, <1>1, InstallingIs DEF Commands
  <2> QED BY <1>2, <2>1, KindsDiffer DEF SkillFiles
<1>4. /\ project' \in ProjectStates
      /\ project'.skill = skill /\ project'.scripts = project.scripts
      /\ project'.mcp = project.mcp /\ project'.settings = project.settings
      /\ project'.agents = project.agents
  BY <1>0, <1>2, <1>3, InstallingIs DEF ProjectStates
<1>5. /\ installer' \in InstallerStates
      /\ installer'.pc = "scripts" /\ installer'.args = installer.args
      /\ installer'.release = installer.release /\ installer'.read = installer.read
  BY <1>0, InstallingIs, ProceedIs DEF Places, PastSkill
<1>6. InstallerType'
  BY <1>0, <1>4, <1>5, InstallingIs DEF InstallerType
<1>7. EntriesKept' /\ ReadInv' /\ SettingsDone'
  BY <1>0, <1>4, <1>5
  DEF InstallerInv, EntriesKept, ReadInv, SettingsDone, PastSettings, PastAgents
<1>8. FilesDone'
  BY <1>0, <1>3, <1>4, <1>5
  DEF InstallerInv, FilesDone, PastSkill, PastScripts, PastMcp, PastSettings, PastAgents
<1> QED BY <1>6, <1>7, <1>8 DEF InstallerInv

LEMMA HooksKeep ==
    ASSUME InstallerInv, WriteHooks
    PROVE  InstallerInv'
<1>0. installer.pc = "scripts" /\ Proceed("mcp")
      /\ UNCHANGED <<package, theirs, budget, mishaps>>
  BY DEF WriteHooks, Running, Untouched
<1>1. PICK left, made :
          /\ left = File([release |-> installer.release, executable |-> FALSE])
          /\ made = File([release |-> installer.release, executable |-> TRUE])
  OBVIOUS
<1>2. PICK scripts :
          /\ scripts = [s \in HookScripts |-> IF project.scripts[s] = left THEN project.scripts[s]
                                              ELSE made]
          /\ project' = [project EXCEPT !.scripts = scripts]
  BY <1>1 DEF WriteHooks
<1>3. /\ left \in ScriptFiles /\ left.kind = "file"
      /\ made \in ScriptFiles /\ made.kind = "file" /\ made.content.executable
  <2>1. installer.release \in Nat
    BY <1>0, InstallingIs
  <2>2. /\ [release |-> installer.release, executable |-> FALSE]
               \in [release : Nat, executable : BOOLEAN]
        /\ [release |-> installer.release, executable |-> TRUE]
               \in [release : Nat, executable : BOOLEAN]
    BY <2>1
  <2> QED BY <1>1, <2>2, KindsDiffer DEF ScriptFiles
<1>4. /\ \A s \in HookScripts : scripts[s] = project.scripts[s] \/ scripts[s] = made
      /\ \A s \in HookScripts : scripts[s] \in ScriptFiles /\ scripts[s].kind = "file"
      /\ scripts \in [HookScripts -> ScriptFiles]
  BY <1>2, <1>3
<1>5. /\ project' \in ProjectStates
      /\ project'.skill = project.skill /\ project'.scripts = scripts
      /\ project'.mcp = project.mcp /\ project'.settings = project.settings
      /\ project'.agents = project.agents
  BY <1>0, <1>2, <1>4, InstallingIs DEF ProjectStates
<1>6. /\ installer' \in InstallerStates
      /\ installer'.pc = "mcp" /\ installer'.args = installer.args
      /\ installer'.release = installer.release /\ installer'.read = installer.read
  BY <1>0, InstallingIs, ProceedIs DEF Places, PastSkill, PastScripts
<1>7. InstallerType'
  BY <1>0, <1>5, <1>6, InstallingIs DEF InstallerType
<1>8. EntriesKept' /\ ReadInv' /\ SettingsDone'
  BY <1>0, <1>5, <1>6
  DEF InstallerInv, EntriesKept, ReadInv, SettingsDone, PastSettings, PastAgents
<1>9. FilesDone'
  <2>1. "scripts" \notin mishaps =>
            \A s \in HookScripts : project.scripts[s].kind = "file"
                                       => project.scripts[s].content.executable
    BY DEF InstallerInv, FilesDone
  <2>2. "scripts" \notin mishaps =>
            \A s \in HookScripts : scripts[s].kind = "file" => scripts[s].content.executable
    BY <1>3, <1>4, <2>1
  <2> QED BY <1>0, <1>4, <1>5, <1>6, <2>2
      DEF InstallerInv, FilesDone, PastSkill, PastScripts, PastMcp, PastSettings, PastAgents
<1> QED BY <1>7, <1>8, <1>9 DEF InstallerInv

LEMMA McpKeeps ==
    ASSUME InstallerInv, UpdateMcpJson
    PROVE  InstallerInv'
<1>0. installer.pc = "mcp" /\ UNCHANGED <<package, theirs, budget, mishaps>>
  BY DEF UpdateMcpJson, Running, Untouched
<1>1. CASE project.mcp = Damaged
  BY <1>0, <1>1, IdleIs, InstallingIs, RestKeeps DEF UpdateMcpJson
<1>2. CASE project.mcp # Damaged
  <2>1. PICK mcp \in McpFiles : mcp.kind = "file" /\ project' = [project EXCEPT !.mcp = mcp]
    <3>1. project \in ProjectStates /\ project.mcp \in McpFiles
      BY <1>0, InstallingIs DEF ProjectStates
    <3>2. CASE project.mcp.kind = "file"
      <4>1. project' = [project EXCEPT !.mcp = project.mcp]
        BY <1>2, <3>1, <3>2 DEF UpdateMcpJson, ProjectStates
      <4> QED BY <3>1, <3>2, <4>1
    <3>3. CASE project.mcp.kind # "file"
      <4>1. installer.args.agent_id_source \in Sources
        BY <1>0, InstallingIs DEF Commands, Sources
      <4>2. File([server |-> installer.args.agent_id_source]) \in McpFiles
        BY <4>1 DEF McpFiles
      <4> QED BY <1>2, <3>3, <4>2, KindsDiffer DEF UpdateMcpJson
    <3> QED BY <3>2, <3>3
  <2>2. /\ project' \in ProjectStates
        /\ project'.skill = project.skill /\ project'.scripts = project.scripts
        /\ project'.mcp = mcp /\ project'.settings = project.settings
        /\ project'.agents = project.agents
    BY <1>0, <2>1, InstallingIs DEF ProjectStates
  <2>3. /\ installer' \in InstallerStates
        /\ installer'.pc = "read" /\ installer'.args = installer.args
        /\ installer'.release = installer.release /\ installer'.read = installer.read
    <3>1. Proceed("read") /\ "read" \in Places
      BY <1>2 DEF UpdateMcpJson, Places, PastSkill, PastScripts, PastMcp
    <3> QED BY <1>0, <3>1, InstallingIs, ProceedIs
  <2>4. InstallerType'
    BY <1>0, <2>2, <2>3, InstallingIs DEF InstallerType
  <2>5. EntriesKept' /\ ReadInv' /\ SettingsDone'
    BY <1>0, <2>2, <2>3
    DEF InstallerInv, EntriesKept, ReadInv, SettingsDone, PastSettings, PastAgents
  <2>6. FilesDone'
    BY <1>0, <2>1, <2>2, <2>3
    DEF InstallerInv, FilesDone, PastSkill, PastScripts, PastMcp, PastSettings, PastAgents
  <2> QED BY <2>4, <2>5, <2>6 DEF InstallerInv
<1> QED BY <1>1, <1>2

LEMMA ReadKeeps ==
    ASSUME InstallerInv, LoadSettings
    PROVE  InstallerInv'
<1>0. /\ installer.pc = "read"
      /\ UNCHANGED <<project, package, theirs, budget, mishaps>>
  BY DEF LoadSettings, Running, Untouched
<1>1. CASE project.settings = Damaged
  BY <1>0, <1>1, IdleIs, InstallingIs, RestKeeps DEF LoadSettings
<1>2. CASE project.settings # Damaged
  <2>1. PICK read \in Settings :
            /\ IF project.settings.kind = "file" THEN read = project.settings.content
               ELSE read = BareSettings
            /\ installer' = [installer EXCEPT !.pc = "settings", !.read = read]
    BY <1>0, <1>2, InstallingIs, SettingsFileIs, BareIs DEF LoadSettings
  <2>2. /\ installer' \in InstallerStates
        /\ installer'.pc = "settings" /\ installer'.args = installer.args
        /\ installer'.release = installer.release /\ installer'.read = read
    BY <1>0, <2>1, InstallingIs
    DEF InstallerStates, Places, PastSkill, PastScripts, PastMcp
  <2>3. InstallerType'
    BY <1>0, <2>2, InstallingIs DEF InstallerType
  <2>4. ReadInv'
    BY <1>0, <2>1, <2>2 DEF ReadInv
  <2>5. EntriesKept' /\ SettingsDone'
    BY <1>0, <2>2 DEF InstallerInv, EntriesKept, SettingsDone, PastSettings, PastAgents
  <2>6. FilesDone'
    BY <1>0, <2>2
    DEF InstallerInv, FilesDone, PastSkill, PastScripts, PastMcp, PastSettings, PastAgents
  <2> QED BY <2>3, <2>4, <2>5, <2>6 DEF InstallerInv
<1> QED BY <1>1, <1>2

\* The write that ends a merge: what others put there stays, or the write is
\* over an edit.
LEMMA WriteKeeps ==
    ASSUME InstallerInv, WriteSettings
    PROVE  InstallerInv'
<1>0. /\ installer.pc = "settings" /\ Proceed("agents")
      /\ UNCHANGED <<package, theirs, budget>>
  BY DEF WriteSettings, Running, Untouched
<1>1. PICK read \in Settings, args \in Commands :
          read = installer.read /\ args = installer.args
  BY <1>0, InstallingIs
<1>2. PICK merged : merged = MergeSettings(read, args)
  OBVIOUS
<1>3. /\ merged \in Settings
      /\ merged.server # "none"
      /\ read.allow \subseteq merged.allow
      /\ args.inject_permissions => _SOX_MCP_TOOL_NAMES \subseteq merged.allow
      /\ \A e \in _HOOK_EVENTS : /\ merged.hooks[e].user = read.hooks[e].user
                                 /\ merged.hooks[e].ours = 1
                                 /\ merged.hooks[e].old = 0
  BY <1>2, MergedIs
<1>4. PICK content \in Settings :
          IF project.settings.kind = "file" THEN content = project.settings.content
          ELSE content = BareSettings
  BY <1>0, InstallingIs, SettingsFileIs, BareIs
<1>5. /\ project' = IF merged # read THEN [project EXCEPT !.settings = File(merged)] ELSE project
      /\ mishaps' = IF merged # read /\ content # read THEN mishaps \cup {"settings"} ELSE mishaps
  BY <1>1, <1>2, <1>4 DEF WriteSettings
<1>6. PICK settings \in SettingsFiles :
          /\ IF merged # read THEN settings = File(merged) ELSE settings = project.settings
          /\ project' = [project EXCEPT !.settings = settings]
  <2>1. project = [project EXCEPT !.settings = project.settings]
    BY <1>0, InstallingIs DEF ProjectStates
  <2>2. File(merged) \in SettingsFiles
    BY <1>3 DEF SettingsFiles
  <2> QED BY <1>0, <1>5, <2>1, <2>2, InstallingIs
<1>7. /\ project' \in ProjectStates
      /\ project'.skill = project.skill /\ project'.scripts = project.scripts
      /\ project'.mcp = project.mcp /\ project'.settings = settings
      /\ project'.agents = project.agents
  BY <1>0, <1>6, InstallingIs DEF ProjectStates
<1>8. /\ installer' \in InstallerStates
      /\ installer'.pc = "agents" /\ installer'.args = args
      /\ installer'.release = installer.release /\ installer'.read = read
  BY <1>0, <1>1, InstallingIs, ProceedIs
  DEF Places, PastSkill, PastScripts, PastMcp, PastSettings
<1>9. InstallerType'
  BY <1>0, <1>7, <1>8, InstallingIs DEF InstallerType
<1>10. EntriesKept'
  <2>1. CASE merged = read
    BY <1>0, <1>5, <1>6, <1>7, <2>1 DEF InstallerInv, EntriesKept
  <2>2. CASE (merged # read) /\ (content # read)
    BY <1>5, <2>2 DEF EntriesKept
  <2>3. CASE (merged # read) /\ (content = read)
    <3>1. \A e \in _HOOK_EVENTS : content.hooks[e].user <= merged.hooks[e].user
      <4> TAKE e \in _HOOK_EVENTS
      <4>1. content.hooks[e].user \in Nat
        BY DEF Settings, HookLists
      <4> QED BY <1>3, <2>3, <4>1
    <3>2. EntriesOf(File(content)) \subseteq EntriesOf(File(merged))
      BY <1>3, <2>3, <3>1, EntriesGrow
    <3>3. EntriesOf(project.settings) \subseteq EntriesOf(File(content))
      BY <1>0, <1>4, InstallingIs, SettingsFileIs
    <3>4. "settings" \notin mishaps => theirs \subseteq EntriesOf(project.settings)
      BY DEF InstallerInv, EntriesKept
    <3> QED BY <1>0, <1>5, <1>6, <1>7, <2>3, <3>2, <3>3, <3>4 DEF EntriesKept
  <2> QED BY <2>1, <2>2, <2>3
<1>11. ReadInv'
  BY <1>8 DEF ReadInv
<1>12. SettingsDone'
  <2>1. /\ settings.kind = "file"
        /\ settings.content.server # "none"
        /\ \A e \in _HOOK_EVENTS : /\ settings.content.hooks[e].ours = 1
                                   /\ settings.content.hooks[e].old = 0
        /\ args.inject_permissions => _SOX_MCP_TOOL_NAMES \subseteq settings.content.allow
    <3>1. CASE merged # read
      BY <1>3, <1>6, <3>1, KindsDiffer
    <3>2. CASE merged = read
      <4>1. project.settings.kind = "file"
        BY <1>0, <1>1, <1>3, <3>2, BareIs DEF InstallerInv, ReadInv
      <4>2. /\ project.settings.content.server = read.server
            /\ read.allow \subseteq project.settings.content.allow
            /\ \A e \in _HOOK_EVENTS :
                   /\ project.settings.content.hooks[e].ours = read.hooks[e].ours
                   /\ project.settings.content.hooks[e].old = read.hooks[e].old
        BY <1>0, <1>1, <4>1 DEF InstallerInv, ReadInv
      <4> QED BY <1>3, <1>6, <3>2, <4>1, <4>2
    <3> QED BY <3>1, <3>2
  <2> QED BY <1>7, <1>8, <2>1 DEF SettingsDone
<1>13. FilesDone'
  <2>1. "scripts" \notin mishaps' => "scripts" \notin mishaps
    BY <1>5
  <2> QED BY <1>0, <1>7, <1>8, <2>1
      DEF InstallerInv, FilesDone, PastSkill, PastScripts, PastMcp, PastSettings, PastAgents
<1> QED BY <1>9, <1>10, <1>11, <1>12, <1>13 DEF InstallerInv

LEMMA BootstrapKeeps ==
    ASSUME InstallerInv, InsertBootstrap
    PROVE  InstallerInv'
<1>0. /\ installer.pc = "agents"
      /\ UNCHANGED <<package, theirs, budget, mishaps>>
  BY DEF InsertBootstrap, Running, Untouched
<1>1. PICK agents :
          /\ agents = [f \in AgentFiles |-> IF project.agents[f] = 0 THEN 1
                                            ELSE project.agents[f]]
          /\ project' = [project EXCEPT !.agents = agents]
  BY DEF InsertBootstrap
<1>2. agents \in [AgentFiles -> {0, 1}] /\ \A f \in AgentFiles : agents[f] = 1
  <2>1. project.agents \in [AgentFiles -> {0, 1}]
    BY <1>0, InstallingIs DEF ProjectStates
  <2> QED BY <1>1, <2>1
<1>3. /\ project' \in ProjectStates
      /\ project'.skill = project.skill /\ project'.scripts = project.scripts
      /\ project'.mcp = project.mcp /\ project'.settings = project.settings
      /\ project'.agents = agents
  BY <1>0, <1>1, <1>2, InstallingIs DEF ProjectStates
<1>4. PICK pc \in PastAgents : Proceed(pc)
  BY DEF InsertBootstrap, PastAgents
<1>5. /\ installer' \in InstallerStates
      /\ installer'.pc = pc /\ installer'.args = installer.args
      /\ installer'.release = installer.release /\ installer'.read = installer.read
  <2>1. pc \in Places
    BY DEF Places, PastSkill, PastScripts, PastMcp, PastSettings
  <2> QED BY <1>0, <1>4, <2>1, InstallingIs, ProceedIs
<1>6. InstallerType'
  BY <1>0, <1>3, <1>5, InstallingIs DEF InstallerType
<1>7. EntriesKept' /\ ReadInv' /\ SettingsDone'
  BY <1>0, <1>3, <1>5
  DEF InstallerInv, EntriesKept, ReadInv, SettingsDone, PastSettings, PastAgents
<1>8. FilesDone'
  BY <1>0, <1>2, <1>3, <1>5
  DEF InstallerInv, FilesDone, PastSkill, PastScripts, PastMcp, PastSettings, PastAgents
<1> QED BY <1>6, <1>7, <1>8 DEF InstallerInv

LEMMA MigrateKeeps ==
    ASSUME InstallerInv, Migrate
    PROVE  InstallerInv'
<1>0. /\ installer.pc = "migrate"
      /\ UNCHANGED <<project, package, theirs, budget, mishaps>>
  BY DEF Migrate, Running, Untouched
<1>1. CASE installer' = Idle
  BY <1>0, <1>1, IdleIs, InstallingIs, RestKeeps
<1>2. CASE Proceed("done")
  <2>1. /\ installer' \in InstallerStates
        /\ installer'.pc = "done" /\ installer'.args = installer.args
        /\ installer'.release = installer.release /\ installer'.read = installer.read
    BY <1>0, <1>2, InstallingIs, ProceedIs
    DEF Places, PastSkill, PastScripts, PastMcp, PastSettings, PastAgents
  <2>2. InstallerType'
    BY <1>0, <2>1, InstallingIs DEF InstallerType
  <2>3. EntriesKept' /\ ReadInv' /\ SettingsDone'
    BY <1>0, <2>1
    DEF InstallerInv, EntriesKept, ReadInv, SettingsDone, PastSettings, PastAgents
  <2>4. FilesDone'
    BY <1>0, <2>1
    DEF InstallerInv, FilesDone, PastSkill, PastScripts, PastMcp, PastSettings, PastAgents
  <2> QED BY <2>2, <2>3, <2>4 DEF InstallerInv
<1> QED BY <1>1, <1>2 DEF Migrate

LEMMA FinishKeeps ==
    ASSUME InstallerInv, Finish
    PROVE  InstallerInv'
BY IdleIs, InstallingIs, RestKeeps DEF Finish, Running, Untouched

\* An edit adds to the settings, whatever the installer is doing.
LEMMA EditKeeps ==
    ASSUME InstallerInv, EditSettings
    PROVE  InstallerInv'
<1>0. /\ UNCHANGED <<package, installer, mishaps>>
      /\ project \in ProjectStates /\ project.settings \in SettingsFiles
  BY DEF EditSettings, InstallerInv, InstallerType, ProjectStates
<1>1. PICK content \in Settings :
          IF project.settings.kind = "file" THEN content = project.settings.content
          ELSE content = BareSettings
  BY <1>0, SettingsFileIs, BareIs
<1>2. PICK edited \in {[content EXCEPT !.hooks["Stop"].user = @ + 1],
                       [content EXCEPT !.allow = @ \cup {"Bash"}]} :
          /\ project' = [project EXCEPT !.settings = File(edited)]
          /\ theirs' = theirs \cup EntriesOf(File(edited))
  BY <1>1 DEF EditSettings
<1>3. /\ edited \in Settings
      /\ edited.server = content.server
      /\ content.allow \subseteq edited.allow
      /\ \A e \in _HOOK_EVENTS : /\ content.hooks[e].user <= edited.hooks[e].user
                                 /\ edited.hooks[e].ours = content.hooks[e].ours
                                 /\ edited.hooks[e].old = content.hooks[e].old
  <2>0. /\ content.hooks \in [_HOOK_EVENTS -> HookLists]
        /\ content.allow \in SUBSET Tools
        /\ \A e \in _HOOK_EVENTS : content.hooks[e].user \in Nat
    BY DEF Settings, HookLists
  <2>1. CASE edited = [content EXCEPT !.allow = @ \cup {"Bash"}]
    <3>1. PICK allow \in SUBSET Tools :
              /\ allow = content.allow \cup {"Bash"}
              /\ edited = [content EXCEPT !.allow = allow]
      BY <2>0, <2>1 DEF Tools
    <3>2. /\ edited \in Settings /\ edited.server = content.server
          /\ edited.allow = allow /\ edited.hooks = content.hooks
      BY <3>1 DEF Settings
    <3> QED BY <2>0, <3>1, <3>2
  <2>2. CASE edited = [content EXCEPT !.hooks["Stop"].user = @ + 1]
    <3>1. PICK list : list = [content.hooks["Stop"] EXCEPT !.user = @ + 1]
      OBVIOUS
    <3>2. "Stop" \in _HOOK_EVENTS
      BY DEF _HOOK_EVENTS
    <3>3. /\ list \in HookLists
          /\ list.ours = content.hooks["Stop"].ours
          /\ list.old = content.hooks["Stop"].old
          /\ list.user = content.hooks["Stop"].user + 1
      BY <2>0, <3>1, <3>2 DEF HookLists
    <3>4. PICK hooks : hooks = [content.hooks EXCEPT !["Stop"] = list]
      OBVIOUS
    <3>5. hooks \in [_HOOK_EVENTS -> HookLists]
      BY <2>0, <3>3, <3>4
    <3>6. \A e \in _HOOK_EVENTS : hooks[e] = IF e = "Stop" THEN list ELSE content.hooks[e]
      BY <2>0, <3>4
    <3>7. edited = [content EXCEPT !.hooks = hooks]
      BY <2>2, <3>1, <3>4 DEF Settings
    <3>8. /\ edited \in Settings /\ edited.server = content.server
          /\ edited.allow = content.allow /\ edited.hooks = hooks
      BY <3>5, <3>7 DEF Settings
    <3>9. \A e \in _HOOK_EVENTS : content.hooks[e].user <= hooks[e].user
      <4> TAKE e \in _HOOK_EVENTS
      <4>1. content.hooks[e].user \in Nat
        BY <2>0
      <4>2. hooks[e].user = content.hooks[e].user \/ hooks[e].user = content.hooks[e].user + 1
        BY <3>3, <3>6
      <4> QED BY <4>1, <4>2
    <3>10. \A e \in _HOOK_EVENTS : /\ hooks[e].ours = content.hooks[e].ours
                                   /\ hooks[e].old = content.hooks[e].old
      BY <3>3, <3>6
    <3> QED BY <3>8, <3>9, <3>10
  <2> QED BY <2>1, <2>2
<1>4. PICK settings \in SettingsFiles :
          /\ settings = File(edited)
          /\ project' = [project EXCEPT !.settings = settings]
  BY <1>2, <1>3 DEF SettingsFiles
<1>5. /\ project' \in ProjectStates
      /\ project'.skill = project.skill /\ project'.scripts = project.scripts
      /\ project'.mcp = project.mcp /\ project'.settings = settings
      /\ project'.agents = project.agents
  BY <1>0, <1>4 DEF ProjectStates
<1>6. settings.kind = "file" /\ settings.content = edited
  BY <1>4, KindsDiffer
<1>7. InstallerType'
  BY <1>0, <1>5 DEF InstallerInv, InstallerType
<1>8. EntriesKept'
  <2>1. EntriesOf(project.settings) \subseteq EntriesOf(File(content))
    BY <1>0, <1>1, SettingsFileIs
  <2>2. EntriesOf(File(content)) \subseteq EntriesOf(File(edited))
    BY <1>3, EntriesGrow
  <2> QED BY <1>0, <1>2, <1>4, <1>5, <2>1, <2>2 DEF InstallerInv, EntriesKept
<1>9. ReadInv'
  <2>1. SUFFICES ASSUME installer.pc = "settings"
                 PROVE  /\ edited.server = installer.read.server
                        /\ installer.read.allow \subseteq edited.allow
                        /\ \A e \in _HOOK_EVENTS :
                               /\ edited.hooks[e].ours = installer.read.hooks[e].ours
                               /\ edited.hooks[e].old = installer.read.hooks[e].old
    BY <1>0, <1>5, <1>6 DEF ReadInv
  <2>2. /\ content.server = installer.read.server
        /\ installer.read.allow \subseteq content.allow
        /\ \A e \in _HOOK_EVENTS :
               /\ content.hooks[e].ours = installer.read.hooks[e].ours
               /\ content.hooks[e].old = installer.read.hooks[e].old
    BY <1>1, <2>1 DEF InstallerInv, ReadInv
  <2> QED BY <1>3, <2>2
<1>10. SettingsDone'
  <2>1. SUFFICES ASSUME installer.pc \in PastSettings
                 PROVE  /\ edited.server # "none"
                        /\ \A e \in _HOOK_EVENTS : /\ edited.hooks[e].ours = 1
                                                   /\ edited.hooks[e].old = 0
                        /\ installer.args.inject_permissions
                              => _SOX_MCP_TOOL_NAMES \subseteq edited.allow
    BY <1>0, <1>5, <1>6 DEF SettingsDone
  <2>2. /\ content.server # "none"
        /\ \A e \in _HOOK_EVENTS : content.hooks[e].ours = 1 /\ content.hooks[e].old = 0
        /\ installer.args.inject_permissions => _SOX_MCP_TOOL_NAMES \subseteq content.allow
    BY <1>1, <2>1 DEF InstallerInv, SettingsDone
  <2> QED BY <1>3, <2>2
<1>11. FilesDone'
  BY <1>0, <1>5 DEF InstallerInv, FilesDone
<1> QED BY <1>7, <1>8, <1>9, <1>10, <1>11 DEF InstallerInv

\* A kill leaves at most one file as it should not be, and what it left is known.
LEMMA KillKeeps ==
    ASSUME InstallerInv, KillInstaller
    PROVE  InstallerInv'
<1>0. /\ installer.pc # "idle" /\ installer' = Idle
      /\ UNCHANGED <<package, theirs>>
  BY DEF KillInstaller
<1>1. ASSUME project' \in ProjectStates,
             mishaps \subseteq mishaps',
             "settings" \notin mishaps' => project'.settings = project.settings,
             "scripts" \notin mishaps' => project'.scripts = project.scripts
      PROVE  InstallerInv'
  <2>1. InstallerType'
    BY <1>0, <1>1, IdleIs, InstallingIs DEF InstallerType
  <2>2. EntriesKept'
    BY <1>0, <1>1 DEF InstallerInv, EntriesKept
  <2>3. ReadInv' /\ SettingsDone'
    BY <1>0, IdleIs DEF ReadInv, SettingsDone, PastSettings, PastAgents
  <2>4. FilesDone'
    BY <1>0, <1>1, IdleIs
    DEF InstallerInv, FilesDone, PastSkill, PastScripts, PastMcp, PastSettings, PastAgents
  <2> QED BY <2>1, <2>2, <2>3, <2>4 DEF InstallerInv
<1>2. CASE UNCHANGED <<project, mishaps>>
  BY <1>0, <1>1, <1>2, InstallingIs
<1>3. ASSUME NEW cut \in {Empty, Damaged}, project' = [project EXCEPT !.settings = cut],
             mishaps' = mishaps \cup {"settings"}
      PROVE  InstallerInv'
  <2>1. cut \in SettingsFiles
    BY DEF SettingsFiles
  <2>2. project' \in ProjectStates /\ project'.scripts = project.scripts
    BY <1>0, <1>3, <2>1, InstallingIs DEF ProjectStates
  <2> QED BY <1>1, <1>3, <2>2
<1>4. ASSUME NEW cut \in {Empty, Damaged}, project' = [project EXCEPT !.mcp = cut],
             UNCHANGED mishaps
      PROVE  InstallerInv'
  <2>1. cut \in McpFiles
    BY DEF McpFiles
  <2>2. /\ project' \in ProjectStates /\ project'.scripts = project.scripts
        /\ project'.settings = project.settings
    BY <1>0, <1>4, <2>1, InstallingIs DEF ProjectStates
  <2> QED BY <1>1, <1>4, <2>2
<1>5. ASSUME NEW s \in HookScripts,
             project' = [project EXCEPT !.scripts[s] =
                            File([release |-> installer.release, executable |-> FALSE])],
             mishaps' = mishaps \cup {"scripts"}
      PROVE  InstallerInv'
  <2>1. PICK left \in ScriptFiles :
            left = File([release |-> installer.release, executable |-> FALSE])
    <3>1. [release |-> installer.release, executable |-> FALSE]
              \in [release : Nat, executable : BOOLEAN]
      BY <1>0, InstallingIs
    <3> QED BY <3>1 DEF ScriptFiles
  <2>2. PICK scripts \in [HookScripts -> ScriptFiles] :
            project' = [project EXCEPT !.scripts = scripts]
    <3>1. project.scripts \in [HookScripts -> ScriptFiles]
      BY <1>0, InstallingIs DEF ProjectStates
    <3>2. [project.scripts EXCEPT ![s] = left] \in [HookScripts -> ScriptFiles]
      BY <2>1, <3>1
    <3>3. project' = [project EXCEPT !.scripts = [project.scripts EXCEPT ![s] = left]]
      BY <1>0, <1>5, <2>1, InstallingIs DEF ProjectStates
    <3> QED BY <3>2, <3>3
  <2>3. project' \in ProjectStates /\ project'.settings = project.settings
    BY <1>0, <2>2, InstallingIs DEF ProjectStates
  <2> QED BY <1>1, <1>5, <2>3
<1> QED BY <1>2, <1>3, <1>4, <1>5 DEF KillInstaller

LEMMA InstallerNext ==
    ASSUME InstallerInv, [InstallerStep]_installerVars
    PROVE  InstallerInv'
<1>1. CASE UNCHANGED installerVars
  BY <1>1 DEF installerVars, InstallerInv, InstallerType, EntriesKept, ReadInv, SettingsDone,
              FilesDone
<1>2. CASE InstallerStep
  BY <1>2, CommandStarts, PipKeeps, SkillKeeps, HooksKeep, McpKeeps, ReadKeeps, WriteKeeps,
     BootstrapKeeps, MigrateKeeps, FinishKeeps, EditKeeps, KillKeeps DEF InstallerStep
<1> QED BY <1>1, <1>2

LEMMA InstallerInvGives ==
    InstallerInv => InstallKeepsAndCompletes
<1> SUFFICES ASSUME InstallerInv PROVE InstallKeepsAndCompletes
  OBVIOUS
<1>1. "settings" \notin mishaps => theirs \subseteq EntriesOf(project.settings)
  BY DEF InstallerInv, EntriesKept
<1>2. ASSUME installer.pc = "done"
      PROVE  /\ "scripts" \notin mishaps => verify
             /\ \A e \in _HOOK_EVENTS : /\ project.settings.content.hooks[e].ours = 1
                                        /\ project.settings.content.hooks[e].old = 0
             /\ installer.args.inject_permissions
                   => _SOX_MCP_TOOL_NAMES \subseteq project.settings.content.allow
             /\ project.mcp.kind = "file"
             /\ \A f \in AgentFiles : project.agents[f] = 1
             /\ project.skill.content.release = package
  <2>1. /\ project.settings.kind = "file"
        /\ project.settings.content.server # "none"
        /\ \A e \in _HOOK_EVENTS : /\ project.settings.content.hooks[e].ours = 1
                                   /\ project.settings.content.hooks[e].old = 0
        /\ installer.args.inject_permissions
              => _SOX_MCP_TOOL_NAMES \subseteq project.settings.content.allow
    BY <1>2 DEF InstallerInv, SettingsDone, PastSettings, PastAgents
  <2>2. /\ installer.release = package
        /\ project.skill.kind = "file" /\ project.skill.content.release = installer.release
        /\ \A s \in HookScripts : project.scripts[s].kind = "file"
        /\ "scripts" \notin mishaps =>
               \A s \in HookScripts : project.scripts[s].kind = "file"
                                          => project.scripts[s].content.executable
        /\ project.mcp.kind = "file"
        /\ \A f \in AgentFiles : project.agents[f] = 1
    BY <1>2 DEF InstallerInv, FilesDone, PastSkill, PastScripts, PastMcp, PastSettings, PastAgents
  <2>3. \A e \in _HOOK_EVENTS : project.settings.content.hooks[e] # NoHooks
    <3>1. NoHooks.ours = 0
      BY DEF NoHooks
    <3> QED BY <2>1, <3>1
  <2> QED BY <2>1, <2>2, <2>3 DEF verify
<1> QED BY <1>1, <1>2 DEF InstallKeepsAndCompletes, Running

\* Installing and upgrading, over whatever they run and however often, between
\* edits and kills, keep the entries of others, and a command that ends well
\* leaves a complete installation of its own release.
THEOREM InstallKeepsAndCompletesAlways ==
    InstallerSpec => []InstallKeepsAndCompletes
<1>1. InstallerInv /\ [InstallerStep]_installerVars => InstallerInv'
  BY InstallerNext
<1> QED BY InstallerStart, <1>1, InstallerInvGives, PTL DEF InstallerSpec

-----------------------------------------------------------------------------
(* PluginLoader: numbers and sequences.                                    *)

\* A set of numbers has a least one.
LEMMA LeastIn ==
    ASSUME NEW S \in SUBSET Nat, S # {}
    PROVE  \E m \in S : \A n \in S : m <= n
<1>1. PICK m \in S : \A n \in S : ~ (<<n, m>> \in OpToRel(<, Nat))
  BY NatLessThanWellFounded, WFMin
<1>2. \A n \in S : ~ (n < m)
  BY <1>1 DEF OpToRel
<1> QED
  BY <1>2

LEMMA MinIsLeast ==
    ASSUME NEW S \in SUBSET Nat, S # {}
    PROVE  Min(S) \in S /\ \A n \in S : Min(S) <= n
<1>1. \E x \in S : \A y \in S : x <= y
  BY LeastIn
<1> QED
  BY <1>1 DEF Min

\* What passes from each number to the next holds of all of them: the least it does not
\* hold of would have one before it.
LEMMA UpTo ==
    ASSUME NEW n \in Nat, NEW T, 0 \in T, \A k \in 1 .. n : k - 1 \in T => k \in T
    PROVE  0 .. n \subseteq T
<1> SUFFICES ASSUME 0 .. n \ T # {} PROVE FALSE
  OBVIOUS
<1> DEFINE Not == 0 .. n \ T
<1>1. PICK m \in Not : \A k \in Not : m <= k
  <2>1. Not \in SUBSET Nat /\ Not # {}
    OBVIOUS
  <2> QED
    BY <2>1, LeastIn
<1>2. m \in 1 .. n /\ m - 1 \in 0 .. n
  BY <1>1
<1>3. m - 1 \notin Not
  BY <1>1, <1>2
<1> QED
  BY <1>1, <1>2, <1>3

\* There is a function that is defined from the number before.
CanRun(S, step, first, n) == step \in [S -> S] /\ first \in S /\ n \in Nat

IsRun(run, S, step, first, n) ==
    /\ run \in [0 .. n -> S]
    /\ run[0] = first
    /\ \A k \in 1 .. n : run[k] = step[run[k - 1]]

LEMMA Recursion ==
    ASSUME NEW S, NEW step, NEW first, NEW n, CanRun(S, step, first, n)
    PROVE  \E run : IsRun(run, S, step, first, n)
<1> USE DEF CanRun
<1> DEFINE Is(run, m) ==
               run[0] = first /\ \A k \in 1 .. m : run[k] = step[run[k - 1]]
           T == {m \in 0 .. n : \E run \in [0 .. m -> S] : Is(run, m)}
<1>1. 0 \in T
  <2> DEFINE one == [k \in 0 .. 0 |-> first]
  <2>1. one \in [0 .. 0 -> S] /\ one[0] = first
    OBVIOUS
  <2> HIDE DEF one
  <2>2. Is(one, 0)
    BY <2>1
  <2> QED
    BY <2>1, <2>2
<1>2. ASSUME NEW m \in 1 .. n, m - 1 \in T
      PROVE  m \in T
  <2>1. PICK run \in [0 .. m - 1 -> S] : Is(run, m - 1)
    BY <1>2
  <2>2. run[m - 1] \in S /\ step[run[m - 1]] \in S
    <3>1. run \in [0 .. m - 1 -> S] /\ m - 1 \in 0 .. m - 1
      OBVIOUS
    <3>2. run[m - 1] \in S
      BY <3>1
    <3> QED
      BY <3>2
  <2> DEFINE more == [k \in 0 .. m |-> IF k = m THEN step[run[m - 1]] ELSE run[k]]
  <2>3. more \in [0 .. m -> S]
    BY <2>1, <2>2
  <2>4. /\ \A k \in 0 .. m - 1 : more[k] = run[k]
        /\ more[m] = step[run[m - 1]]
    OBVIOUS
  <2> HIDE DEF more
  <2>5. Is(more, m)
    <3>1. ASSUME NEW k \in 1 .. m
          PROVE  more[k] = step[more[k - 1]]
      <4>1. k - 1 \in 0 .. m - 1 /\ more[k - 1] = run[k - 1]
        BY <2>4
      <4>2. CASE k = m
        BY <2>4, <4>1, <4>2
      <4>3. CASE k # m
        <5>1. k \in 1 .. m - 1 /\ k \in 0 .. m - 1
          BY <4>3
        <5> QED
          BY <2>1, <2>4, <4>1, <5>1
      <4> QED
        BY <4>2, <4>3
    <3> QED
      BY <2>1, <2>4, <3>1
  <2> QED
    BY <2>3, <2>5
<1>3. 0 .. n \subseteq T
  <2> HIDE DEF T
  <2> QED
    BY <1>1, <1>2, UpTo
<1>4. n \in 0 .. n
  OBVIOUS
<1> QED
  BY <1>3, <1>4 DEF IsRun

\* A finite set of numbers can be listed in ascending order.
IsAscending(list, S) ==
    /\ list \in [1 .. Cardinality(S) -> S]
    /\ \A i, j \in DOMAIN list : i < j => list[i] < list[j]

LEMMA CanAscend ==
    ASSUME NEW S \in SUBSET Nat, IsFiniteSet(S)
    PROVE  \E list : IsAscending(list, S)
<1> DEFINE N == Cardinality(S)
           Small(m) == {U \in SUBSET S : Cardinality(U) = m}
           T == {m \in 0 .. N : \A U \in Small(m) : \E list : IsAscending(list, U)}
<1>1. N \in Nat /\ \A U \in SUBSET S : IsFiniteSet(U) /\ Cardinality(U) \in Nat
  BY FS_CardinalityType, FS_Subset
<1>2. 0 \in T
  <2>1. ASSUME NEW U \in Small(0)
        PROVE  IsAscending(<<>>, U)
    <3>1. Cardinality(U) = 0
      OBVIOUS
    <3>2. <<>> \in [1 .. 0 -> U]
      OBVIOUS
    <3> QED
      BY <3>1, <3>2 DEF IsAscending
  <2> QED
    BY <1>1, <2>1
<1>3. ASSUME NEW m \in 1 .. N, m - 1 \in T
      PROVE  m \in T
  <2>1. ASSUME NEW U \in Small(m)
        PROVE  \E list : IsAscending(list, U)
    <3>1. IsFiniteSet(U) /\ Cardinality(U) = m /\ U \in SUBSET Nat
      BY <1>1
    <3>2. U # {}
      BY <3>1, FS_EmptySet
    <3>3. PICK least \in U : \A x \in U : least <= x
      BY <3>1, <3>2, LeastIn
    <3> DEFINE V == U \ {least}
    <3>4. IsFiniteSet(V) /\ Cardinality(V) = m - 1
      BY <3>1, <3>3, FS_RemoveElement
    <3>5. V \in Small(m - 1)
      BY <3>4
    <3>6. PICK rest : IsAscending(rest, V)
      BY <1>3, <3>5
    <3>7. rest \in [1 .. m - 1 -> V] /\ \A i, j \in 1 .. m - 1 : i < j => rest[i] < rest[j]
      BY <3>4, <3>6 DEF IsAscending
    <3> DEFINE list == [i \in 1 .. m |-> IF i = 1 THEN least ELSE rest[i - 1]]
    <3>8. \A i \in 1 .. m : i # 1 => i - 1 \in 1 .. m - 1 /\ rest[i - 1] \in V
      BY <3>7
    <3>9. list \in [1 .. m -> U]
      BY <3>3, <3>8
    <3>10. ASSUME NEW i \in 1 .. m, NEW j \in 1 .. m, i < j
           PROVE  list[i] < list[j]
      <4>1. j # 1 /\ list[j] = rest[j - 1] /\ rest[j - 1] \in V /\ j - 1 \in 1 .. m - 1
        BY <3>8, <3>10
      <4>2. CASE i = 1
        <5>1. list[i] = least /\ least <= rest[j - 1] /\ least # rest[j - 1]
          BY <3>3, <4>1, <4>2
        <5>2. least \in Nat /\ rest[j - 1] \in Nat
          BY <3>1, <3>3, <4>1
        <5> HIDE DEF list
        <5> QED
          BY <4>1, <5>1, <5>2
      <4>3. CASE i # 1
        <5>1. list[i] = rest[i - 1] /\ i - 1 \in 1 .. m - 1 /\ i - 1 < j - 1
          BY <3>8, <3>10, <4>3
        <5> HIDE DEF list
        <5> QED
          BY <3>7, <4>1, <5>1
      <4> QED
        BY <4>2, <4>3
    <3>11. DOMAIN list = 1 .. m
      OBVIOUS
    <3> HIDE DEF list
    <3> QED
      BY <3>1, <3>9, <3>10, <3>11 DEF IsAscending
  <2> QED
    BY <2>1
<1>4. 0 .. N \subseteq T
  <2> HIDE DEF T
  <2> QED
    BY <1>1, <1>2, <1>3, UpTo
<1>5. S \in Small(N) /\ N \in 0 .. N
  BY <1>1
<1> QED
  BY <1>4, <1>5

\* A list of a finite set's size in which each occurs once has all of them.
LEMMA AllOnce ==
    ASSUME NEW S, IsFiniteSet(S), NEW s \in [1 .. Cardinality(S) -> S],
           \A i, j \in DOMAIN s : i # j => s[i] # s[j]
    PROVE  Range(s) = S
<1>1. Cardinality(S) \in Nat
  BY FS_CardinalityType
<1>2. IsFiniteSet(1 .. Cardinality(S)) /\ Cardinality(1 .. Cardinality(S)) = Cardinality(S)
  BY <1>1, FS_Interval
<1>3. s \in Injection(1 .. Cardinality(S), S)
  BY DEF Injection, IsInjective
<1>4. s \in Surjection(1 .. Cardinality(S), S)
  BY <1>2, <1>3, FS_Injection
<1> QED
  BY <1>4 DEF Surjection, Range

\* ... and one that has all of them has each once.
LEMMA OnceAll ==
    ASSUME NEW S, IsFiniteSet(S), NEW s \in [1 .. Cardinality(S) -> S], Range(s) = S
    PROVE  \A i, j \in DOMAIN s : s[i] = s[j] => i = j
<1>1. Cardinality(S) \in Nat
  BY FS_CardinalityType
<1>2. IsFiniteSet(1 .. Cardinality(S)) /\ Cardinality(1 .. Cardinality(S)) = Cardinality(S)
  BY <1>1, FS_Interval
<1>3. s \in Surjection(1 .. Cardinality(S), S)
  BY DEF Surjection, Range
<1>4. s \in Injection(1 .. Cardinality(S), S)
  BY <1>2, <1>3, FS_SurjSameCardinalityImpliesInj
<1> QED
  BY <1>4 DEF Injection, IsInjective

LEMMA AscendingIs ==
    ASSUME NEW S \in SUBSET Nat, IsFiniteSet(S)
    PROVE  /\ Ascending(S) \in Seq(S) /\ Range(Ascending(S)) = S
           /\ \A i, j \in DOMAIN Ascending(S) : i # j => Ascending(S)[i] # Ascending(S)[j]
<1>1. \E list \in [1 .. Cardinality(S) -> S] :
          \A i, j \in DOMAIN list : i < j => list[i] < list[j]
  BY CanAscend DEF IsAscending
<1> DEFINE list == Ascending(S)
<1>2. /\ list \in [1 .. Cardinality(S) -> S]
      /\ \A i, j \in DOMAIN list : i < j => list[i] < list[j]
  BY <1>1 DEF Ascending
<1> HIDE DEF list
<1>3. Cardinality(S) \in Nat
  BY FS_CardinalityType
<1>4. ASSUME NEW i \in DOMAIN list, NEW j \in DOMAIN list, i # j
      PROVE  list[i] # list[j]
  <2>1. i < j \/ j < i
    BY <1>2, <1>3, <1>4
  <2>2. list[i] \in Nat /\ list[j] \in Nat
    BY <1>2
  <2> QED
    BY <1>2, <2>1, <2>2
<1>5. Range(list) = S
  BY <1>2, <1>4, AllOnce
<1>6. list \in Seq(S)
  BY <1>2, <1>3
<1> QED
  BY <1>4, <1>5, <1>6 DEF list
-----------------------------------------------------------------------------
(* PluginLoader: ordering.                                                 *)

\* A list of all of M that respects its constraints: what comes before is placed before.
Linear(s, M) ==
    /\ DOMAIN M \subseteq Range(s)
    /\ \A e \in Constraints(M), j \in DOMAIN s :
           s[j] = e[2] => \E i \in DOMAIN s : i < j /\ s[i] = e[1]

\* The first few of a list.
Before(s, i) == {s[j] : j \in {k \in DOMAIN s : k < i}}

\* Whatever has been placed, if the plugins can be ordered at all, the one that comes first
\* of those left is ready.
LEMMA FirstIsReady ==
    ASSUME NEW M, NEW n \in Nat, NEW s, DOMAIN s = 1 .. n, Linear(s, M),
           NEW done, NEW i \in 1 .. n, s[i] \in DOMAIN M, s[i] \notin done,
           \A j \in 1 .. n : j < i /\ s[j] \in DOMAIN M => s[j] \in done
    PROVE  s[i] \in Ready(M, done)
<1>1. ASSUME NEW e \in Constraints(M), e[2] = s[i]
      PROVE  e[1] \in done
  <2>1. PICK j \in 1 .. n : j < i /\ s[j] = e[1]
    BY <1>1 DEF Linear
  <2>2. e[1] \in DOMAIN M
    BY DEF Constraints
  <2> QED
    BY <2>1, <2>2
<1> QED
  BY <1>1 DEF Ready

LEMMA SomeIsReady ==
    ASSUME NEW M, NEW n \in Nat, NEW s, DOMAIN s = 1 .. n, Linear(s, M),
           NEW done, ~ (DOMAIN M \subseteq done)
    PROVE  Ready(M, done) # {}
<1> DEFINE left == {i \in 1 .. n : s[i] \in DOMAIN M /\ s[i] \notin done}
<1>1. left \in SUBSET Nat /\ left # {}
  BY DEF Linear, Range
<1>2. PICK i \in left : \A j \in left : i <= j
  <2> HIDE DEF left
  <2> QED
    BY <1>1, LeastIn
<1>3. \A j \in 1 .. n : j < i /\ s[j] \in DOMAIN M => s[j] \in done
  BY <1>2
<1> QED
  BY <1>2, <1>3, FirstIsReady

\* What both sorts keep: each plugin is placed when it is ready.
Placing(s, M) ==
    /\ s \in Seq(DOMAIN M)
    /\ \A i \in DOMAIN s : s[i] \in Ready(M, Before(s, i))

LEMMA PlacedOnce ==
    ASSUME NEW M, NEW s, Placing(s, M)
    PROVE  /\ DOMAIN s = 1 .. Len(s) /\ Len(s) \in Nat
           /\ \A i, j \in DOMAIN s : i # j => s[i] # s[j]
<1>1. DOMAIN s = 1 .. Len(s) /\ Len(s) \in Nat
  BY DEF Placing
<1>2. \A i, j \in DOMAIN s : i < j => s[i] # s[j]
  BY DEF Placing, Ready, Before
<1> QED
  BY <1>1, <1>2

\* To place one more that is ready.
LEMMA PlaceOne ==
    ASSUME NEW M, NEW s, Placing(s, M), NEW x \in Ready(M, Range(s))
    PROVE  /\ Placing(Append(s, x), M)
           /\ Range(Append(s, x)) = Range(s) \cup {x}
           /\ Len(Append(s, x)) = Len(s) + 1
           /\ \A i \in DOMAIN s : /\ Append(s, x)[i] = s[i]
                                  /\ Before(Append(s, x), i) = Before(s, i)
           /\ Append(s, x)[Len(s) + 1] = x
           /\ Before(Append(s, x), Len(s) + 1) = Range(s)
<1> DEFINE t == Append(s, x)
           n == Len(s)
<1>1. s \in Seq(DOMAIN M) /\ x \in DOMAIN M
  BY DEF Placing, Ready
<1>2. /\ t \in Seq(DOMAIN M) /\ n \in Nat /\ DOMAIN s = 1 .. n /\ Len(t) = n + 1
      /\ DOMAIN t = 1 .. n + 1
      /\ \A i \in 1 .. n : t[i] = s[i]
      /\ t[n + 1] = x
  BY <1>1
<1> HIDE DEF t, n
<1>3. \A i \in 1 .. n : Before(t, i) = Before(s, i)
  BY <1>2 DEF Before
<1>4. Before(t, n + 1) = Range(s)
  BY <1>2 DEF Before, Range
<1>5. Range(t) = Range(s) \cup {x}
  BY <1>2 DEF Range
<1>6. Placing(t, M)
  BY <1>2, <1>3, <1>4 DEF Placing
<1> QED
  BY <1>2, <1>3, <1>4, <1>5, <1>6 DEF t, n

\* All placed is all in order.
LEMMA PlacedAll ==
    ASSUME NEW M, IsFiniteSet(DOMAIN M), NEW s, Placing(s, M),
           Len(s) = Cardinality(DOMAIN M) \/ DOMAIN M \subseteq Range(s)
    PROVE  s \in Extensions(M) /\ Len(s) = Cardinality(DOMAIN M)
<1> DEFINE c == Cardinality(DOMAIN M)
<1>1. /\ s \in Seq(DOMAIN M) /\ DOMAIN s = 1 .. Len(s) /\ Len(s) \in Nat
      /\ \A i, j \in DOMAIN s : i # j => s[i] # s[j]
  BY PlacedOnce DEF Placing
<1>2. Range(s) \subseteq DOMAIN M
  BY <1>1 DEF Range
<1>3. Len(s) = c
  <2> SUFFICES ASSUME DOMAIN M \subseteq Range(s) PROVE Len(s) = c
    OBVIOUS
  <2>1. s \in Bijection(1 .. Len(s), DOMAIN M)
    BY <1>1, <1>2 DEF Bijection, Injection, Surjection, IsInjective, Range
  <2>2. IsFiniteSet(1 .. Len(s)) /\ Cardinality(1 .. Len(s)) = Len(s)
    BY <1>1, FS_Interval
  <2> QED
    BY <2>1, <2>2, FS_Bijection DEF ExistsBijection
<1>4. s \in [1 .. c -> DOMAIN M]
  BY <1>1, <1>3
<1>5. Range(s) = DOMAIN M
  BY <1>1, <1>4, AllOnce
<1>6. ASSUME NEW e \in Constraints(M)
      PROVE  \E i, j \in DOMAIN s : i < j /\ s[i] = e[1] /\ s[j] = e[2]
  <2>1. e[1] \in DOMAIN M /\ e[2] \in DOMAIN M
    BY DEF Constraints
  <2>2. PICK j \in DOMAIN s : s[j] = e[2]
    BY <1>5, <2>1 DEF Range
  <2>3. e[1] \in Before(s, j)
    BY <2>2 DEF Placing, Ready
  <2> QED
    BY <2>2, <2>3 DEF Before
<1> QED
  BY <1>3, <1>4, <1>5, <1>6 DEF Extensions

LEMMA ExtensionIsLinear ==
    ASSUME NEW M, IsFiniteSet(DOMAIN M), NEW s \in Extensions(M)
    PROVE  /\ Linear(s, M) /\ Cardinality(DOMAIN M) \in Nat
           /\ DOMAIN s = 1 .. Cardinality(DOMAIN M) /\ Range(s) = DOMAIN M
           /\ \A i, j \in DOMAIN s : s[i] = s[j] => i = j
<1>1. /\ s \in [1 .. Cardinality(DOMAIN M) -> DOMAIN M] /\ Range(s) = DOMAIN M
      /\ \A e \in Constraints(M) : \E i, j \in DOMAIN s : i < j /\ s[i] = e[1] /\ s[j] = e[2]
  BY DEF Extensions
<1>2. \A i, j \in DOMAIN s : s[i] = s[j] => i = j
  BY <1>1, OnceAll
<1>3. Linear(s, M)
  BY <1>1, <1>2 DEF Linear
<1> QED
  BY <1>1, <1>2, <1>3, FS_CardinalityType

-----------------------------------------------------------------------------
(* PluginLoader: the sort of load_plugins.                                 *)

\* One round of Kahn's algorithm, and the rounds as the definition has them.
KahnStep(M, done) ==
    IF Ready(M, Range(done)) = {} THEN done ELSE Append(done, Min(Ready(M, Range(done))))

KahnRun(M) ==
    CHOOSE run : run =
        [k \in 0 .. Cardinality(DOMAIN M) |->
            IF k = 0 THEN <<>>
            ELSE LET done  == run[k - 1]
                     queue == Ready(M, Range(done))
                 IN  IF queue = {} THEN done ELSE Append(done, Min(queue))]

LEMMA ToposortIsRun ==
    ASSUME NEW M
    PROVE  _toposort_plugins(M) = KahnRun(M)[Cardinality(DOMAIN M)]
BY DEF _toposort_plugins, KahnRun

\* The least that is ready is placed.
Greedy(s, M) ==
    \A i \in DOMAIN s : \A x \in Ready(M, Before(s, i)) : s[i] <= x

KahnOK(s, M, k) ==
    Placing(s, M) /\ Greedy(s, M) /\ (Len(s) = k \/ Ready(M, Range(s)) = {})

LEMMA KahnStepKeeps ==
    ASSUME NEW M, DOMAIN M \in SUBSET Nat, NEW s, NEW k \in Nat \ {0}, KahnOK(s, M, k - 1)
    PROVE  KahnOK(KahnStep(M, s), M, k)
<1> DEFINE ready == Ready(M, Range(s))
<1>1. CASE ready = {}
  BY <1>1 DEF KahnStep, KahnOK
<1>2. CASE ready # {}
  <2>1. ready \in SUBSET Nat
    BY DEF Ready
  <2>2. Min(ready) \in ready /\ \A x \in ready : Min(ready) <= x
    BY <1>2, <2>1, MinIsLeast
  <2> DEFINE t == Append(s, Min(ready))
  <2>3. Placing(s, M) /\ DOMAIN s = 1 .. Len(s) /\ Len(s) \in Nat /\ Len(s) = k - 1
    BY <1>2, PlacedOnce DEF KahnOK
  <2>4. /\ Placing(t, M) /\ Len(t) = Len(s) + 1
        /\ \A i \in DOMAIN s : t[i] = s[i] /\ Before(t, i) = Before(s, i)
        /\ t[Len(s) + 1] = Min(ready) /\ Before(t, Len(s) + 1) = Range(s)
    BY <2>2, <2>3, PlaceOne
  <2>5. DOMAIN t = 1 .. Len(s) + 1
    BY <2>3, <2>4, PlacedOnce
  <2> HIDE DEF t
  <2>6. Greedy(t, M)
    <3>1. ASSUME NEW i \in DOMAIN t, NEW x \in Ready(M, Before(t, i))
          PROVE  t[i] <= x
      <4>1. CASE i = Len(s) + 1
        BY <2>2, <2>4, <3>1, <4>1
      <4>2. CASE i # Len(s) + 1
        <5>1. i \in DOMAIN s
          BY <2>3, <2>5, <4>2
        <5> QED
          BY <2>4, <3>1, <5>1 DEF KahnOK, Greedy
      <4> QED
        BY <4>1, <4>2
    <3> QED
      BY <3>1 DEF Greedy
  <2>7. KahnStep(M, s) = t
    BY <1>2 DEF KahnStep, t
  <2> QED
    BY <2>3, <2>4, <2>6, <2>7 DEF KahnOK
<1> QED
  BY <1>1, <1>2

\* What _toposort_plugins returns: everything placed when ready, the least first, until all
\* are placed or none is ready.
LEMMA ToposortIs ==
    ASSUME NEW M, DOMAIN M \in SUBSET Nat, IsFiniteSet(DOMAIN M)
    PROVE  KahnOK(_toposort_plugins(M), M, Cardinality(DOMAIN M))
<1> DEFINE c == Cardinality(DOMAIN M)
           S == Seq(DOMAIN M)
           step == [s \in S |-> KahnStep(M, s)]
<1>1. c \in Nat
  BY FS_CardinalityType
<1>2. \A s \in S : KahnStep(M, s) \in S
  <2>1. ASSUME NEW s \in S, Ready(M, Range(s)) # {}
        PROVE  Append(s, Min(Ready(M, Range(s)))) \in S
    <3>1. Ready(M, Range(s)) \in SUBSET Nat
      BY DEF Ready
    <3>2. Min(Ready(M, Range(s))) \in DOMAIN M
      BY <2>1, <3>1, MinIsLeast DEF Ready
    <3> QED
      BY <3>2
  <2> QED
    BY <2>1 DEF KahnStep
<1> DEFINE first == <<>>
<1>3. step \in [S -> S] /\ first \in S
  BY <1>2
<1>4. PICK f : IsRun(f, S, step, first, c)
  <2> HIDE DEF c, S, step, first
  <2>1. CanRun(S, step, first, c)
    BY <1>1, <1>3 DEF CanRun
  <2> QED
    BY <2>1, Recursion
<1>5. ASSUME NEW k \in 0 .. c
      PROVE  f[k] = IF k = 0 THEN <<>> ELSE KahnStep(M, f[k - 1])
  <2>1. CASE k # 0
    <3>1. f \in [0 .. c -> S] /\ k - 1 \in 0 .. c /\ k \in 1 .. c
      BY <1>1, <1>4, <2>1 DEF IsRun
    <3>2. f[k - 1] \in S /\ f[k] = step[f[k - 1]]
      BY <1>4, <3>1 DEF IsRun
    <3> QED
      BY <2>1, <3>2
  <2> QED
    BY <1>4, <2>1 DEF IsRun
<1>6. f = [k \in 0 .. c |-> IF k = 0 THEN <<>> ELSE KahnStep(M, f[k - 1])]
  <2>1. f \in [0 .. c -> S]
    BY <1>4 DEF IsRun
  <2> HIDE DEF c, S, step, first
  <2> QED
    BY <1>5, <2>1
<1>7. KahnRun(M) = [k \in 0 .. c |-> IF k = 0 THEN <<>> ELSE KahnStep(M, KahnRun(M)[k - 1])]
  BY <1>6 DEF KahnRun, KahnStep
<1> DEFINE run == KahnRun(M)
           T == {k \in 0 .. c : KahnOK(run[k], M, k)}
<1>8. 0 \in T
  <2>1. run[0] = <<>> /\ 0 \in 0 .. c
    BY <1>1, <1>7
  <2>2. KahnOK(<<>>, M, 0)
    BY DEF KahnOK, Placing, Greedy
  <2> QED
    BY <2>1, <2>2
<1>9. ASSUME NEW k \in 1 .. c, k - 1 \in T
      PROVE  k \in T
  <2>1. KahnOK(run[k - 1], M, k - 1) /\ k \in 0 .. c /\ k # 0 /\ k \in Nat \ {0}
    BY <1>1, <1>9
  <2>2. run[k] = KahnStep(M, run[k - 1])
    BY <1>7, <2>1
  <2> QED
    BY <2>1, <2>2, KahnStepKeeps
<1>10. 0 .. c \subseteq T
  <2> HIDE DEF T, c
  <2> QED
    BY <1>1, <1>8, <1>9, UpTo
<1>11. c \in 0 .. c
  BY <1>1
<1> QED
  BY <1>10, <1>11, ToposortIsRun

\* It finds an order if there is one, and the alphabetically first.
LEMMA ToposortFinds ==
    ASSUME NEW M, DOMAIN M \in SUBSET Nat, IsFiniteSet(DOMAIN M)
    PROVE  LET order == _toposort_plugins(M)
           IN  /\ Len(order) # Cardinality(DOMAIN M) => Extensions(M) = {}
               /\ Len(order) = Cardinality(DOMAIN M) =>
                      /\ order \in Extensions(M)
                      /\ \A s \in Extensions(M) : Alphabetical(order, s)
<1> DEFINE order == _toposort_plugins(M)
           c == Cardinality(DOMAIN M)
<1>1. KahnOK(order, M, c)
  BY ToposortIs
<1> HIDE DEF order
<1>2. Placing(order, M) /\ Greedy(order, M)
  BY <1>1 DEF KahnOK
<1>3. ASSUME Len(order) # c, NEW s \in Extensions(M)
      PROVE  FALSE
  <2>1. Ready(M, Range(order)) = {}
    BY <1>1, <1>3 DEF KahnOK
  <2>2. Linear(s, M) /\ c \in Nat /\ DOMAIN s = 1 .. c
    BY ExtensionIsLinear
  <2>3. DOMAIN M \subseteq Range(order)
    BY <2>1, <2>2, SomeIsReady
  <2> QED
    BY <1>2, <1>3, <2>3, PlacedAll
<1>4. ASSUME Len(order) = c
      PROVE  order \in Extensions(M)
  BY <1>2, <1>4, PlacedAll
<1>5. ASSUME Len(order) = c, NEW s \in Extensions(M), s # order
      PROVE  Alphabetical(order, s)
  <2>1. /\ Linear(s, M) /\ c \in Nat /\ DOMAIN s = 1 .. c /\ s \in [1 .. c -> DOMAIN M]
        /\ \A i, j \in DOMAIN s : s[i] = s[j] => i = j
    BY ExtensionIsLinear DEF Extensions
  <2>2. order \in [1 .. c -> DOMAIN M]
    BY <1>4, <1>5 DEF Extensions
  <2> DEFINE differ == {i \in 1 .. c : order[i] # s[i]}
  <2>3. differ \in SUBSET Nat /\ differ # {}
    BY <1>5, <2>1, <2>2
  <2>4. PICK i \in differ : \A j \in differ : i <= j
    <3> HIDE DEF differ
    <3> QED
      BY <2>3, LeastIn
  <2>5. \A j \in 1 .. i - 1 : order[j] = s[j] /\ j \in 1 .. c
    BY <2>1, <2>4
  <2>6. i \in 1 .. c /\ order[i] # s[i]
    BY <2>4
  <2>7. s[i] \in DOMAIN M /\ s[i] \notin Before(order, i)
    BY <2>1, <2>2, <2>5, <2>6 DEF Before
  <2>8. \A j \in 1 .. c : j < i => s[j] \in Before(order, i)
    BY <2>1, <2>2, <2>5, <2>6 DEF Before
  <2>9. s[i] \in Ready(M, Before(order, i))
    BY <2>1, <2>6, <2>7, <2>8, FirstIsReady
  <2>10. order[i] <= s[i]
    BY <1>2, <2>2, <2>6, <2>9 DEF Greedy
  <2>11. order[i] \in Nat /\ s[i] \in Nat
    BY <2>1, <2>2, <2>6
  <2>12. order[i] < s[i]
    BY <2>6, <2>10, <2>11
  <2> QED
    BY <2>2, <2>5, <2>6, <2>12 DEF Alphabetical
<1> QED
  BY <1>3, <1>4, <1>5 DEF order, Alphabetical

-----------------------------------------------------------------------------
(* PluginLoader: the sort of assemble.                                     *)

AssembleStep(M, s) ==
    IF s.queue = <<>> THEN s
    ELSE LET done  == Append(s.done, Head(s.queue))
             freed == Ready(M, Range(done)) \ Range(s.queue)
         IN  [done |-> done, queue |-> Tail(s.queue) \o Ascending(freed)]

AssembleRun(M) ==
    CHOOSE run : run =
        [k \in 0 .. Cardinality(DOMAIN M) |->
            IF k = 0 THEN [done |-> <<>>, queue |-> Ascending(Ready(M, {}))]
            ELSE LET s == run[k - 1]
                 IN  IF s.queue = <<>> THEN s
                     ELSE LET done  == Append(s.done, Head(s.queue))
                              freed == Ready(M, Range(done)) \ Range(s.queue)
                          IN  [done |-> done, queue |-> Tail(s.queue) \o Ascending(freed)]]

LEMMA TopologicalSortIsRun ==
    ASSUME NEW M
    PROVE  _topological_sort(M) = AssembleRun(M)[Cardinality(DOMAIN M)].done
BY DEF _topological_sort, AssembleRun

Queues(M) == [done : Seq(DOMAIN M), queue : Seq(DOMAIN M)]

\* A list of Q, each once.
Listing(q, Q, D) ==
    q \in Seq(D) /\ Range(q) = Q /\ \A i, j \in DOMAIN q : i # j => q[i] # q[j]

\* The queue has what is ready, each once.
QueueOK(s, M, k) ==
    /\ s \in Queues(M)
    /\ Placing(s.done, M)
    /\ Listing(s.queue, Ready(M, Range(s.done)), DOMAIN M)
    /\ Len(s.done) = k \/ s.queue = <<>>

LEMMA FreedIs ==
    ASSUME NEW M, DOMAIN M \in SUBSET Nat, IsFiniteSet(DOMAIN M),
           NEW freed, freed \subseteq DOMAIN M
    PROVE  Listing(Ascending(freed), freed, DOMAIN M)
<1>1. IsFiniteSet(freed) /\ freed \in SUBSET Nat
  BY FS_Subset
<1>2. /\ Ascending(freed) \in Seq(freed) /\ Range(Ascending(freed)) = freed
      /\ \A i, j \in DOMAIN Ascending(freed) :
             i # j => Ascending(freed)[i] # Ascending(freed)[j]
  BY <1>1, AscendingIs
<1>3. Ascending(freed) \in Seq(DOMAIN M)
  BY <1>2
<1> QED
  BY <1>2, <1>3 DEF Listing

\* The rest of a queue and what is put behind it.
LEMMA Requeued ==
    ASSUME NEW D, NEW q, NEW Q, Listing(q, Q, D), q # <<>>,
           NEW f, NEW F, Listing(f, F, D), Q \cap F = {}
    PROVE  /\ Head(q) \in Q
           /\ Listing(Tail(q) \o f, (Q \ {Head(q)}) \cup F, D)
<1> USE DEF Listing
<1> DEFINE r == Tail(q) \o f
           n == Len(q) - 1
           m == Len(f)
<1>1. /\ DOMAIN q = 1 .. n + 1 /\ n \in Nat /\ DOMAIN f = 1 .. m /\ m \in Nat
      /\ Head(q) = q[1] /\ Tail(q) \in Seq(D) /\ Len(Tail(q)) = n
      /\ \A i \in 1 .. n : Tail(q)[i] = q[i + 1]
  BY HeadTailProperties
<1>2. /\ r \in Seq(D) /\ DOMAIN r = 1 .. n + m
      /\ \A i \in 1 .. n : r[i] = Tail(q)[i]
      /\ \A i \in n + 1 .. n + m : r[i] = f[i - n]
  BY <1>1
<1> HIDE DEF r, n, m
<1>3. \A i \in 1 .. n : r[i] = q[i + 1] /\ i + 1 \in DOMAIN q
  BY <1>1, <1>2
<1>4. \A i \in n + 1 .. n + m : r[i] = f[i - n] /\ i - n \in DOMAIN f
  BY <1>1, <1>2
<1>5. \A i \in DOMAIN r : i \in 1 .. n \/ i \in n + 1 .. n + m
  BY <1>1, <1>2
<1>6. Head(q) \in Range(q)
  BY <1>1 DEF Range
<1>7. Range(r) = (Range(q) \ {Head(q)}) \cup Range(f)
  <2>1. ASSUME NEW x \in Range(r)
        PROVE  x \in (Range(q) \ {Head(q)}) \cup Range(f)
    <3>1. PICK i \in DOMAIN r : r[i] = x
      BY <2>1 DEF Range
    <3>2. CASE i \in 1 .. n
      <4>1. x = q[i + 1] /\ i + 1 \in DOMAIN q /\ i + 1 # 1 /\ 1 \in DOMAIN q
        BY <1>1, <1>3, <3>1, <3>2
      <4>2. x # Head(q)
        BY <1>1, <4>1
      <4> QED
        BY <4>1, <4>2 DEF Range
    <3>3. CASE i \in n + 1 .. n + m
      BY <1>4, <3>1, <3>3 DEF Range
    <3> QED
      BY <1>5, <3>2, <3>3
  <2>2. ASSUME NEW x \in Range(q) \ {Head(q)}
        PROVE  x \in Range(r)
    <3>1. PICK i \in DOMAIN q : q[i] = x
      BY <2>2 DEF Range
    <3>2. i # 1
      BY <1>1, <2>2, <3>1
    <3>3. i - 1 \in 1 .. n /\ (i - 1) + 1 = i /\ i - 1 \in DOMAIN r
      BY <1>1, <1>2, <3>1, <3>2
    <3>4. r[i - 1] = x
      BY <1>3, <3>1, <3>3
    <3> QED
      BY <3>3, <3>4 DEF Range
  <2>3. ASSUME NEW x \in Range(f)
        PROVE  x \in Range(r)
    <3>1. PICK i \in DOMAIN f : f[i] = x
      BY <2>3 DEF Range
    <3>2. i + n \in n + 1 .. n + m /\ (i + n) - n = i /\ i + n \in DOMAIN r
      BY <1>1, <1>2, <3>1
    <3>3. r[i + n] = x
      BY <1>4, <3>1, <3>2
    <3> QED
      BY <3>2, <3>3 DEF Range
  <2> QED
    BY <2>1, <2>2, <2>3
<1>8. ASSUME NEW i \in DOMAIN r, NEW j \in DOMAIN r, i # j
      PROVE  r[i] # r[j]
  <2>1. CASE i \in 1 .. n /\ j \in 1 .. n
    <3>1. i + 1 # j + 1
      BY <1>8, <2>1
    <3> QED
      BY <1>3, <2>1, <3>1
  <2>2. CASE i \in n + 1 .. n + m /\ j \in n + 1 .. n + m
    <3>1. i - n # j - n
      BY <1>1, <1>8, <2>2
    <3> QED
      BY <1>4, <2>2, <3>1
  <2>3. CASE i \in 1 .. n /\ j \in n + 1 .. n + m
    <3>1. q[i + 1] \in Range(q) /\ f[j - n] \in Range(f)
      BY <1>3, <1>4, <2>3 DEF Range
    <3> QED
      BY <1>3, <1>4, <2>3, <3>1
  <2>4. CASE j \in 1 .. n /\ i \in n + 1 .. n + m
    <3>1. q[j + 1] \in Range(q) /\ f[i - n] \in Range(f)
      BY <1>3, <1>4, <2>4 DEF Range
    <3> QED
      BY <1>3, <1>4, <2>4, <3>1
  <2> QED
    BY <1>5, <2>1, <2>2, <2>3, <2>4
<1> QED
  BY <1>2, <1>6, <1>7, <1>8 DEF r

LEMMA AssembleStepKeeps ==
    ASSUME NEW M, DOMAIN M \in SUBSET Nat, IsFiniteSet(DOMAIN M), NEW s,
           NEW k \in Nat \ {0}, QueueOK(s, M, k - 1)
    PROVE  QueueOK(AssembleStep(M, s), M, k)
<1>1. CASE s.queue = <<>>
  BY <1>1 DEF AssembleStep, QueueOK
<1>2. CASE s.queue # <<>>
  <2> DEFINE q == s.queue
             done == Append(s.done, Head(q))
             freed == Ready(M, Range(done)) \ Range(q)
             new == [done |-> done, queue |-> Tail(q) \o Ascending(freed)]
  <2>1. /\ s \in Queues(M) /\ Placing(s.done, M) /\ Len(s.done) = k - 1
        /\ Listing(q, Ready(M, Range(s.done)), DOMAIN M)
    BY <1>2 DEF QueueOK
  <2>2. Listing(Ascending(freed), freed, DOMAIN M)
    <3>1. freed \subseteq DOMAIN M
      BY DEF Ready
    <3> HIDE DEF freed
    <3> QED
      BY <3>1, FreedIs
  <2>3. Range(q) = Ready(M, Range(s.done)) /\ Ready(M, Range(s.done)) \cap freed = {}
    BY <2>1 DEF Listing
  <2> HIDE DEF freed
  <2> DEFINE left == (Ready(M, Range(s.done)) \ {Head(q)}) \cup freed
  <2>4. /\ Head(q) \in Ready(M, Range(s.done))
        /\ Listing(Tail(q) \o Ascending(freed), left, DOMAIN M)
    <3>1. q # <<>>
      BY <1>2
    <3> HIDE DEF q, done, new
    <3> QED
      BY <2>1, <2>2, <2>3, <3>1, Requeued
  <2> HIDE DEF q
  <2>5. /\ Placing(done, M) /\ Range(done) = Range(s.done) \cup {Head(q)}
        /\ Len(done) = Len(s.done) + 1
    BY <2>1, <2>4, PlaceOne
  <2>6. done \in Seq(DOMAIN M) /\ Len(done) = k
    BY <2>1, <2>5 DEF Placing
  <2> HIDE DEF done
  <2>7. left = Ready(M, Range(done))
    <3>1. Ready(M, Range(s.done)) \ {Head(q)} \subseteq Ready(M, Range(done))
      BY <2>5 DEF Ready
    <3>2. Head(q) \notin Ready(M, Range(done))
      BY <2>5 DEF Ready
    <3> QED
      BY <2>3, <2>4, <3>1, <3>2 DEF freed
  <2>8. AssembleStep(M, s) = new
    BY <1>2 DEF AssembleStep, q, freed, done
  <2>9. /\ new \in Queues(M) /\ new.done = done /\ new.queue = Tail(q) \o Ascending(freed)
    BY <2>6, <2>4 DEF Queues, Listing
  <2> HIDE DEF new, left
  <2> QED
    BY <2>5, <2>6, <2>7, <2>8, <2>9, <2>4 DEF QueueOK
<1> QED
  BY <1>1, <1>2

\* What it returns: everything placed when ready, until all are placed or none is ready.
LEMMA TopologicalSortIs ==
    ASSUME NEW M, DOMAIN M \in SUBSET Nat, IsFiniteSet(DOMAIN M)
    PROVE  LET order == _topological_sort(M)
           IN  /\ Placing(order, M)
               /\ Len(order) = Cardinality(DOMAIN M) \/ Ready(M, Range(order)) = {}
<1> DEFINE c == Cardinality(DOMAIN M)
           S == Queues(M)
           step == [s \in S |-> AssembleStep(M, s)]
           first == [done |-> <<>>, queue |-> Ascending(Ready(M, {}))]
<1>1. c \in Nat
  BY FS_CardinalityType
<1>2. \A s \in S : AssembleStep(M, s) \in S
  <2>1. ASSUME NEW s \in S, s.queue # <<>>
        PROVE  AssembleStep(M, s) \in S
    <3> DEFINE done == Append(s.done, Head(s.queue))
               behind == Ascending(Ready(M, Range(done)) \ Range(s.queue))
    <3>1. s.queue \in Seq(DOMAIN M) /\ s.done \in Seq(DOMAIN M)
      BY DEF Queues
    <3>2. Head(s.queue) \in DOMAIN M /\ Tail(s.queue) \in Seq(DOMAIN M)
      BY <2>1, <3>1, HeadTailProperties
    <3>3. done \in Seq(DOMAIN M)
      BY <3>1, <3>2
    <3>4. behind \in Seq(DOMAIN M)
      <4>1. Ready(M, Range(done)) \ Range(s.queue) \subseteq DOMAIN M
        BY DEF Ready
      <4> HIDE DEF done
      <4> QED
        BY <4>1, FreedIs DEF Listing
    <3>5. AssembleStep(M, s) = [done |-> done, queue |-> Tail(s.queue) \o behind]
      BY <2>1 DEF AssembleStep
    <3> HIDE DEF done, behind
    <3>6. Tail(s.queue) \o behind \in Seq(DOMAIN M)
      BY <3>2, <3>4
    <3> QED
      BY <3>3, <3>5, <3>6 DEF Queues
  <2> QED
    BY <2>1 DEF AssembleStep
<1>3. QueueOK(first, M, 0)
  <2>1. Ready(M, {}) \subseteq DOMAIN M
    BY DEF Ready
  <2>2. Listing(Ascending(Ready(M, {})), Ready(M, {}), DOMAIN M)
    BY <2>1, FreedIs
  <2>3. Placing(<<>>, M) /\ Range(<<>>) = {} /\ <<>> \in Seq(DOMAIN M) /\ Len(<<>>) = 0
    BY DEF Placing, Range
  <2> QED
    BY <2>2, <2>3 DEF QueueOK, Queues, Listing
<1>4. step \in [S -> S] /\ first \in S
  BY <1>2, <1>3 DEF QueueOK
<1>5. PICK f : IsRun(f, S, step, first, c)
  <2> HIDE DEF c, S, step, first
  <2>1. CanRun(S, step, first, c)
    BY <1>1, <1>4 DEF CanRun
  <2> QED
    BY <2>1, Recursion
<1>6. ASSUME NEW k \in 0 .. c
      PROVE  f[k] = IF k = 0 THEN first ELSE AssembleStep(M, f[k - 1])
  <2>1. CASE k # 0
    <3>1. f \in [0 .. c -> S] /\ k - 1 \in 0 .. c /\ k \in 1 .. c
      BY <1>1, <1>5, <2>1 DEF IsRun
    <3>2. f[k - 1] \in S /\ f[k] = step[f[k - 1]]
      BY <1>5, <3>1 DEF IsRun
    <3> QED
      BY <2>1, <3>2
  <2> QED
    BY <1>5, <2>1 DEF IsRun
<1>7. f = [k \in 0 .. c |-> IF k = 0 THEN first ELSE AssembleStep(M, f[k - 1])]
  <2>1. f \in [0 .. c -> S]
    BY <1>5 DEF IsRun
  <2> HIDE DEF c, S, step, first
  <2> QED
    BY <1>6, <2>1
<1>8. AssembleRun(M) =
          [k \in 0 .. c |-> IF k = 0 THEN first ELSE AssembleStep(M, AssembleRun(M)[k - 1])]
  BY <1>7 DEF AssembleRun, AssembleStep
<1> DEFINE run == AssembleRun(M)
           T == {k \in 0 .. c : QueueOK(run[k], M, k)}
<1>9. 0 \in T
  <2>1. run[0] = first /\ 0 \in 0 .. c
    BY <1>1, <1>8
  <2> QED
    BY <1>3, <2>1
<1>10. ASSUME NEW k \in 1 .. c, k - 1 \in T
       PROVE  k \in T
  <2>1. QueueOK(run[k - 1], M, k - 1) /\ k \in 0 .. c /\ k # 0 /\ k \in Nat \ {0}
    BY <1>1, <1>10
  <2>2. run[k] = AssembleStep(M, run[k - 1])
    BY <1>8, <2>1
  <2> QED
    BY <2>1, <2>2, AssembleStepKeeps
<1>11. 0 .. c \subseteq T
  <2> HIDE DEF T, c
  <2> QED
    BY <1>1, <1>9, <1>10, UpTo
<1>12. QueueOK(run[c], M, c)
  <2>1. c \in 0 .. c
    BY <1>1
  <2> HIDE DEF c, run
  <2> QED
    BY <1>11, <2>1
<1>13. _topological_sort(M) = run[c].done
  BY TopologicalSortIsRun
<1>14. run[c].queue = <<>> => Ready(M, Range(run[c].done)) = {}
  BY <1>12 DEF QueueOK, Listing, Range
<1> HIDE DEF run, c
<1> QED
  BY <1>12, <1>13, <1>14 DEF QueueOK, c

\* It orders what can be ordered.
LEMMA TopologicalSortFinds ==
    ASSUME NEW M, DOMAIN M \in SUBSET Nat, IsFiniteSet(DOMAIN M),
           NEW n \in Nat, NEW s, DOMAIN s = 1 .. n, Linear(s, M)
    PROVE  _topological_sort(M) \in Extensions(M)
<1> DEFINE order == _topological_sort(M)
<1>1. Placing(order, M) /\ (Len(order) = Cardinality(DOMAIN M) \/ Ready(M, Range(order)) = {})
  BY TopologicalSortIs
<1> HIDE DEF order
<1>2. Len(order) = Cardinality(DOMAIN M) \/ DOMAIN M \subseteq Range(order)
  BY <1>1, SomeIsReady
<1> QED
  BY <1>1, <1>2, PlacedAll DEF order

-----------------------------------------------------------------------------
(* PluginLoader: versions.                                                 *)

\* Who admits versions below the next one of a form admits what shares the numbers before.
LEMMA BelowNextMajor ==
    ASSUME NEW v \in Versions, NEW at \in Versions, ~Earlier(v, at),
           Satisfies(v, <<"<", <<at[1] + 1, 0, 0, 1>>>>)
    PROVE  v[1] = at[1]
<1> DEFINE w == <<at[1] + 1, 0, 0, 1>>
<1>1. /\ v[1] \in Nat /\ v[2] \in Nat /\ v[3] \in Nat /\ v[4] \in {0, 1}
      /\ at[1] \in Nat
  BY DEF Versions
<1>2. w[1] = at[1] + 1 /\ w[2] = 0 /\ w[3] = 0 /\ w[4] = 1
  OBVIOUS
<1> HIDE DEF w
<1>3. Earlier(v, w) /\ \E i \in 1 .. 3 : v[i] # w[i]
  BY DEF Satisfies, w
<1>4. ~ (v[1] < at[1])
  <2>1. v[1] < at[1] => Earlier(v, at)
    BY DEF Earlier
  <2> QED
    BY <2>1
<1>5. v[1] < w[1]
  <2>1. PICK i \in 1 .. 4 : v[i] < w[i] /\ \A j \in 1 .. i - 1 : v[j] = w[j]
    BY <1>3 DEF Earlier
  <2>2. i # 2 /\ i # 3
    BY <1>1, <1>2, <2>1
  <2>3. i # 4
    <3>1. i = 4 => v[1] = w[1] /\ v[2] = w[2] /\ v[3] = w[3]
      BY <2>1
    <3>2. \A k \in 1 .. 3 : k = 1 \/ k = 2 \/ k = 3
      OBVIOUS
    <3> QED
      BY <1>3, <3>1, <3>2
  <2> QED
    BY <2>1, <2>2, <2>3
<1> QED
  BY <1>1, <1>2, <1>4, <1>5

LEMMA BelowNextMinor ==
    ASSUME NEW v \in Versions, NEW at \in Versions, ~Earlier(v, at),
           Satisfies(v, <<"<", <<at[1], at[2] + 1, 0, 1>>>>)
    PROVE  v[1] = at[1] /\ v[2] = at[2]
<1> DEFINE w == <<at[1], at[2] + 1, 0, 1>>
<1>1. /\ v[1] \in Nat /\ v[2] \in Nat /\ v[3] \in Nat /\ v[4] \in {0, 1}
      /\ at[1] \in Nat /\ at[2] \in Nat
  BY DEF Versions
<1>2. w[1] = at[1] /\ w[2] = at[2] + 1 /\ w[3] = 0 /\ w[4] = 1
  OBVIOUS
<1> HIDE DEF w
<1>3. Earlier(v, w) /\ \E i \in 1 .. 3 : v[i] # w[i]
  BY DEF Satisfies, w
<1>4. ~ (v[1] < at[1])
  <2>1. v[1] < at[1] => Earlier(v, at)
    BY DEF Earlier
  <2> QED
    BY <2>1
<1>5. v[1] = at[1] => ~ (v[2] < at[2])
  <2>1. v[1] = at[1] /\ v[2] < at[2] => Earlier(v, at)
    <3>1. \A j \in 1 .. 2 - 1 : j = 1
      OBVIOUS
    <3> QED
      BY <3>1 DEF Earlier
  <2> QED
    BY <2>1
<1>6. v[1] < w[1] \/ (v[1] = w[1] /\ v[2] < w[2])
  <2>1. PICK i \in 1 .. 4 : v[i] < w[i] /\ \A j \in 1 .. i - 1 : v[j] = w[j]
    BY <1>3 DEF Earlier
  <2>2. i # 3
    BY <1>1, <1>2, <2>1
  <2>3. i # 4
    <3>1. i = 4 => v[1] = w[1] /\ v[2] = w[2] /\ v[3] = w[3]
      BY <2>1
    <3>2. \A k \in 1 .. 3 : k = 1 \/ k = 2 \/ k = 3
      OBVIOUS
    <3> QED
      BY <1>3, <3>1, <3>2
  <2> QED
    BY <2>1, <2>2, <2>3
<1> QED
  BY <1>1, <1>2, <1>4, <1>5, <1>6

\* A manifest nothing is wrong with is what it should be, said without a conversion.
LEMMA NoComplaint ==
    ASSUME NEW m \in Manifests, Complaint(m) = Absent
    PROVE  /\ m.well_formed /\ ~ (m.observe_only /\ m.may_short_circuit)
           /\ Admits(m.protocol_version, HostVersion)
<1> DEFINE range == m.protocol_version
           v == HostVersion
<1>1. Absent \notin Complaints /\ v \in Versions
  BY LoaderAssumption
<1>2. m.well_formed /\ check_protocol_version(m) = Absent /\ ~ (m.observe_only /\ m.may_short_circuit)
  BY <1>1 DEF Complaint, Complaints, validate_manifest, assert_capability_orthogonality
<1>3. \A c \in parse_version_range(range) : Satisfies(v, c)
  BY <1>1, <1>2 DEF check_protocol_version, Complaints
<1>4. parse_version_range(range) # Absent
  BY <1>1, <1>2 DEF check_protocol_version, Complaints
<1>5. range \in VersionRanges
  BY DEF Manifests
<1> HIDE DEF range, v
<1>6. CASE range.form = "pep440"
  <2>1. parse_version_range(range) = range.clauses
    BY <1>6 DEF parse_version_range
  <2> QED
    BY <1>2, <1>3, <1>6, <2>1 DEF Admits, range, v
<1>7. CASE range.form # "pep440"
  <2>1. range.at \in Versions
    BY <1>5, <1>7 DEF VersionRanges
  <2>2. range.form \in NpmForms /\ parse_version_range(range) = _normalize_npm_caret(range)
    BY <1>4, <1>7 DEF parse_version_range
  <2>3. CASE range.form = "*"
    BY <1>2, <2>3 DEF Admits, range, v
  <2>4. CASE range.form = "^"
    <3>1. _normalize_npm_caret(range) =
              {<<">=", range.at>>, <<"<", <<range.at[1] + 1, 0, 0, 1>>>>}
      BY <2>4 DEF _normalize_npm_caret
    <3>2. Satisfies(v, <<">=", range.at>>) /\ Satisfies(v, <<"<", <<range.at[1] + 1, 0, 0, 1>>>>)
      BY <1>3, <2>2, <3>1
    <3>3. ~Earlier(v, range.at)
      BY <3>2 DEF Satisfies
    <3>4. v[1] = range.at[1]
      BY <1>1, <2>1, <3>2, <3>3, BelowNextMajor
    <3>5. Admits(range, v) <=> (\A i \in 1 .. 1 : v[i] = range.at[i]) /\ ~Earlier(v, range.at)
      BY <2>4 DEF Admits
    <3> QED
      BY <1>2, <3>3, <3>4, <3>5 DEF range, v
  <2>5. CASE range.form = "~"
    <3>1. _normalize_npm_caret(range) =
              {<<">=", range.at>>, <<"<", <<range.at[1], range.at[2] + 1, 0, 1>>>>}
      BY <2>5 DEF _normalize_npm_caret
    <3>2. /\ Satisfies(v, <<">=", range.at>>)
          /\ Satisfies(v, <<"<", <<range.at[1], range.at[2] + 1, 0, 1>>>>)
      BY <1>3, <2>2, <3>1
    <3>3. ~Earlier(v, range.at)
      BY <3>2 DEF Satisfies
    <3>4. v[1] = range.at[1] /\ v[2] = range.at[2]
      BY <1>1, <2>1, <3>2, <3>3, BelowNextMinor
    <3>5. Admits(range, v) <=> (\A i \in 1 .. 2 : v[i] = range.at[i]) /\ ~Earlier(v, range.at)
      BY <2>5 DEF Admits
    <3>6. \A i \in 1 .. 2 : i = 1 \/ i = 2
      OBVIOUS
    <3> QED
      BY <1>2, <3>3, <3>4, <3>5, <3>6 DEF range, v
  <2>6. CASE range.form = "pin"
    <3>1. _normalize_npm_caret(range) = {<<"==", range.at>>}
      BY <2>6 DEF _normalize_npm_caret
    <3>2. Satisfies(v, <<"==", range.at>>)
      BY <1>3, <2>2, <3>1
    <3>3. v = range.at
      BY <3>2 DEF Satisfies
    <3>4. Admits(range, v) <=> (\A i \in 1 .. 4 : v[i] = range.at[i])
      BY <2>6 DEF Admits
    <3> QED
      BY <1>2, <3>3, <3>4 DEF range, v
  <2> QED
    BY <2>2, <2>3, <2>4, <2>5, <2>6 DEF NpmForms
<1> QED
  BY <1>6, <1>7

-----------------------------------------------------------------------------
(* PluginLoader: the invariant.                                            *)

LoadErrors ==
    Complaints \cup {"PluginNotAllowed", "PluginNotFound", "ImportError",
                    "PluginOrderingCycle", "PluginRequirementUnmet"}

LoaderType ==
    [pc : {"idle", "scan", "register"}, call : {Absent} \cup Call,
     left : SUBSET (DOMAIN site), found : UNION {[ids -> DOMAIN site] : ids \in SUBSET Nat},
     pending : Seq(Nat), factories : SUBSET Nat, loaded : SUBSET Nat,
     order : {Absent} \cup Seq(Nat), under : {Absent} \cup Call,
     error : {Absent} \cup LoadErrors, loads : Nat]

LoaderTyped == site \in Sites /\ loader \in LoaderType

\* What is found has passed the checks and goes by its own id.
FoundOK ==
    /\ IsFiniteSet(DOMAIN loader.found)
    /\ \A id \in DOMAIN loader.found :
           Manifest(loader.found[id]).id = id /\ Complaint(Manifest(loader.found[id])) = Absent

\* A call that has got past its first check.
CallOK ==
    /\ loader.call \in Call
    /\ Production => loader.call.allowlist # Absent

\* All that is to be loaded has an order and finds what it requires.
ResolvedOK ==
    LET order == _toposort_plugins(ToLoad)
    IN  /\ Len(order) = Cardinality(DOMAIN ToLoad)
        /\ \A id \in DOMAIN ToLoad : ToLoad[id].requires \subseteq Provided(ToLoad)

RegisteredOK == Range(_toposort_plugins(ToLoad)) \subseteq loader.factories \cup Range(loader.pending)

FrozenOK ==
    /\ loader.order = _toposort_plugins(ToLoad)
    /\ loader.under = loader.call
    /\ Range(loader.order) \subseteq loader.factories

LoaderInv ==
    /\ LoaderTyped
    /\ FoundOK
    /\ loader.pc # "idle" => CallOK /\ loader.error = Absent
    /\ loader.pc = "register" => ResolvedOK /\ RegisteredOK
    /\ loader.pc = "idle" /\ loader.order \notin {Absent, <<>>} /\ loader.error = Absent =>
           CallOK /\ ResolvedOK /\ FrozenOK
    /\ loader.error = "PluginOrderingCycle" => Extensions(ToLoad) = {}

LEMMA ManifestsTyped ==
    ASSUME site \in Sites
    PROVE  \A name \in DOMAIN site : Manifest(name) \in Manifests
<1>1. PICK names \in SUBSET Nat : site \in [names -> [manifest : Manifests, imports : BOOLEAN]]
  BY DEF Sites
<1> QED
  BY <1>1 DEF Manifest

\* What is to be loaded are finitely many numbers.
LEMMA ToLoadIs ==
    ASSUME LoaderTyped, FoundOK
    PROVE  /\ DOMAIN ToLoad \in SUBSET Nat /\ IsFiniteSet(DOMAIN ToLoad)
           /\ DOMAIN ToLoad \subseteq DOMAIN loader.found
           /\ \A id \in DOMAIN ToLoad :
                  /\ ToLoad[id] = Found[id] /\ ToLoad[id] \in Manifests
                  /\ Complaint(ToLoad[id]) = Absent
                  /\ \/ loader.call.allowlist = Absent
                     \/ id \in loader.call.allowlist
                     \/ ~Production
<1>1. /\ loader.found \in UNION {[ids -> DOMAIN site] : ids \in SUBSET Nat}
      /\ \A name \in DOMAIN site : Manifest(name) \in Manifests
  BY ManifestsTyped DEF LoaderTyped, LoaderType
<1>2. DOMAIN loader.found \in SUBSET Nat /\ \A id \in DOMAIN loader.found : loader.found[id] \in DOMAIN site
  BY <1>1
<1>3. DOMAIN Found = DOMAIN loader.found /\ \A id \in DOMAIN Found : Found[id] = Manifest(loader.found[id])
  BY DEF Found
<1>4. /\ DOMAIN ToLoad \subseteq DOMAIN Found
      /\ \A id \in DOMAIN ToLoad :
             /\ ToLoad[id] = Found[id]
             /\ \/ loader.call.allowlist = Absent
                \/ id \in loader.call.allowlist
                \/ ~Production
  BY DEF ToLoad
<1>5. IsFiniteSet(DOMAIN ToLoad)
  BY <1>3, <1>4, FS_Subset DEF FoundOK
<1> QED
  BY <1>1, <1>2, <1>3, <1>4, <1>5 DEF FoundOK

LEMMA ToposortTyped ==
    ASSUME LoaderTyped, FoundOK
    PROVE  _toposort_plugins(ToLoad) \in Seq(Nat)
<1>1. _toposort_plugins(ToLoad) \in Seq(DOMAIN ToLoad)
  BY ToLoadIs, ToposortIs DEF KahnOK, Placing
<1> QED
  BY <1>1, ToLoadIs

LEMMA ComplaintIs ==
    ASSUME NEW m
    PROVE  Complaint(m) \in {Absent} \cup Complaints
BY DEF Complaint, Complaints, validate_manifest, check_protocol_version,
       assert_capability_orthogonality

LEMMA LoaderInvInit == LoaderInit(Sites) => LoaderInv
<1> SUFFICES ASSUME LoaderInit(Sites) PROVE LoaderInv
  OBVIOUS
<1>1. <<>> \in [{} -> DOMAIN site] /\ DOMAIN <<>> = {} /\ <<>> \in Seq(Nat)
  OBVIOUS
<1>2. <<>> \in UNION {[ids -> DOMAIN site] : ids \in SUBSET Nat}
  BY <1>1
<1>3. LoaderTyped
  BY <1>1, <1>2 DEF LoaderInit, LoaderTyped, LoaderType
<1>4. FoundOK
  BY <1>1, FS_EmptySet DEF LoaderInit, FoundOK
<1>5. Absent # "PluginOrderingCycle"
  BY LoaderAssumption
<1> QED
  BY <1>3, <1>4, <1>5 DEF LoaderInit, LoaderInv

\* A step that leaves what is found and the call leaves what is to be loaded.
SameLoad == UNCHANGED site /\ loader'.found = loader.found /\ loader'.call = loader.call

LEMMA LoadKept ==
    ASSUME SameLoad
    PROVE  /\ ToLoad' = ToLoad /\ FoundOK' = FoundOK /\ CallOK' = CallOK
           /\ ResolvedOK' = ResolvedOK
<1>1. ToLoad' = ToLoad /\ FoundOK' = FoundOK /\ CallOK' = CallOK
  BY DEF SameLoad, ToLoad, Found, Manifest, Production, FoundOK, CallOK
<1>2. ResolvedOK' = ResolvedOK
  BY <1>1 DEF ResolvedOK
<1> QED
  BY <1>1, <1>2

\* An error other than a cycle ends a call.
LEMMA RaiseKeeps ==
    ASSUME LoaderInv, NEW error \in LoadErrors, Raise(error), UNCHANGED site,
           error = "PluginOrderingCycle" => Extensions(ToLoad) = {}
    PROVE  LoaderInv'
<1>1. loader' = [loader EXCEPT !.pc = "idle", !.error = error]
  BY DEF Raise
<1>2. LoaderTyped'
  BY <1>1 DEF LoaderInv, LoaderTyped, LoaderType
<1>3. SameLoad /\ loader'.pc = "idle" /\ loader'.error = error
  BY <1>1 DEF LoaderInv, LoaderTyped, LoaderType, SameLoad
<1>4. error # Absent
  BY LoaderAssumption DEF LoadErrors
<1> QED
  BY <1>2, <1>3, <1>4, LoadKept DEF LoaderInv

LEMMA LoadPluginsKeeps ==
    ASSUME LoaderInv, NEW call \in Call, LoadPlugins(call)
    PROVE  LoaderInv'
<1> DEFINE begun == [loader EXCEPT !.call = call, !.loads = @ + 1, !.error = Absent]
<1>1. site' = site /\ loader.pc = "idle" /\ LoaderTyped /\ FoundOK
  BY DEF LoadPlugins, LoaderInv
<1>2. Absent # "PluginOrderingCycle" /\ "PluginNotAllowed" # Absent
  BY LoaderAssumption
<1>3. /\ begun \in LoaderType /\ begun.pc = "idle" /\ begun.call = call
      /\ begun.found = loader.found /\ begun.error = Absent /\ LoaderType' = LoaderType
      /\ site' \in Sites /\ <<>> \in Seq(Nat)
  <2>1. LoaderType' = LoaderType /\ site' \in Sites
    BY <1>1 DEF LoaderTyped, LoaderType
  <2>2. loader.loads + 1 \in Nat
    BY <1>1 DEF LoaderTyped, LoaderType
  <2>3. begun = [loader EXCEPT !.call = call, !.loads = loader.loads + 1, !.error = Absent]
    BY <1>1 DEF LoaderTyped, LoaderType
  <2> HIDE DEF begun
  <2>4. begun \in LoaderType
    BY <1>1, <2>2, <2>3 DEF LoaderTyped, LoaderType
  <2>5. /\ begun.pc = "idle" /\ begun.call = call /\ begun.found = loader.found
        /\ begun.error = Absent
    BY <1>1, <2>3 DEF LoaderTyped, LoaderType
  <2> QED
    BY <2>1, <2>4, <2>5
<1>4. \/ loader' = [begun EXCEPT !.order = <<>>, !.under = call]
      \/ loader' = [begun EXCEPT !.error = "PluginNotAllowed"]
      \/ /\ ~ (call.env = "production" /\ call.allowlist \in {Absent, {}})
         /\ loader' = [begun EXCEPT !.pc = "scan", !.left = DOMAIN site, !.found = <<>>]
  BY DEF LoadPlugins
<1> HIDE DEF begun
<1>5. CASE loader' = [begun EXCEPT !.order = <<>>, !.under = call]
  <2>1. LoaderTyped'
    BY <1>3, <1>5 DEF LoaderTyped, LoaderType
  <2>2. /\ loader'.found = loader.found /\ loader'.pc = "idle" /\ loader'.order = <<>>
        /\ loader'.error = Absent
    BY <1>3, <1>5 DEF LoaderTyped, LoaderType
  <2>3. FoundOK'
    BY <1>1, <2>2 DEF FoundOK, Manifest
  <2> QED
    BY <1>2, <2>1, <2>2, <2>3 DEF LoaderInv
<1>6. CASE loader' = [begun EXCEPT !.error = "PluginNotAllowed"]
  <2>1. LoaderTyped'
    BY <1>3, <1>6 DEF LoaderTyped, LoaderType, LoadErrors
  <2>2. /\ loader'.found = loader.found /\ loader'.pc = "idle"
        /\ loader'.error = "PluginNotAllowed"
    BY <1>3, <1>6 DEF LoaderTyped, LoaderType
  <2>3. FoundOK'
    BY <1>1, <2>2 DEF FoundOK, Manifest
  <2> QED
    BY <1>2, <2>1, <2>2, <2>3 DEF LoaderInv
<1>7. CASE /\ ~ (call.env = "production" /\ call.allowlist \in {Absent, {}})
           /\ loader' = [begun EXCEPT !.pc = "scan", !.left = DOMAIN site, !.found = <<>>]
  <2>1. <<>> \in [{} -> DOMAIN site] /\ DOMAIN <<>> = {}
    OBVIOUS
  <2>2. <<>> \in UNION {[ids -> DOMAIN site] : ids \in SUBSET Nat}
    BY <2>1
  <2>3. LoaderTyped'
    BY <1>3, <1>7, <2>2 DEF LoaderTyped, LoaderType
  <2>4. /\ loader'.found = <<>> /\ loader'.pc = "scan" /\ loader'.call = call
        /\ loader'.error = Absent
    BY <1>3, <1>7 DEF LoaderTyped, LoaderType
  <2>5. FoundOK'
    BY <2>1, <2>4, FS_EmptySet DEF FoundOK
  <2>6. CallOK'
    BY <1>7, <2>4 DEF CallOK, Production
  <2> QED
    BY <1>2, <2>3, <2>4, <2>5, <2>6 DEF LoaderInv
<1> QED
  BY <1>5, <1>6, <1>7, <1>4

LEMMA ScanKeeps ==
    ASSUME LoaderInv, Scan
    PROVE  LoaderInv'
<1>1. /\ site' = site /\ loader.pc = "scan" /\ LoaderTyped /\ FoundOK /\ CallOK
      /\ loader.error = Absent
  BY DEF Scan, LoaderInv
<1>2. Absent # "PluginOrderingCycle" /\ "PluginOrderingCycle" \notin Complaints
  BY LoaderAssumption DEF Complaints
<1>3. PICK name \in loader.left :
          \/ loader' = [loader EXCEPT !.left = @ \ {name}]
          \/ Complaint(Manifest(name)) # Absent /\ Raise(Complaint(Manifest(name)))
          \/ /\ Complaint(Manifest(name)) = Absent
             /\ loader' = [loader EXCEPT !.left = @ \ {name}, !.found = Claimed(@, name)]
  BY DEF Scan
<1>4. CASE loader' = [loader EXCEPT !.left = @ \ {name}]
  <2>1. LoaderTyped'
    BY <1>1, <1>4 DEF LoaderTyped, LoaderType
  <2>2. SameLoad /\ loader'.pc = "scan" /\ loader'.error = Absent
    BY <1>1, <1>4 DEF SameLoad, LoaderTyped, LoaderType
  <2> QED
    BY <1>1, <1>2, <2>1, <2>2, LoadKept DEF LoaderInv
<1>5. CASE Complaint(Manifest(name)) # Absent /\ Raise(Complaint(Manifest(name)))
  <2>1. Complaint(Manifest(name)) \in Complaints
    BY <1>5, ComplaintIs
  <2> QED
    BY <1>1, <1>2, <1>5, <2>1, RaiseKeeps DEF LoadErrors
<1>6. CASE /\ Complaint(Manifest(name)) = Absent
           /\ loader' = [loader EXCEPT !.left = @ \ {name}, !.found = Claimed(@, name)]
  <2> DEFINE id == Manifest(name).id
             found == Claimed(loader.found, name)
  <2>1. name \in DOMAIN site /\ Manifest(name) \in Manifests
    BY <1>1, ManifestsTyped DEF LoaderTyped, LoaderType
  <2>2. id \in Nat
    BY <2>1 DEF Manifests
  <2>3. PICK ids \in SUBSET Nat : loader.found \in [ids -> DOMAIN site]
    BY <1>1 DEF LoaderTyped, LoaderType
  <2>4. /\ DOMAIN found = ids \cup {id} /\ found[id] = name
        /\ \A other \in ids : other # id => found[other] = loader.found[other]
    BY <2>3 DEF Claimed
  <2>5. found \in [ids \cup {id} -> DOMAIN site]
    BY <2>1, <2>3 DEF Claimed
  <2>6. found \in UNION {[is -> DOMAIN site] : is \in SUBSET Nat}
    BY <2>2, <2>5
  <2> HIDE DEF id, found
  <2>7. loader' = [loader EXCEPT !.left = @ \ {name}, !.found = found]
    BY <1>6 DEF found
  <2>8. LoaderTyped'
    BY <1>1, <2>6, <2>7 DEF LoaderTyped, LoaderType
  <2>9. /\ loader'.found = found /\ loader'.call = loader.call /\ loader'.pc = "scan"
        /\ loader'.error = Absent
    BY <1>1, <2>7 DEF LoaderTyped, LoaderType
  <2>10. FoundOK'
    <3>1. IsFiniteSet(ids \cup {id})
      BY <1>1, <2>3, FS_AddElement DEF FoundOK
    <3>2. ASSUME NEW other \in ids \cup {id}
          PROVE  Manifest(found[other]).id = other /\ Complaint(Manifest(found[other])) = Absent
      <4>1. CASE other = id
        BY <1>6, <2>4, <4>1 DEF id
      <4>2. CASE other # id
        BY <1>1, <2>3, <2>4, <3>2, <4>2 DEF FoundOK
      <4> QED
        BY <4>1, <4>2
    <3>3. \A n : Manifest(n)' = Manifest(n)
      BY <1>1 DEF Manifest
    <3> QED
      BY <2>4, <2>9, <3>1, <3>2, <3>3 DEF FoundOK
  <2>11. CallOK'
    BY <1>1, <2>9 DEF CallOK, Production
  <2> QED
    BY <1>2, <2>8, <2>9, <2>10, <2>11 DEF LoaderInv
<1> QED
  BY <1>3, <1>4, <1>5, <1>6

LEMMA ResolveKeeps ==
    ASSUME LoaderInv, Resolve
    PROVE  LoaderInv'
<1> DEFINE order == _toposort_plugins(ToLoad)
<1>1. /\ site' = site /\ loader.pc = "scan" /\ LoaderTyped /\ FoundOK /\ CallOK
      /\ loader.error = Absent
  BY DEF Resolve, LoaderInv
<1>2. \/ Raise("PluginNotFound")
      \/ Len(order) # Cardinality(DOMAIN ToLoad) /\ Raise("PluginOrderingCycle")
      \/ Raise("PluginRequirementUnmet")
      \/ ResolvedOK /\ loader' = [loader EXCEPT !.pc = "register", !.pending = order]
  BY DEF Resolve, ResolvedOK
<1>3. CASE Raise("PluginNotFound")
  <2>1. "PluginNotFound" \in LoadErrors
    BY DEF LoadErrors
  <2> QED
    BY <1>1, <1>3, <2>1, RaiseKeeps
<1>4. CASE Len(order) # Cardinality(DOMAIN ToLoad) /\ Raise("PluginOrderingCycle")
  <2>1. Extensions(ToLoad) = {}
    BY <1>1, <1>4, ToLoadIs, ToposortFinds
  <2>2. "PluginOrderingCycle" \in LoadErrors
    BY DEF LoadErrors
  <2> QED
    BY <1>1, <1>4, <2>1, <2>2, RaiseKeeps
<1>5. CASE Raise("PluginRequirementUnmet")
  <2>1. "PluginRequirementUnmet" \in LoadErrors
    BY DEF LoadErrors
  <2> QED
    BY <1>1, <1>5, <2>1, RaiseKeeps
<1>6. CASE ResolvedOK /\ loader' = [loader EXCEPT !.pc = "register", !.pending = order]
  <2>1. order \in Seq(Nat)
    BY <1>1, ToposortTyped
  <2> HIDE DEF order
  <2>2. LoaderTyped'
    BY <1>1, <1>6, <2>1 DEF LoaderTyped, LoaderType
  <2>3. /\ SameLoad /\ loader'.pc = "register" /\ loader'.error = Absent
        /\ loader'.pending = order
    BY <1>1, <1>6 DEF LoaderTyped, LoaderType, SameLoad
  <2>4. RegisteredOK'
    BY <2>3, LoadKept DEF RegisteredOK, order
  <2>5. Absent # "PluginOrderingCycle"
    BY LoaderAssumption
  <2> QED
    BY <1>1, <1>6, <2>2, <2>3, <2>4, <2>5, LoadKept DEF LoaderInv
<1> QED
  BY <1>2, <1>3, <1>4, <1>5, <1>6

LEMMA RegisterKeeps ==
    ASSUME LoaderInv, Register
    PROVE  LoaderInv'
<1>1. /\ site' = site /\ loader.pc = "register" /\ LoaderTyped /\ FoundOK /\ CallOK
      /\ ResolvedOK /\ RegisteredOK /\ loader.error = Absent /\ loader.pending # <<>>
  BY DEF Register, LoaderInv
<1>2. CASE Raise("ImportError")
  <2>1. "ImportError" \in LoadErrors
    BY DEF LoadErrors
  <2> QED
    BY <1>1, <1>2, <2>1, RaiseKeeps
<1>3. CASE loader' = [loader EXCEPT !.factories = @ \cup {Head(loader.pending)},
                                    !.pending = Tail(@)]
  <2> DEFINE q == loader.pending
  <2>1. /\ q \in Seq(Nat) /\ q # <<>>
    BY <1>1 DEF LoaderTyped, LoaderType
  <2> HIDE DEF q
  <2>2. Head(q) \in Nat /\ Tail(q) \in Seq(Nat) /\ Range(q) \subseteq Range(Tail(q)) \cup {Head(q)}
    <3>1. /\ Head(q) = q[1] /\ Head(q) \in Nat /\ Tail(q) \in Seq(Nat) /\ Len(q) \in Nat \ {0}
          /\ DOMAIN q = 1 .. Len(q)
          /\ DOMAIN Tail(q) = 1 .. Len(q) - 1 /\ \A i \in 1 .. Len(q) - 1 : Tail(q)[i] = q[i + 1]
      BY <2>1, HeadTailProperties
    <3>2. ASSUME NEW i \in DOMAIN q, i # 1
          PROVE  q[i] \in Range(Tail(q))
      <4>1. i - 1 \in DOMAIN Tail(q) /\ Tail(q)[i - 1] = q[i]
        BY <3>1, <3>2
      <4> QED
        BY <4>1 DEF Range
    <3> QED
      BY <3>1, <3>2 DEF Range
  <2>3. loader' = [loader EXCEPT !.factories = @ \cup {Head(q)}, !.pending = Tail(q)]
    BY <1>3 DEF q
  <2>4. LoaderTyped'
    BY <1>1, <2>2, <2>3 DEF LoaderTyped, LoaderType
  <2>5. /\ SameLoad /\ loader'.pc = "register" /\ loader'.error = Absent
        /\ loader'.pending = Tail(q) /\ loader'.factories = loader.factories \cup {Head(q)}
    BY <1>1, <2>3 DEF LoaderTyped, LoaderType, SameLoad
  <2>6. RegisteredOK'
    BY <1>1, <2>2, <2>5, LoadKept DEF RegisteredOK, q
  <2>7. Absent # "PluginOrderingCycle"
    BY LoaderAssumption
  <2> QED
    BY <1>1, <2>4, <2>5, <2>6, <2>7, LoadKept DEF LoaderInv
<1> QED
  BY <1>2, <1>3 DEF Register

LEMMA FreezeKeeps ==
    ASSUME LoaderInv, Freeze
    PROVE  LoaderInv'
<1> DEFINE order == _toposort_plugins(ToLoad)
           loaded == DOMAIN ToLoad
<1>1. /\ site' = site /\ loader.pc = "register" /\ LoaderTyped /\ FoundOK /\ CallOK
      /\ ResolvedOK /\ RegisteredOK /\ loader.error = Absent /\ loader.pending = <<>>
  BY DEF Freeze, LoaderInv
<1>2. order \in Seq(Nat) /\ loaded \in SUBSET Nat
  BY <1>1, ToposortTyped, ToLoadIs
<1>3. loader' = [loader EXCEPT !.pc = "idle", !.loaded = loaded, !.order = order,
                               !.under = loader.call]
  BY DEF Freeze
<1>4. Range(order) \subseteq loader.factories
  BY <1>1 DEF RegisteredOK, Range
<1> HIDE DEF order, loaded
<1>5. LoaderTyped'
  BY <1>1, <1>2, <1>3 DEF LoaderTyped, LoaderType, CallOK
<1>6. /\ SameLoad /\ loader'.pc = "idle" /\ loader'.error = Absent /\ loader'.order = order
      /\ loader'.under = loader.call /\ loader'.factories = loader.factories
  BY <1>1, <1>3 DEF LoaderTyped, LoaderType, SameLoad
<1>7. FrozenOK'
  BY <1>4, <1>6, LoadKept DEF FrozenOK, SameLoad, order
<1>8. Absent # "PluginOrderingCycle"
  BY LoaderAssumption
<1> QED
  BY <1>1, <1>5, <1>6, <1>7, <1>8, LoadKept DEF LoaderInv

LEMMA LoaderInvStep == LoaderInv /\ [LoaderStep(Call)]_loaderVars => LoaderInv'
<1> SUFFICES ASSUME LoaderInv, [LoaderStep(Call)]_loaderVars PROVE LoaderInv'
  OBVIOUS
<1>1. CASE UNCHANGED loaderVars
  <2>1. SameLoad /\ loader' = loader
    BY <1>1 DEF loaderVars, SameLoad
  <2>2. LoaderTyped' = LoaderTyped /\ RegisteredOK' = RegisteredOK /\ FrozenOK' = FrozenOK
    BY <2>1, LoadKept DEF SameLoad, LoaderTyped, LoaderType, RegisteredOK, FrozenOK
  <2> QED
    BY <2>1, <2>2, LoadKept DEF LoaderInv
<1>2. CASE \E call \in Call : LoadPlugins(call)
  BY <1>2, LoadPluginsKeeps
<1>3. CASE Scan
  BY <1>3, ScanKeeps
<1>4. CASE Resolve
  BY <1>4, ResolveKeeps
<1>5. CASE Register
  BY <1>5, RegisterKeeps
<1>6. CASE Freeze
  BY <1>6, FreezeKeeps
<1> QED
  BY <1>1, <1>2, <1>3, <1>4, <1>5, <1>6 DEF LoaderStep

LEMMA LoaderInvOrders == LoaderInv => OrderIsCanonical
<1> SUFFICES ASSUME LoaderInv PROVE OrderIsCanonical
  OBVIOUS
<1> DEFINE order == loader.order
           M == [id \in DOMAIN Found \cap Range(order) |-> Found[id]]
<1>1. loader.error = "PluginOrderingCycle" => Extensions(ToLoad) = {}
  BY DEF LoaderInv
<1>2. ASSUME loader.pc = "idle", order \notin {Absent, <<>>}, loader.error = Absent
      PROVE  /\ DOMAIN M = Range(order)
             /\ order \in Extensions(M)
             /\ \A s \in Extensions(M) : Alphabetical(order, s)
             /\ Range(order) \subseteq loader.factories
             /\ loader.under.env = "production" => Range(order) \subseteq loader.under.allowlist
             /\ \A id \in Range(order) :
                   /\ M[id].well_formed
                   /\ Admits(M[id].protocol_version, HostVersion)
                   /\ ~(M[id].observe_only /\ M[id].may_short_circuit)
                   /\ M[id].requires \subseteq Provided(M)
             /\ \A names \in SUBSET Range(order) :
                   assemble(names) \in Extensions([id \in names |-> M[id]])
  <2>1. LoaderTyped /\ FoundOK /\ CallOK /\ ResolvedOK /\ FrozenOK
    BY <1>2 DEF LoaderInv
  <2>2. /\ DOMAIN ToLoad \in SUBSET Nat /\ IsFiniteSet(DOMAIN ToLoad)
        /\ DOMAIN ToLoad \subseteq DOMAIN Found
        /\ \A id \in DOMAIN ToLoad :
               /\ ToLoad[id] = Found[id] /\ ToLoad[id] \in Manifests
               /\ Complaint(ToLoad[id]) = Absent
               /\ \/ loader.call.allowlist = Absent
                  \/ id \in loader.call.allowlist
                  \/ ~Production
    BY <2>1, ToLoadIs DEF Found
  <2>3. order \in Extensions(ToLoad) /\ \A s \in Extensions(ToLoad) : Alphabetical(order, s)
    BY <2>1, <2>2, ToposortFinds DEF ResolvedOK, FrozenOK
  <2>4. /\ Linear(order, ToLoad) /\ Cardinality(DOMAIN ToLoad) \in Nat
        /\ DOMAIN order = 1 .. Cardinality(DOMAIN ToLoad) /\ Range(order) = DOMAIN ToLoad
    BY <2>2, <2>3, ExtensionIsLinear
  <2> HIDE DEF order
  <2>5. M = ToLoad
    <3>1. ToLoad = [id \in DOMAIN ToLoad |-> ToLoad[id]]
      BY DEF ToLoad
    <3>2. DOMAIN Found \cap Range(order) = DOMAIN ToLoad
      BY <2>2, <2>4
    <3>3. \A id \in DOMAIN ToLoad : ToLoad[id] = Found[id]
      BY <2>2
    <3> QED
      BY <3>1, <3>2, <3>3
  <2> HIDE DEF M
  <2>6. Range(order) \subseteq loader.factories
    BY <2>1 DEF FrozenOK, order
  <2>7. loader.under.env = "production" => Range(order) \subseteq loader.under.allowlist
    BY <2>1, <2>2, <2>4 DEF FrozenOK, CallOK, Production
  <2>8. ASSUME NEW id \in Range(order)
        PROVE  /\ M[id].well_formed
               /\ Admits(M[id].protocol_version, HostVersion)
               /\ ~(M[id].observe_only /\ M[id].may_short_circuit)
               /\ M[id].requires \subseteq Provided(M)
    BY <2>1, <2>2, <2>4, <2>5, NoComplaint DEF ResolvedOK
  <2>9. ASSUME NEW names \in SUBSET Range(order)
        PROVE  assemble(names) \in Extensions([id \in names |-> M[id]])
    <3> DEFINE part == [id \in names |-> M[id]]
    <3>1. names \cap loader.factories = names
      BY <2>6
    <3>2. \A id \in names : M[id] = Found[id]
      BY <2>2, <2>4, <2>5
    <3>3. [id \in names \cap loader.factories |-> Found[id]] = part
      BY <3>1, <3>2
    <3>4. assemble(names) = _topological_sort(part)
      BY <3>3 DEF assemble
    <3>5. DOMAIN part = names /\ \A id \in names : part[id] = ToLoad[id] /\ id \in DOMAIN ToLoad
      BY <2>4, <2>5
    <3> HIDE DEF part
    <3>6. Constraints(part) \subseteq Constraints(ToLoad)
      BY <3>5 DEF Constraints
    <3>7. Linear(order, part)
      BY <2>4, <3>5, <3>6 DEF Linear
    <3>8. DOMAIN part \in SUBSET Nat /\ IsFiniteSet(DOMAIN part)
      BY <2>2, <3>5, FS_Subset
    <3>9. _topological_sort(part) \in Extensions(part)
      BY <2>4, <3>7, <3>8, TopologicalSortFinds
    <3> QED
      BY <3>4, <3>9 DEF part
  <2> QED
    BY <2>3, <2>4, <2>5, <2>6, <2>7, <2>8, <2>9
<1> QED
  BY <1>1, <1>2 DEF OrderIsCanonical

\* The order load_plugins() freezes is the alphabetically first the constraints allow, of
\* plugins that are allowed, admit the host's version, contradict nothing, find what they
\* require and are registered; assemble() respects the same constraints; and a cycle is
\* reported only when there is no order: for any plugins, any calls of load_plugins() and
\* any order in which the environment lists the entry points (core/middleware/registry.py).
THEOREM OrderIsCanonicalAlways == LoaderSpec => []OrderIsCanonical
<1>1. LoaderInit(Sites) => LoaderInv
  BY LoaderInvInit
<1>2. LoaderInv /\ [LoaderStep(Call)]_loaderVars => LoaderInv'
  BY LoaderInvStep
<1>3. LoaderInv => OrderIsCanonical
  BY LoaderInvOrders
<1> QED
  BY <1>1, <1>2, <1>3, PTL DEF LoaderSpec

=============================================================================
