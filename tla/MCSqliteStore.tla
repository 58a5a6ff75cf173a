---------------------------- MODULE MCSqliteStore ---------------------------
(* Small instances of SqliteStore for TLC: one server process with two       *)
(* coroutines, and two processes with one coroutine each.                    *)
EXTENDS SqliteStore

CONSTANTS p1, p2, t1, t2

MCRank == "chat" :> 1 @@ "ops" :> 2

MCOneProcess == t1 :> p1 @@ t2 :> p1

MCTwoProcesses == t1 :> p1 @@ t2 :> p2

=============================================================================
