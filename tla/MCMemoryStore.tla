---------------------------- MODULE MCMemoryStore ---------------------------
(* Small instances of MemoryStore for TLC.  MCMemoryStore_delivery.cfg has   *)
(* two ordinary channels and no groups, heartbeats or acks;                  *)
(* MCMemoryStore_control.cfg has the groups, heartbeats and acks and fewer   *)
(* messages.                                                                 *)
EXTENDS MemoryStore, TLC

MCRank == "chat" :> 1 @@ "group/g" :> 2 @@ "sox/presence" :> 3

\* The wildcard "*" matches every channel; the other patterns are exact names.
MCMatches == {m \in Channels \X Patterns : m[2] = "*" \/ m[1] = m[2]}

MCSymmetry == Permutations(Agents)
=============================================================================
