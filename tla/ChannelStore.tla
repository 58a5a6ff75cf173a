---------------------------- MODULE ChannelStore ----------------------------
(***************************************************************************)
(* What a conforming BackingStore promises its callers, reduced to the     *)
(* part every other component builds on: each channel is a numbered log,   *)
(* and each agent consumes each log from the front, once.                  *)
(*                                                                         *)
(*   head[c]     the number of messages ever accepted on channel c; they   *)
(*               carry the sequence numbers 1 .. head[c];                  *)
(*   seen[a][c]  the sequence numbers of c that are settled for agent a:   *)
(*               recv never hands them to a again;                         *)
(*   got[a][c]   the sequence numbers of c that recv did hand to a (the    *)
(*               others in seen were dropped by an unsubscribe).           *)
(***************************************************************************)
EXTENDS Naturals

CONSTANTS Agents, Channels

VARIABLES head, seen, got

vars == <<head, seen, got>>

-----------------------------------------------------------------------------

\* A set of sequence numbers with no hole below any of its members: a cursor.
IsCursor(S) == \A n \in S : \A m \in 1 .. n : m \in S

TypeOK ==
    /\ head \in [Channels -> Nat]
    /\ seen \in [Agents -> [Channels -> SUBSET Nat]]
    /\ got \in [Agents -> [Channels -> SUBSET Nat]]

Init ==
    /\ head = [c \in Channels |-> 0]
    /\ seen = [a \in Agents |-> [c \in Channels |-> {}]]
    /\ got = [a \in Agents |-> [c \in Channels |-> {}]]

\* A message is accepted on c under the next sequence number of c.
Append(c) ==
    /\ head' = [head EXCEPT ![c] = @ + 1]
    /\ UNCHANGED <<seen, got>>

\* Agent a moves some of its cursors forward, never past the end of a log.
Advance(a) ==
    /\ seen' = [seen EXCEPT ![a] = seen'[a]]
    /\ \A c \in Channels :
          /\ seen[a][c] \subseteq seen'[a][c]
          /\ seen'[a][c] \subseteq 1 .. head[c]
          /\ IsCursor(seen'[a][c])
    /\ UNCHANGED head

\* recv: exactly what the cursors pass over is handed out.
Deliver(a) ==
    /\ Advance(a)
    /\ got' = [got EXCEPT ![a] =
                  [c \in Channels |-> got[a][c] \cup (seen'[a][c] \ seen[a][c])]]

\* unsubscribe: what the cursors pass over is dropped.
Discard(a) ==
    /\ Advance(a)
    /\ UNCHANGED got

Next ==
    \/ \E c \in Channels : Append(c)
    \/ \E a \in Agents : Deliver(a) \/ Discard(a)

Spec == Init /\ [][Next]_vars

=============================================================================
