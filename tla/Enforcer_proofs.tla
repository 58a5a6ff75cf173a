--------------------------- MODULE Enforcer_proofs --------------------------
(***************************************************************************)
(* Proofs about Enforcer: whatever number of hook processes overlap, and   *)
(* wherever they die, the counters of the agent are exact, a reminder is   *)
(* late by at most the other hooks, and refused stops cost a message each. *)
(***************************************************************************)
EXTENDS Enforcer, FiniteSetTheorems, TLAPS

-----------------------------------------------------------------------------
(* The inductive invariant.                                                *)

Events == ToolEvents \cup {"stop_requested"}

Decisions == {"inject", "block", "noop"}

\* Where a hook can be, and what it remembers there.
HookState ==
    [at : {"idle", "inbox"}]
        \cup [at : {"heartbeat"}, event : ToolEvents]
        \cup [at : {"load"}, event : Events, inbox_non_empty : BOOLEAN]
        \cup [at : {"begin"}, event : Events, decision : Decisions]
        \cup [at : {"commit"}, event : Events, decision : Decisions, state : Row]

HookOK == hook \in [Hooks -> HookState]

\* The hook inside the transaction has read the row as it still is: nobody
\* changes the row between BEGIN IMMEDIATE and COMMIT of another hook.
ReadIsCurrent == \A h \in Hooks : At(h, "commit") => hook[h].state = row

Inv == TypeOK /\ HookOK /\ ReadIsCurrent /\ CountersAreExact

\* What only the counters and the write lock depend on.
Counters == <<row, writer, since>>

\* The parts of the type invariant that speak of the inbox and the bounds.
RestOK ==
    /\ sent \in 0 .. MaxMessages
    /\ pending \cup buffer \cup read \cup found \subseteq 1 .. sent
    /\ stopped \in BOOLEAN
    /\ calls \in 0 .. MaxCalls
    /\ faults \in 0 .. MaxFaults
    /\ blocks \in Nat
    /\ silent \in Nat

\* Nothing has run yet.
LEMMA InvInit == Init => Inv
<1> SUFFICES ASSUME Init
             PROVE  Inv
  OBVIOUS
<1>1. hook \in [Hooks -> HookState] /\ \A h \in Hooks : hook[h].at = "idle"
  BY DEF Init, Idle, HookState
<1>2. row \in Row /\ since \in Row /\ row = since
  BY DEF Init, NoCalls, Row
<1>3. RestOK
  <2>1. MaxMessages \in Nat /\ MaxCalls \in Nat /\ MaxFaults \in Nat
    BY EnforcerAssumption
  <2>2. /\ pending = {} /\ buffer = {} /\ read = {} /\ found = {}
        /\ sent = 0 /\ calls = 0 /\ faults = 0 /\ blocks = 0 /\ silent = 0
    BY DEF Init
  <2>3. stopped \in BOOLEAN
    BY DEF Init
  <2>4. pending \cup buffer \cup read \cup found \subseteq 1 .. sent
    BY <2>2
  <2> QED
    BY <2>1, <2>2, <2>3, <2>4 DEF RestOK
<1>4. \A h \in Hooks : writer # h
  BY EnforcerAssumption DEF Init
<1> QED
  BY <1>1, <1>2, <1>3, <1>4
     DEF Inv, TypeOK, RestOK, HookOK, ReadIsCurrent, CountersAreExact, At, Init

\* A step of one hook that leaves the counters and the lock alone, and neither
\* enters nor leaves the transaction, keeps the invariant.
LEMMA OutsideTransaction ==
    ASSUME Inv, NEW h \in Hooks, NEW state \in HookState,
           hook[h].at # "commit", state.at # "commit",
           Goto(h, state), UNCHANGED Counters, RestOK'
    PROVE  Inv'
<1>1. hook' = [hook EXCEPT ![h] = state]
  BY DEF Goto
<1>2. HookOK'
  BY <1>1 DEF Inv, HookOK
<1>3. \A g \in Hooks : At(g, "commit")' <=> At(g, "commit")
  BY <1>1 DEF Inv, HookOK, At
<1>4. \A g \in Hooks : At(g, "commit")' => hook'[g] = hook[g]
  BY <1>1 DEF Inv, HookOK, At
<1>5. row' = row /\ writer' = writer /\ since' = since
  BY DEF Counters
<1> QED
  BY <1>2, <1>3, <1>4, <1>5
     DEF Inv, TypeOK, RestOK, ReadIsCurrent, CountersAreExact

\* What the enforcer's inbox, bounds and histories hold stays within its kind.
LEMMA RestStep ==
    ASSUME Inv, [Next]_vars
    PROVE  RestOK'
<1>1. /\ sent \in 0 .. MaxMessages
      /\ pending \cup buffer \cup read \cup found \subseteq 1 .. sent
      /\ stopped \in BOOLEAN
      /\ calls \in 0 .. MaxCalls
      /\ faults \in 0 .. MaxFaults
      /\ blocks \in Nat
      /\ silent \in Nat
  BY DEF Inv, TypeOK
<1>2. MaxMessages \in Nat /\ MaxCalls \in Nat /\ MaxFaults \in Nat
  BY EnforcerAssumption
<1>3. ASSUME Enqueue
      PROVE  /\ sent' \in 0 .. MaxMessages
             /\ sent <= sent'
             /\ pending' \subseteq 1 .. sent'
  <2>1. sent < MaxMessages /\ sent' = sent + 1 /\ pending' = pending \cup {sent'}
    BY <1>3 DEF Enqueue
  <2> QED
    BY <1>1, <1>2, <2>1
<1>4. CASE PeerSend
  BY <1>1, <1>3, <1>4 DEF PeerSend, RestOK, history
<1>5. CASE Listen
  BY <1>1, <1>5 DEF Listen, RestOK, history
<1>6. CASE \E h \in Hooks, e \in ToolEvents : ToolCall(h, e)
  <2>1. PICK h \in Hooks, e \in ToolEvents : ToolCall(h, e)
    BY <1>6
  <2>2. calls' \in 0 .. MaxCalls
    BY <1>1, <1>2, <2>1 DEF ToolCall, Start
  <2>3. pending' \cup buffer' \cup read' \subseteq 1 .. sent
    BY <1>1, <2>1 DEF ToolCall
  <2> QED
    BY <1>1, <2>1, <2>2, <2>3 DEF ToolCall, RestOK
<1>7. CASE \E h \in Hooks : StopRequest(h)
  <2>1. PICK h \in Hooks : StopRequest(h)
    BY <1>7
  <2>2. calls' \in 0 .. MaxCalls
    BY <1>1, <1>2, <2>1 DEF StopRequest, Start
  <2> QED
    BY <1>1, <2>1, <2>2 DEF StopRequest, RestOK, history
<1>8. CASE \E h \in Hooks : AutoHeartbeat(h)
  BY <1>1, <1>3, <1>8 DEF AutoHeartbeat, RestOK, history
<1>9. CASE \E h \in Hooks : InboxNonEmpty(h) \/ InboxEmpty(h) \/ InboxError(h)
  <2>1. PICK h \in Hooks, taken \in SUBSET pending, flag \in BOOLEAN :
           InboxCheck(h, taken, flag)
    BY <1>9 DEF InboxNonEmpty, InboxEmpty, InboxError
  <2>2. pending' \subseteq pending /\ found' \subseteq found \cup pending
    BY <2>1 DEF InboxCheck
  <2> QED
    BY <1>1, <2>1, <2>2 DEF InboxCheck, RestOK
<1>10. CASE \E h \in Hooks : LoadAndDecide(h)
  BY <1>1, <1>10 DEF LoadAndDecide, RestOK, history
<1>11. CASE \E h \in Hooks : ApplyBegin(h)
  BY <1>1, <1>11 DEF ApplyBegin, RestOK, history
<1>12. CASE \E h \in Hooks : ApplyCommit(h)
  <2>1. PICK h \in Hooks : ApplyCommit(h)
    BY <1>12
  <2>2. stopped' \in BOOLEAN
    BY <2>1 DEF ApplyCommit
  <2>3. blocks' \in Nat /\ silent' \in Nat
    BY <1>1, <2>1 DEF ApplyCommit
  <2> QED
    BY <1>1, <2>1, <2>2, <2>3 DEF ApplyCommit, RestOK
<1>13. CASE \E h \in Hooks : Die(h)
  <2>1. PICK h \in Hooks : Die(h)
    BY <1>13
  <2>2. stopped' \in BOOLEAN
    BY <2>1 DEF Die
  <2>3. faults' \in 0 .. MaxFaults
    BY <1>1, <1>2, <2>1 DEF Die
  <2> QED
    BY <1>1, <2>1, <2>2, <2>3 DEF Die, RestOK, history
<1>14. CASE UNCHANGED vars
  BY <1>1, <1>14 DEF vars, RestOK
<1> QED
  BY <1>4, <1>5, <1>6, <1>7, <1>8, <1>9, <1>10, <1>11, <1>12, <1>13, <1>14
     DEF Next, Step

\* Every step keeps the counters exact.
LEMMA InvNext == Inv /\ [Next]_vars => Inv'
<1> SUFFICES ASSUME Inv, [Next]_vars
             PROVE  Inv'
  OBVIOUS
<1>1. RestOK'
  BY RestStep
<1>2. /\ hook \in [Hooks -> HookState]
      /\ row \in Row
      /\ row = since
      /\ writer \in Hooks \cup {None}
      /\ None \notin Hooks
      /\ \A h \in Hooks : (hook[h].at = "commit" <=> writer = h)
      /\ \A h \in Hooks : hook[h].at = "commit" => hook[h].state = row
  BY EnforcerAssumption
     DEF Inv, TypeOK, HookOK, ReadIsCurrent, CountersAreExact, At
<1>3. ASSUME NEW h \in Hooks
      PROVE  /\ hook[h].at \in {"idle", "inbox", "heartbeat", "load", "begin", "commit"}
             /\ hook[h].at = "heartbeat" => hook[h].event \in ToolEvents
             /\ hook[h].at = "load" => hook[h].event \in Events
             /\ hook[h].at \in {"begin", "commit"} =>
                   hook[h].event \in Events /\ hook[h].decision \in Decisions
  BY <1>2 DEF HookState
<1>4. ASSUME UNCHANGED <<row, writer, hook, since>>
      PROVE  Inv'
  BY <1>1, <1>4 DEF Inv, TypeOK, RestOK, HookOK, ReadIsCurrent, CountersAreExact, At
<1>5. CASE PeerSend \/ Listen
  BY <1>4, <1>5 DEF PeerSend, Listen, history
<1>6. CASE \E h \in Hooks, e \in ToolEvents : ToolCall(h, e)
  <2>1. PICK h \in Hooks, e \in ToolEvents : ToolCall(h, e)
    BY <1>6
  <2> DEFINE state == [at |-> "heartbeat", event |-> e]
  <2>2. Goto(h, state) /\ hook[h].at = "idle" /\ UNCHANGED Counters
    BY <2>1 DEF ToolCall, Start, At, Counters
  <2>3. state \in HookState /\ state.at # "commit"
    BY DEF HookState
  <2> QED
    BY <1>1, <2>2, <2>3, OutsideTransaction
<1>7. CASE \E h \in Hooks : StopRequest(h)
  <2>1. PICK h \in Hooks : StopRequest(h)
    BY <1>7
  <2> DEFINE state == [at |-> "inbox"]
  <2>2. Goto(h, state) /\ hook[h].at = "idle" /\ UNCHANGED Counters
    BY <2>1 DEF StopRequest, Start, At, Counters, history
  <2>3. state \in HookState /\ state.at # "commit"
    BY DEF HookState
  <2> QED
    BY <1>1, <2>2, <2>3, OutsideTransaction
<1>8. CASE \E h \in Hooks : AutoHeartbeat(h)
  <2>1. PICK h \in Hooks : AutoHeartbeat(h)
    BY <1>8
  <2> DEFINE state == [at |-> "load", event |-> hook[h].event, inbox_non_empty |-> FALSE]
  <2>2. Goto(h, state) /\ hook[h].at = "heartbeat" /\ UNCHANGED Counters
    BY <2>1 DEF AutoHeartbeat, At, Counters, history
  <2>3. state \in HookState /\ state.at # "commit"
    BY <1>3, <2>2 DEF HookState, Events
  <2> QED
    BY <1>1, <2>2, <2>3, OutsideTransaction
<1>9. CASE \E h \in Hooks : InboxNonEmpty(h) \/ InboxEmpty(h) \/ InboxError(h)
  <2>1. PICK h \in Hooks, taken \in SUBSET pending, flag \in BOOLEAN :
           InboxCheck(h, taken, flag)
    BY <1>9 DEF InboxNonEmpty, InboxEmpty, InboxError
  <2> DEFINE state == [at |-> "load", event |-> "stop_requested", inbox_non_empty |-> flag]
  <2>2. Goto(h, state) /\ hook[h].at = "inbox" /\ UNCHANGED Counters
    BY <2>1 DEF InboxCheck, At, Counters
  <2>3. state \in HookState /\ state.at # "commit"
    BY DEF HookState, Events
  <2> QED
    BY <1>1, <2>2, <2>3, OutsideTransaction
<1>10. CASE \E h \in Hooks : LoadAndDecide(h)
  <2>1. PICK h \in Hooks : LoadAndDecide(h)
    BY <1>10
  <2> DEFINE d == decide(hook[h].event, row, hook[h].inbox_non_empty)
             state == [at |-> "begin", event |-> hook[h].event, decision |-> d]
  <2>2. Goto(h, state) /\ hook[h].at = "load" /\ UNCHANGED Counters
    BY <2>1 DEF LoadAndDecide, At, Counters, history
  <2>3. d \in Decisions
    BY DEF decide, Decisions
  <2>4. state \in HookState /\ state.at # "commit"
    BY <1>3, <2>2, <2>3 DEF HookState
  <2> QED
    BY <1>1, <2>2, <2>4, OutsideTransaction
<1>11. CASE \E h \in Hooks : ApplyBegin(h)
  <2>1. PICK h \in Hooks : ApplyBegin(h)
    BY <1>11
  <2> DEFINE state == [at |-> "commit", event |-> hook[h].event,
                       decision |-> hook[h].decision, state |-> row]
  <2>2. /\ hook[h].at = "begin"
        /\ writer = None /\ writer' = h
        /\ hook' = [hook EXCEPT ![h] = state]
        /\ row' = row /\ since' = since
    BY <2>1 DEF ApplyBegin, At, Goto, history
  <2>3. state \in HookState
    BY <1>2, <1>3, <2>2 DEF HookState
  <2>4. HookOK'
    BY <1>2, <2>2, <2>3 DEF HookOK
  <2>5. \A g \in Hooks : At(g, "commit")' <=> writer' = g
    BY <1>2, <2>2 DEF At
  <2>6. ReadIsCurrent'
    BY <1>2, <2>2 DEF ReadIsCurrent, At
  <2> QED
    BY <1>1, <1>2, <2>2, <2>4, <2>5, <2>6
       DEF Inv, TypeOK, RestOK, CountersAreExact
<1>12. CASE \E h \in Hooks : ApplyCommit(h)
  <2>1. PICK h \in Hooks : ApplyCommit(h)
    BY <1>12
  <2>2. /\ hook[h].at = "commit"
        /\ row' = Counted(hook[h].state, hook[h].event)
        /\ since' = Counted(since, hook[h].event)
        /\ writer' = None
        /\ hook' = [hook EXCEPT ![h] = Idle]
    BY <2>1 DEF ApplyCommit, At, Goto
  <2>3. row' = since' /\ hook[h].event \in Events
    BY <1>2, <1>3, <2>2
  <2>4. since' \in Row
    BY <1>2, <2>2, <2>3 DEF Counted, Events, ToolEvents, NoCalls, Row
  <2>5. Idle \in HookState /\ Idle.at # "commit"
    BY DEF Idle, HookState
  <2>6. HookOK'
    BY <1>2, <2>2, <2>5 DEF HookOK
  <2>7. \A g \in Hooks : hook'[g].at # "commit"
    BY <1>2, <2>2, <2>5
  <2> QED
    BY <1>1, <1>2, <2>2, <2>3, <2>4, <2>6, <2>7
       DEF Inv, TypeOK, RestOK, ReadIsCurrent, CountersAreExact, At
<1>13. CASE \E h \in Hooks : Die(h)
  <2>1. PICK h \in Hooks : Die(h)
    BY <1>13
  <2>2. /\ writer' = IF writer = h THEN None ELSE writer
        /\ hook' = [hook EXCEPT ![h] = Idle]
        /\ row' = row /\ since' = since
    BY <2>1 DEF Die, Goto, history
  <2>3. Idle \in HookState /\ Idle.at # "commit"
    BY DEF Idle, HookState
  <2>4. HookOK'
    BY <1>2, <2>2, <2>3 DEF HookOK
  <2>5. \A g \in Hooks : hook'[g].at = "commit" <=> writer' = g
    BY <1>2, <2>2, <2>3
  <2>6. \A g \in Hooks : hook'[g].at = "commit" => hook'[g].state = row
    BY <1>2, <2>2, <2>3
  <2> QED
    BY <1>1, <1>2, <2>2, <2>4, <2>5, <2>6
       DEF Inv, TypeOK, RestOK, ReadIsCurrent, CountersAreExact, At
<1>14. CASE UNCHANGED vars
  BY <1>4, <1>14 DEF vars
<1> QED
  BY <1>5, <1>6, <1>7, <1>8, <1>9, <1>10, <1>11, <1>12, <1>13, <1>14
     DEF Next, Step

-----------------------------------------------------------------------------

\* The invariant holds in every reachable state.
THEOREM Invariance == Spec => []Inv
<1>1. Init => Inv
  BY InvInit
<1>2. Inv /\ [Next]_vars => Inv'
  BY InvNext
<1> QED
  BY <1>1, <1>2, PTL DEF Spec

\* Every reachable state is well-typed, and the write lock is held exactly by
\* the hook inside the transaction.
THEOREM TypeCorrect == Spec => []TypeOK
<1>1. Inv => TypeOK
  BY DEF Inv
<1> QED
  BY <1>1, Invariance, PTL

\* apply_event loses no update: the row is exactly what has been counted since
\* the last counted drain, for any number of overlapping hooks and any deaths.
THEOREM CountersCorrect == Spec => []CountersAreExact
<1>1. Inv => CountersAreExact
  BY DEF Inv
<1> QED
  BY <1>1, Invariance, PTL

-----------------------------------------------------------------------------
(* How late a reminder can be.                                             *)

\* A hook that has decided to say nothing about a tool call it has yet to count.
IsSilent(s) == s.at \in {"begin", "commit"} /\ s.event = "tool_used" /\ s.decision = "noop"

SilentHooks == {h \in Hooks : IsSilent(hook[h])}

\* Silent calls are counted calls; and as no hook decides to say nothing once
\* Threshold - 1 calls are counted, only the hooks that had decided before that
\* can still add to them.
SilenceInv ==
    /\ silent <= row.tool_calls
    /\ Threshold = 1 => SilentHooks = {} /\ silent = 0
    /\ Threshold > 1 => silent + Cardinality(SilentHooks) <= Threshold - 2 + Cardinality(Hooks)

\* Sets of hooks are finite, and no larger than the set of all hooks.
LEMMA HookSets ==
    ASSUME NEW S, S \subseteq Hooks
    PROVE  /\ IsFiniteSet(S)
           /\ Cardinality(S) \in Nat
           /\ Cardinality(Hooks) \in Nat \ {0}
           /\ Cardinality(S) <= Cardinality(Hooks)
           /\ \A h \in S : Cardinality(S \ {h}) = Cardinality(S) - 1
           /\ \A h : h \notin S => S \ {h} = S
<1>1. IsFiniteSet(Hooks) /\ Hooks # {}
  BY EnforcerAssumption
<1>2. IsFiniteSet(S) /\ Cardinality(S) <= Cardinality(Hooks)
  BY <1>1, FS_Subset
<1>3. Cardinality(S) \in Nat /\ Cardinality(Hooks) \in Nat
  BY <1>1, <1>2, FS_CardinalityType
<1>4. Cardinality(Hooks) # 0
  BY <1>1, FS_EmptySet
<1>5. \A h \in S : Cardinality(S \ {h}) = Cardinality(S) - 1
  BY <1>2, FS_RemoveElement
<1> QED
  BY <1>2, <1>3, <1>4, <1>5

\* A step of hook h changes the set of silent hooks at h at most.
LEMMA SilentHooksMove ==
    ASSUME HookOK, NEW h \in Hooks, NEW state, Goto(h, state)
    PROVE  /\ ~IsSilent(state) => SilentHooks' = SilentHooks \ {h}
           /\ IsSilent(state) /\ IsSilent(hook[h]) => SilentHooks' = SilentHooks
<1>1. hook' = [hook EXCEPT ![h] = state] /\ hook \in [Hooks -> HookState]
  BY DEF Goto, HookOK
<1>2. hook'[h] = state /\ \A g \in Hooks \ {h} : hook'[g] = hook[g]
  BY <1>1
<1>3. SilentHooks' = {g \in Hooks : IsSilent(hook'[g])}
  BY DEF SilentHooks, IsSilent
<1> QED
  BY <1>2, <1>3 DEF SilentHooks

\* A step that adds no silent hook and counts nothing keeps the bound.
LEMMA SilenceKept ==
    ASSUME Inv, SilenceInv, NEW h \in Hooks, NEW state, Goto(h, state),
           ~IsSilent(state) \/ IsSilent(hook[h]), UNCHANGED <<row, silent>>
    PROVE  SilenceInv'
<1>1. SilentHooks' = SilentHooks \ {h} \/ SilentHooks' = SilentHooks
  BY SilentHooksMove DEF Inv
<1>2. SilentHooks \subseteq Hooks
  BY DEF SilentHooks
<1>3. /\ Cardinality(SilentHooks) \in Nat
      /\ SilentHooks' \subseteq SilentHooks
      /\ Cardinality(SilentHooks') \in Nat
      /\ Cardinality(SilentHooks') <= Cardinality(SilentHooks)
  <2>1. IsFiniteSet(SilentHooks) /\ SilentHooks' \subseteq SilentHooks
    BY <1>1, <1>2, HookSets
  <2> QED
    BY <2>1, FS_Subset, FS_CardinalityType
<1>4. silent \in Nat /\ Threshold \in Nat /\ Cardinality(Hooks) \in Nat
  BY <1>2, HookSets, EnforcerAssumption DEF Inv, TypeOK
<1> QED
  BY <1>3, <1>4 DEF SilenceInv

\* A hook decides to say nothing only while fewer than Threshold - 1 calls are
\* counted; then even all hooks together stay below the bound.
LEMMA SilenceLoad ==
    ASSUME Inv, SilenceInv, NEW h \in Hooks, LoadAndDecide(h)
    PROVE  SilenceInv'
<1> DEFINE d == decide(hook[h].event, row, hook[h].inbox_non_empty)
           state == [at |-> "begin", event |-> hook[h].event, decision |-> d]
<1>1. Goto(h, state) /\ UNCHANGED <<row, silent>>
  BY DEF LoadAndDecide, history
<1>2. /\ silent \in Nat
      /\ row.tool_calls \in Nat
      /\ Threshold \in Nat \ {0}
  BY EnforcerAssumption DEF Inv, TypeOK, Row
<1>3. SilentHooks' \subseteq Hooks
  BY DEF SilentHooks
<1>4. CASE ~IsSilent(state)
  BY <1>1, <1>4, SilenceKept
<1>5. CASE IsSilent(state)
  <2>1. hook[h].event = "tool_used" /\ d = "noop"
    BY <1>5 DEF IsSilent
  <2>2. ~(row.tool_calls + 1 >= Threshold)
    BY <2>1 DEF decide
  <2>3. silent <= row.tool_calls
    BY DEF SilenceInv
  <2>4. /\ Cardinality(SilentHooks') \in Nat
        /\ Cardinality(Hooks) \in Nat
        /\ Cardinality(SilentHooks') <= Cardinality(Hooks)
    BY <1>3, HookSets
  <2> QED
    BY <1>1, <1>2, <2>2, <2>3, <2>4 DEF SilenceInv
<1> QED
  BY <1>4, <1>5

\* Counting a call turns a silent hook into a silent call; counting a drain
\* starts over.
LEMMA SilenceCommit ==
    ASSUME Inv, SilenceInv, NEW h \in Hooks, ApplyCommit(h)
    PROVE  SilenceInv'
<1> DEFINE event == hook[h].event
           S == SilentHooks
           H == Cardinality(Hooks)
<1>1. /\ hook[h].at = "commit"
      /\ Goto(h, Idle)
      /\ row' = Counted(row, event)
      /\ silent' = IF event = "channel_recv" THEN 0
                   ELSE silent + (IF event = "tool_used" /\ hook[h].decision = "noop"
                                  THEN 1 ELSE 0)
  BY DEF ApplyCommit, At, Inv, ReadIsCurrent
<1>2. /\ silent \in Nat
      /\ row \in Row
      /\ Threshold \in Nat \ {0}
      /\ event \in Events
  <2>1. hook[h] \in HookState
    BY DEF Inv, HookOK
  <2>2. event \in Events
    BY <1>1, <2>1 DEF HookState
  <2> QED
    BY <2>2, EnforcerAssumption DEF Inv, TypeOK
<1>3. S' = S \ {h}
  BY <1>1, SilentHooksMove DEF Inv, IsSilent, Idle
<1>4. /\ S \subseteq Hooks
      /\ h \in S <=> event = "tool_used" /\ hook[h].decision = "noop"
  BY <1>1 DEF SilentHooks, IsSilent
<1>5. /\ Cardinality(S) \in Nat /\ Cardinality(S') \in Nat /\ H \in Nat
      /\ Cardinality(S') <= H
      /\ h \in S => Cardinality(S') = Cardinality(S) - 1
      /\ h \notin S => S' = S
  <2>1. S' \subseteq Hooks
    BY <1>3, <1>4
  <2> QED
    BY <1>3, <1>4, <2>1, HookSets
<1>6. CASE event = "channel_recv"
  <2>1. silent' = 0 /\ row'.tool_calls = 0
    BY <1>1, <1>6 DEF Counted, NoCalls
  <2>2. Threshold = 1 => S' = {}
    BY <1>3 DEF SilenceInv
  <2> QED
    BY <1>2, <1>5, <2>1, <2>2 DEF SilenceInv
<1>7. CASE event = "tool_used"
  <2>1. row'.tool_calls = row.tool_calls + 1 /\ row.tool_calls \in Nat
    BY <1>1, <1>2, <1>7 DEF Counted, Row
  <2>2. silent' = IF h \in S THEN silent + 1 ELSE silent
    BY <1>1, <1>2, <1>4, <1>7
  <2>3. Threshold = 1 => h \notin S /\ S' = {}
    BY <1>3 DEF SilenceInv
  <2> QED
    BY <1>2, <1>5, <2>1, <2>2, <2>3 DEF SilenceInv
<1>8. CASE event \in {"channel_send", "stop_requested"}
  <2>1. row'.tool_calls = row.tool_calls
    BY <1>1, <1>2, <1>8 DEF Counted, Row
  <2>2. silent' = silent /\ S' = S
    BY <1>1, <1>2, <1>4, <1>5, <1>8
  <2> QED
    BY <2>1, <2>2 DEF SilenceInv
<1> QED
  BY <1>2, <1>6, <1>7, <1>8 DEF Events, ToolEvents

\* Every step keeps the bound on silent calls.
LEMMA SilenceNext == Inv /\ SilenceInv /\ [Next]_vars => SilenceInv'
<1> SUFFICES ASSUME Inv, SilenceInv, [Next]_vars
             PROVE  SilenceInv'
  OBVIOUS
<1>1. ASSUME UNCHANGED <<row, hook, silent>>
      PROVE  SilenceInv'
  BY <1>1 DEF SilenceInv, SilentHooks, IsSilent
<1>2. CASE PeerSend \/ Listen
  BY <1>1, <1>2 DEF PeerSend, Listen, history
<1>3. CASE \E h \in Hooks, e \in ToolEvents : ToolCall(h, e)
  <2>1. PICK h \in Hooks, e \in ToolEvents : ToolCall(h, e)
    BY <1>3
  <2> DEFINE state == [at |-> "heartbeat", event |-> e]
  <2>2. Goto(h, state) /\ UNCHANGED <<row, silent>> /\ ~IsSilent(state)
    BY <2>1 DEF ToolCall, IsSilent
  <2> QED
    BY <2>2, SilenceKept
<1>4. CASE \E h \in Hooks : StopRequest(h)
  <2>1. PICK h \in Hooks : StopRequest(h)
    BY <1>4
  <2> DEFINE state == [at |-> "inbox"]
  <2>2. Goto(h, state) /\ UNCHANGED <<row, silent>> /\ ~IsSilent(state)
    BY <2>1 DEF StopRequest, IsSilent, history
  <2> QED
    BY <2>2, SilenceKept
<1>5. CASE \E h \in Hooks : AutoHeartbeat(h)
  <2>1. PICK h \in Hooks : AutoHeartbeat(h)
    BY <1>5
  <2> DEFINE state == [at |-> "load", event |-> hook[h].event, inbox_non_empty |-> FALSE]
  <2>2. Goto(h, state) /\ UNCHANGED <<row, silent>> /\ ~IsSilent(state)
    BY <2>1 DEF AutoHeartbeat, IsSilent, history
  <2> QED
    BY <2>2, SilenceKept
<1>6. CASE \E h \in Hooks : InboxNonEmpty(h) \/ InboxEmpty(h) \/ InboxError(h)
  <2>1. PICK h \in Hooks, taken \in SUBSET pending, flag \in BOOLEAN :
           InboxCheck(h, taken, flag)
    BY <1>6 DEF InboxNonEmpty, InboxEmpty, InboxError
  <2> DEFINE state == [at |-> "load", event |-> "stop_requested", inbox_non_empty |-> flag]
  <2>2. Goto(h, state) /\ UNCHANGED <<row, silent>> /\ ~IsSilent(state)
    BY <2>1 DEF InboxCheck, IsSilent
  <2> QED
    BY <2>2, SilenceKept
<1>7. CASE \E h \in Hooks : LoadAndDecide(h)
  BY <1>7, SilenceLoad
<1>8. CASE \E h \in Hooks : ApplyBegin(h)
  <2>1. PICK h \in Hooks : ApplyBegin(h)
    BY <1>8
  <2> DEFINE state == [at |-> "commit", event |-> hook[h].event,
                       decision |-> hook[h].decision, state |-> row]
  <2>2. Goto(h, state) /\ UNCHANGED <<row, silent>> /\ hook[h].at = "begin"
    BY <2>1 DEF ApplyBegin, At, history
  <2>3. IsSilent(state) => IsSilent(hook[h])
    BY <2>2 DEF IsSilent
  <2> QED
    BY <2>2, <2>3, SilenceKept
<1>9. CASE \E h \in Hooks : ApplyCommit(h)
  BY <1>9, SilenceCommit
<1>10. CASE \E h \in Hooks : Die(h)
  <2>1. PICK h \in Hooks : Die(h)
    BY <1>10
  <2>2. Goto(h, Idle) /\ UNCHANGED <<row, silent>> /\ ~IsSilent(Idle)
    BY <2>1 DEF Die, IsSilent, Idle, history
  <2> QED
    BY <2>2, SilenceKept
<1>11. CASE UNCHANGED vars
  BY <1>1, <1>11 DEF vars
<1> QED
  BY <1>2, <1>3, <1>4, <1>5, <1>6, <1>7, <1>8, <1>9, <1>10, <1>11 DEF Next, Step

\* Between two drains fewer than Threshold + |Hooks| - 1 tool calls go without
\* a reminder, however the hooks overlap.
THEOREM SilenceCorrect == Spec => []SilenceIsBounded
<1>1. Init => SilenceInv
  <2> SUFFICES ASSUME Init
               PROVE  SilenceInv
    OBVIOUS
  <2>1. SilentHooks = {} /\ silent = 0 /\ row.tool_calls = 0
    BY DEF Init, SilentHooks, IsSilent, Idle, NoCalls
  <2>2. /\ Cardinality({}) = 0
        /\ Cardinality(Hooks) \in Nat
        /\ Threshold \in Nat
    BY HookSets, FS_EmptySet, EnforcerAssumption
  <2> QED
    BY <2>1, <2>2 DEF SilenceInv
<1>2. Inv /\ SilenceInv => SilenceIsBounded
  <2> SUFFICES ASSUME Inv, SilenceInv
               PROVE  SilenceIsBounded
    OBVIOUS
  <2>1. SilentHooks \subseteq Hooks
    BY DEF SilentHooks
  <2>2. /\ Cardinality(SilentHooks) \in Nat
        /\ Cardinality(Hooks) \in Nat \ {0}
        /\ Threshold \in Nat \ {0}
        /\ silent \in Nat
    BY <2>1, HookSets, EnforcerAssumption DEF Inv, TypeOK
  <2> QED
    BY <2>2 DEF SilenceInv, SilenceIsBounded
<1> QED
  BY <1>1, <1>2, SilenceNext, Invariance, PTL DEF Spec

-----------------------------------------------------------------------------
(* How often a stop can be refused.                                        *)

\* A stop hook that has found a message and has yet to report its refusal.
IsBlocking(s) ==
    \/ s.at = "load" /\ s.inbox_non_empty = TRUE
    \/ s.at \in {"begin", "commit"} /\ s.decision = "block"

BlockingHooks == {h \in Hooks : IsBlocking(hook[h])}

\* Each refusal, reported or to be reported, has used up a message of its own:
\* what a stop hook has found is not pending any more.
BlockInv ==
    /\ \A m \in pending : m \notin found
    /\ blocks + Cardinality(BlockingHooks) <= Cardinality(found)

\* A step of hook h changes the set of blocking hooks at h at most.
LEMMA BlockingHooksMove ==
    ASSUME HookOK, NEW h \in Hooks, NEW state, Goto(h, state)
    PROVE  /\ ~IsBlocking(state) => BlockingHooks' = BlockingHooks \ {h}
           /\ IsBlocking(state) => BlockingHooks' = BlockingHooks \cup {h}
           /\ IsBlocking(hook[h]) <=> h \in BlockingHooks
<1>1. hook' = [hook EXCEPT ![h] = state] /\ hook \in [Hooks -> HookState]
  BY DEF Goto, HookOK
<1>2. hook'[h] = state /\ \A g \in Hooks \ {h} : hook'[g] = hook[g]
  BY <1>1
<1>3. BlockingHooks' = {g \in Hooks : IsBlocking(hook'[g])}
  BY DEF BlockingHooks, IsBlocking
<1> QED
  BY <1>2, <1>3 DEF BlockingHooks

\* The messages found are finitely many.
LEMMA FoundFinite ==
    ASSUME Inv
    PROVE  /\ IsFiniteSet(found)
           /\ Cardinality(found) \in Nat
           /\ blocks \in Nat
           /\ found \subseteq 1 .. sent
           /\ sent \in Nat
<1>1. /\ found \subseteq 1 .. sent
      /\ sent \in 0 .. MaxMessages
      /\ blocks \in Nat
  BY DEF Inv, TypeOK
<1>2. sent \in Nat
  BY <1>1, EnforcerAssumption
<1>3. IsFiniteSet(1 .. sent)
  BY <1>2, FS_Interval
<1>4. IsFiniteSet(found)
  BY <1>1, <1>3, FS_Subset
<1> QED
  BY <1>1, <1>2, <1>4, FS_CardinalityType

\* A message that enters the inbox is new, so no stop hook has found it yet.
LEMMA EnqueueIsNew ==
    ASSUME Inv, BlockInv, Enqueue
    PROVE  \A m \in pending' : m \notin found
<1>1. pending' = pending \cup {sent + 1}
  BY DEF Enqueue
<1>2. sent + 1 \notin found
  BY FoundFinite
<1> QED
  BY <1>1, <1>2 DEF BlockInv

\* A step that adds no blocking hook, refuses nothing and finds nothing keeps
\* the bound.
LEMMA BlocksKept ==
    ASSUME Inv, BlockInv, NEW h \in Hooks, NEW state, Goto(h, state),
           IsBlocking(state) => IsBlocking(hook[h]), UNCHANGED <<blocks, found>>,
           \A m \in pending' : m \notin found
    PROVE  BlockInv'
<1>1. BlockingHooks' \subseteq BlockingHooks
  BY BlockingHooksMove DEF Inv
<1>2. IsFiniteSet(BlockingHooks) /\ Cardinality(BlockingHooks) \in Nat
  BY HookSets DEF BlockingHooks
<1>3. /\ Cardinality(BlockingHooks') \in Nat
      /\ Cardinality(BlockingHooks') <= Cardinality(BlockingHooks)
  BY <1>1, <1>2, FS_Subset, FS_CardinalityType
<1> QED
  BY <1>2, <1>3, FoundFinite DEF BlockInv

\* A stop hook that finds a message pays for its refusal with that message.
LEMMA BlocksFound ==
    ASSUME Inv, BlockInv, NEW h \in Hooks, NEW m \in pending,
           InboxCheck(h, {m}, TRUE)
    PROVE  BlockInv'
<1> DEFINE state == [at |-> "load", event |-> "stop_requested", inbox_non_empty |-> TRUE]
<1>1. /\ hook[h].at = "inbox"
      /\ Goto(h, state)
      /\ pending' = pending \ {m}
      /\ found' = found \cup {m}
      /\ blocks' = blocks
  BY DEF InboxCheck, At
<1>2. IsBlocking(state) /\ ~IsBlocking(hook[h])
  BY <1>1 DEF IsBlocking
<1>3. BlockingHooks' = BlockingHooks \cup {h} /\ h \notin BlockingHooks
  BY <1>1, <1>2, BlockingHooksMove DEF Inv
<1>4. IsFiniteSet(BlockingHooks) /\ Cardinality(BlockingHooks) \in Nat
  BY HookSets DEF BlockingHooks
<1>5. Cardinality(BlockingHooks') = Cardinality(BlockingHooks) + 1
  BY <1>3, <1>4, FS_AddElement
<1>6. m \notin found
  BY DEF BlockInv
<1>7. Cardinality(found') = Cardinality(found) + 1
  BY <1>1, <1>6, FoundFinite, FS_AddElement
<1> QED
  BY <1>1, <1>4, <1>5, <1>7, FoundFinite DEF BlockInv

\* A refusal that is reported is no longer to be reported.
LEMMA BlocksCommit ==
    ASSUME Inv, BlockInv, NEW h \in Hooks, ApplyCommit(h)
    PROVE  BlockInv'
<1> DEFINE B == BlockingHooks
<1>1. /\ hook[h].at = "commit"
      /\ Goto(h, Idle)
      /\ blocks' = blocks + (IF hook[h].decision = "block" THEN 1 ELSE 0)
      /\ UNCHANGED <<pending, found>>
  BY DEF ApplyCommit, At
<1>2. ~IsBlocking(Idle) /\ (IsBlocking(hook[h]) <=> hook[h].decision = "block")
  BY <1>1 DEF IsBlocking, Idle
<1>3. B' = B \ {h} /\ (h \in B <=> hook[h].decision = "block")
  BY <1>1, <1>2, BlockingHooksMove DEF Inv
<1>4. IsFiniteSet(B) /\ Cardinality(B) \in Nat
  BY HookSets DEF BlockingHooks
<1>5. Cardinality(B') = IF h \in B THEN Cardinality(B) - 1 ELSE Cardinality(B)
  BY <1>3, <1>4, FS_RemoveElement
<1> QED
  BY <1>1, <1>3, <1>4, <1>5, FoundFinite DEF BlockInv

\* A hook decides to refuse only if it has found a message.
LEMMA BlocksLoad ==
    ASSUME Inv, BlockInv, NEW h \in Hooks, LoadAndDecide(h)
    PROVE  BlockInv'
<1> DEFINE d == decide(hook[h].event, row, hook[h].inbox_non_empty)
           state == [at |-> "begin", event |-> hook[h].event, decision |-> d]
<1>1. Goto(h, state) /\ UNCHANGED <<pending, found, blocks>> /\ hook[h].at = "load"
  BY DEF LoadAndDecide, At, history
<1>2. hook[h].inbox_non_empty \in BOOLEAN
  <2>1. hook[h] \in HookState
    BY DEF Inv, HookOK
  <2> QED
    BY <1>1, <2>1 DEF HookState
<1>3. d = "block" => hook[h].inbox_non_empty
  BY DEF decide
<1>4. IsBlocking(state) => d = "block"
  BY DEF IsBlocking
<1>5. IsBlocking(state) => hook[h].inbox_non_empty = TRUE
  BY <1>2, <1>3, <1>4
<1>6. IsBlocking(state) => IsBlocking(hook[h])
  BY <1>1, <1>5 DEF IsBlocking
<1>7. \A m \in pending' : m \notin found
  BY <1>1 DEF BlockInv
<1> QED
  BY <1>1, <1>6, <1>7, BlocksKept

\* Every step keeps the bound on refusals.
LEMMA BlocksNext == Inv /\ BlockInv /\ [Next]_vars => BlockInv'
<1> SUFFICES ASSUME Inv, BlockInv, [Next]_vars
             PROVE  BlockInv'
  OBVIOUS
<1>1. ASSUME UNCHANGED <<hook, blocks, found>>, \A m \in pending' : m \notin found
      PROVE  BlockInv'
  BY <1>1 DEF BlockInv, BlockingHooks, IsBlocking
<1>2. \A m \in pending : m \notin found
  BY DEF BlockInv
<1>3. CASE PeerSend
  <2>1. Enqueue /\ UNCHANGED <<hook, blocks, found>>
    BY <1>3 DEF PeerSend, history
  <2> QED
    BY <1>1, <2>1, EnqueueIsNew
<1>4. CASE Listen
  BY <1>1, <1>2, <1>4 DEF Listen, history
<1>5. CASE \E h \in Hooks, e \in ToolEvents : ToolCall(h, e)
  <2>1. PICK h \in Hooks, e \in ToolEvents : ToolCall(h, e)
    BY <1>5
  <2> DEFINE state == [at |-> "heartbeat", event |-> e]
  <2>2. Goto(h, state) /\ UNCHANGED <<blocks, found>> /\ ~IsBlocking(state)
    BY <2>1 DEF ToolCall, IsBlocking
  <2>3. pending' = {} \/ pending' = pending
    BY <2>1 DEF ToolCall
  <2>4. \A m \in pending' : m \notin found
    BY <1>2, <2>3
  <2> QED
    BY <2>2, <2>4, BlocksKept
<1>6. CASE \E h \in Hooks : StopRequest(h)
  <2>1. PICK h \in Hooks : StopRequest(h)
    BY <1>6
  <2> DEFINE state == [at |-> "inbox"]
  <2>2. Goto(h, state) /\ UNCHANGED <<pending, blocks, found>> /\ ~IsBlocking(state)
    BY <2>1 DEF StopRequest, IsBlocking, history
  <2>3. \A m \in pending' : m \notin found
    BY <1>2, <2>2
  <2> QED
    BY <2>2, <2>3, BlocksKept
<1>7. CASE \E h \in Hooks : AutoHeartbeat(h)
  <2>1. PICK h \in Hooks : AutoHeartbeat(h)
    BY <1>7
  <2> DEFINE state == [at |-> "load", event |-> hook[h].event, inbox_non_empty |-> FALSE]
  <2>2. Goto(h, state) /\ UNCHANGED <<blocks, found>> /\ ~IsBlocking(state)
    BY <2>1 DEF AutoHeartbeat, IsBlocking, history
  <2>3. Enqueue \/ pending' = pending
    BY <2>1 DEF AutoHeartbeat
  <2>4. \A m \in pending' : m \notin found
    BY <1>2, <2>3, EnqueueIsNew
  <2> QED
    BY <2>2, <2>4, BlocksKept
<1>8. CASE \E h \in Hooks : InboxNonEmpty(h)
  BY <1>8, BlocksFound DEF InboxNonEmpty
<1>9. CASE \E h \in Hooks : InboxEmpty(h) \/ InboxError(h)
  <2>1. PICK h \in Hooks : InboxCheck(h, {}, FALSE)
    BY <1>9 DEF InboxEmpty, InboxError
  <2> DEFINE state == [at |-> "load", event |-> "stop_requested", inbox_non_empty |-> FALSE]
  <2>2. Goto(h, state) /\ UNCHANGED <<pending, blocks, found>> /\ ~IsBlocking(state)
    BY <2>1 DEF InboxCheck, IsBlocking
  <2>3. \A m \in pending' : m \notin found
    BY <1>2, <2>2
  <2> QED
    BY <2>2, <2>3, BlocksKept
<1>10. CASE \E h \in Hooks : LoadAndDecide(h)
  BY <1>10, BlocksLoad
<1>11. CASE \E h \in Hooks : ApplyBegin(h)
  <2>1. PICK h \in Hooks : ApplyBegin(h)
    BY <1>11
  <2> DEFINE state == [at |-> "commit", event |-> hook[h].event,
                       decision |-> hook[h].decision, state |-> row]
  <2>2. Goto(h, state) /\ UNCHANGED <<pending, blocks, found>> /\ hook[h].at = "begin"
    BY <2>1 DEF ApplyBegin, At, history
  <2>3. IsBlocking(state) => IsBlocking(hook[h])
    BY <2>2 DEF IsBlocking
  <2>4. \A m \in pending' : m \notin found
    BY <1>2, <2>2
  <2> QED
    BY <2>2, <2>3, <2>4, BlocksKept
<1>12. CASE \E h \in Hooks : ApplyCommit(h)
  BY <1>12, BlocksCommit
<1>13. CASE \E h \in Hooks : Die(h)
  <2>1. PICK h \in Hooks : Die(h)
    BY <1>13
  <2>2. Goto(h, Idle) /\ UNCHANGED <<pending, blocks, found>> /\ ~IsBlocking(Idle)
    BY <2>1 DEF Die, IsBlocking, Idle, history
  <2>3. \A m \in pending' : m \notin found
    BY <1>2, <2>2
  <2> QED
    BY <2>2, <2>3, BlocksKept
<1>14. CASE UNCHANGED vars
  BY <1>1, <1>2, <1>14 DEF vars, history
<1> QED
  BY <1>3, <1>4, <1>5, <1>6, <1>7, <1>8, <1>9, <1>10, <1>11, <1>12, <1>13, <1>14
     DEF Next, Step

\* The agent is never trapped: every refused stop has used up a message of the
\* inbox, so there are no more refusals than messages found.
THEOREM BlocksCorrect == Spec => []BlocksAreBounded
<1>1. Init => BlockInv
  <2> SUFFICES ASSUME Init
               PROVE  BlockInv
    OBVIOUS
  <2>1. BlockingHooks = {} /\ blocks = 0 /\ pending = {} /\ found = {}
    BY DEF Init, BlockingHooks, IsBlocking, Idle
  <2>2. Cardinality({}) = 0
    BY FS_EmptySet
  <2> QED
    BY <2>1, <2>2 DEF BlockInv
<1>2. Inv /\ BlockInv => BlocksAreBounded
  <2> SUFFICES ASSUME Inv, BlockInv
               PROVE  BlocksAreBounded
    OBVIOUS
  <2>1. Cardinality(BlockingHooks) \in Nat
    BY HookSets DEF BlockingHooks
  <2> QED
    BY <2>1, FoundFinite DEF BlockInv, BlocksAreBounded
<1> QED
  BY <1>1, <1>2, BlocksNext, Invariance, PTL DEF Spec

=============================================================================
