--------------------------- MODULE Requests_proofs --------------------------
(***************************************************************************)
(* Proofs about Requests and the Identity it composes, for any agents,     *)
(* keys, tasks, scenarios, replay window, clock and number of failures.    *)
(*                                                                         *)
(* Of all that a server does, few steps touch what verify() works with     *)
(* (NextCases): a verification begins, looks at the record, spends its     *)
(* nonce or ends, the host changes a record, and time passes.              *)
(*                                                                         *)
(* The steps of a call matter to two more invariants, for whom it acts     *)
(* (CertInv) and what its answer may say (AnswerInv).  Both follow one     *)
(* request along the chain and back, and hold for the others because a     *)
(* step of one task leaves the tasks of the others alone.                  *)
(***************************************************************************)
EXTENDS Requests, FiniteSetTheorems, SequenceTheorems, TLAPS

\* What verify() works with.
verifyVars == <<clock, records, seenNonces, verifying, authority, accepted>>

\* A verification ends, and its local variables go.
EndVerify(t) ==
    /\ verifying' = [verifying EXCEPT ![t] = NoVerify]
    /\ UNCHANGED <<clock, records, seenNonces, authority, accepted>>

\* A record changes.
ChangeRecords ==
    /\ \E table : SetRecords(table)
    /\ UNCHANGED <<clock, seenNonces, verifying, accepted>>

\* Every step is one of these for verify().
LEMMA NextCases ==
    ASSUME [Next]_vars
    PROVE  \/ UNCHANGED verifyVars
           \/ Tick
           \/ ChangeRecords
           \/ \E t \in Tasks : \/ \E request : BeginVerify(t, request)
                               \/ CheckRecord(t) \/ SpendNonce(t) \/ EndVerify(t)
<1> USE DEF verifyVars
<1>1. CASE UNCHANGED vars
  BY <1>1 DEF vars, identityVars
<1>2. CASE Host
  <2>1. CASE \E a \in Agents : AdminRevoke(a) \/ \E key \in Keys : AdminRegister(a, key)
    BY <2>1 DEF AdminRevoke, AdminRegister, ChangeRecords
  <2> QED
    BY <1>2, <2>1 DEF Host
<1>3. CASE \E t \in DOMAIN scenario.requests : Arrive(t)
  BY <1>3 DEF Arrive, HttpRefuse, HttpArrive, McpArrive, HostArrive, identityVars
<1>4. ASSUME NEW t \in Tasks, Expire(t)
      PROVE  UNCHANGED verifyVars
  BY <1>4 DEF Expire, identityVars
<1>5. ASSUME NEW t \in Tasks, Serve(t)
      PROVE  \/ UNCHANGED verifyVars
             \/ ChangeRecords
             \/ \E request : BeginVerify(t, request)
             \/ CheckRecord(t) \/ SpendNonce(t) \/ EndVerify(t)
  <2>1. CASE HttpRegister(t)
    BY <2>1 DEF HttpRegister, ChangeRecords
  <2>2. CASE \/ HttpLook(t) \/ HttpSign(t) \/ HttpReturn(t) \/ HttpCollected(t)
             \/ HttpPoll(t) \/ McpSign(t) \/ McpReturn(t) \/ HostReturn(t)
    BY <2>2 DEF HttpLook, HttpSign, HttpReturn, HttpCollected, HttpPoll, McpSign,
                McpReturn, HostReturn, identityVars
  <2>3. CASE \/ SchemaStrict(t) \/ EnterLog(t) \/ PassAuth(t) \/ MissCredential(t)
             \/ StoreUnsupported(t)
    BY <2>3 DEF SchemaStrict, EnterLog, PassAuth, MissCredential, StoreUnsupported,
                CallsOnly, identityVars
  <2>4. CASE StoreSend(t) \/ StoreRecv(t) \/ StoreOther(t)
    BY <2>4 DEF StoreSend, StoreRecv, StoreOther, identityVars
  <2>5. CASE PreHooks(t) \/ StoreRaises(t) \/ Leave(t)
    BY <2>5 DEF PreHooks, StoreRaises, Leave
  <2>6. CASE BeginAuth(t) \/ VerifyRecord(t) \/ VerifyNonce(t)
    BY <2>6 DEF BeginAuth, VerifyRecord, VerifyNonce
  <2>7. CASE EndAuth(t)
    BY <2>7 DEF EndAuth, EndVerify
  <2> QED
    BY <1>5, <2>1, <2>2, <2>3, <2>4, <2>5, <2>6, <2>7 DEF Serve, PipelineStep
<1> QED
  BY <1>1, <1>2, <1>3, <1>4, <1>5 DEF Next

-----------------------------------------------------------------------------
(* A nonce buys one request.                                               *)

\* The local variables of verify() are four, and the clock was read in the past.
VerifyingOK ==
    /\ clock \in Nat
    /\ verifying = [t \in Tasks |-> verifying[t]]
    /\ \A t \in Tasks :
          /\ verifying[t] = [phase |-> verifying[t].phase, request |-> verifying[t].request,
                             now |-> verifying[t].now, reason |-> verifying[t].reason]
          /\ verifying[t].now \in Nat
          /\ verifying[t].now <= clock

\* An accepted request was read, then spent, both in the past.
AcceptedInPast ==
    \A x \in accepted :
        /\ x.read \in Nat /\ x.spent \in Nat
        /\ x.read <= x.spent /\ x.spent <= clock

\* What makes NoncesBuyOneRequest inductive: the nonce of an accepted request is kept
\* until the clock has passed the window.
NonceIsKept ==
    \A x \in accepted :
        \/ [nonce |-> x.request.nonce, at |-> x.read] \in seenNonces
        \/ clock > x.read + ReplayWindow

NonceInv == VerifyingOK /\ AcceptedInPast /\ NonceIsKept /\ NoncesBuyOneRequest

\* However verify() fails, what it began with is still there.
LEMMA FailKeeps ==
    ASSUME VerifyingOK, NEW t \in Tasks, NEW call, NEW reason, Fail(t, call, reason),
           call = [phase |-> call.phase, request |-> call.request,
                   now |-> call.now, reason |-> call.reason]
    PROVE  \E phase \in {"refused", "broken"} :
              verifying' = [verifying EXCEPT
                  ![t] = [phase |-> phase, request |-> call.request,
                          now |-> call.now, reason |-> reason]]
  BY DEF Fail, VerifyingOK

\* A step of verify() replaces the local variables of one task; VerifyingOK asks no more
\* of them than that the clock was read in the past.
LEMMA VerifyingStep ==
    ASSUME VerifyingOK, NEW t \in Tasks, NEW p, NEW r, NEW n \in Nat, NEW why,
           n <= clock, clock' = clock,
           verifying' = [verifying EXCEPT
               ![t] = [phase |-> p, request |-> r, now |-> n, reason |-> why]]
    PROVE  VerifyingOK'
  BY DEF VerifyingOK

\* The steps of verify() keep VerifyingOK.
LEMMA VerifyingKept ==
    ASSUME VerifyingOK, NEW t \in Tasks,
           \/ \E request : BeginVerify(t, request)
           \/ CheckRecord(t) \/ SpendNonce(t) \/ EndVerify(t)
    PROVE  VerifyingOK' /\ clock' = clock
<1>1. ASSUME NEW request, BeginVerify(t, request)
      PROVE  VerifyingOK' /\ clock' = clock
  <2> DEFINE call == [phase |-> "lookup", request |-> request, now |-> clock,
                      reason |-> None]
  <2>1. clock' = clock
    BY <1>1 DEF BeginVerify
  <2>2. CASE Fail(t, call, "malformed")
    BY <2>1, <2>2, FailKeeps, VerifyingStep DEF VerifyingOK
  <2>3. CASE verifying' = [verifying EXCEPT ![t] = call]
    BY <2>1, <2>3, VerifyingStep DEF VerifyingOK
  <2> QED
    BY <1>1, <2>1, <2>2, <2>3 DEF BeginVerify
<1>2. ASSUME CheckRecord(t) \/ SpendNonce(t)
      PROVE  VerifyingOK' /\ clock' = clock
  <2> DEFINE call == verifying[t]
  <2>1. clock' = clock
    BY <1>2 DEF CheckRecord, SpendNonce
  <2>2. ASSUME NEW reason, Fail(t, call, reason)
        PROVE  VerifyingOK'
    BY <2>1, <2>2, FailKeeps, VerifyingStep DEF VerifyingOK
  <2>3. ASSUME NEW phase, verifying' = [verifying EXCEPT ![t].phase = phase]
        PROVE  VerifyingOK'
    <3> DEFINE changed == [phase |-> phase, request |-> call.request, now |-> call.now,
                           reason |-> call.reason]
    <3>1. [call EXCEPT !.phase = phase] = changed
      <4>1. call = [phase |-> call.phase, request |-> call.request, now |-> call.now,
                    reason |-> call.reason]
        BY DEF VerifyingOK
      <4> HIDE DEF call
      <4>2. DOMAIN call = {"phase", "request", "now", "reason"}
        BY <4>1
      <4> QED
        BY <4>2
    <3>2. verifying' = [verifying EXCEPT ![t] = changed]
      BY <2>3, <3>1
    <3> QED
      BY <2>1, <3>2, VerifyingStep DEF VerifyingOK
  <2> QED
    BY <1>2, <2>1, <2>2, <2>3 DEF CheckRecord, SpendNonce
<1>3. ASSUME EndVerify(t)
      PROVE  VerifyingOK' /\ clock' = clock
  BY <1>3, VerifyingStep DEF EndVerify, NoVerify, VerifyingOK
<1> QED
  BY <1>1, <1>2, <1>3

\* The decisive step: the nonce is spent.  What was pruned was kept under a time the
\* clock has passed by more than the window.
LEMMA SpendKeeps ==
    ASSUME NonceInv, NEW t \in Tasks, SpendNonce(t)
    PROVE  AcceptedInPast' /\ NonceIsKept' /\ NoncesBuyOneRequest'
<1> DEFINE call == verifying[t]
           kept == PruneReplayCache(seenNonces, call.now)
           new == [task |-> t, request |-> call.request, read |-> call.now, spent |-> clock]
<1>1. ReplayWindow \in Nat /\ clock \in Nat /\ call.now \in Nat /\ call.now <= clock
  BY IdentityAssumption DEF NonceInv, VerifyingOK
<1>2. clock' = clock /\ kept \subseteq seenNonces'
  BY DEF SpendNonce
<1>3. ASSUME NEW x \in accepted
      PROVE  \/ [nonce |-> x.request.nonce, at |-> x.read] \in kept
             \/ clock > x.read + ReplayWindow
  <2>1. x.read \in Nat
    BY DEF NonceInv, AcceptedInPast
  <2>2. CASE [nonce |-> x.request.nonce, at |-> x.read] \in seenNonces
    BY <1>1, <2>1, <2>2 DEF PruneReplayCache
  <2> QED
    BY <2>2 DEF NonceInv, NonceIsKept
<1>4. CASE accepted' = accepted
  BY <1>2, <1>3, <1>4 DEF NonceInv, AcceptedInPast, NonceIsKept, NoncesBuyOneRequest
<1>5. CASE /\ ~ \E entry \in kept : entry.nonce = call.request.nonce
           /\ seenNonces' = kept \cup {[nonce |-> call.request.nonce, at |-> call.now]}
           /\ accepted' = accepted \cup {new}
  <2>1. AcceptedInPast'
    BY <1>1, <1>2, <1>5 DEF NonceInv, AcceptedInPast
  <2>2. NonceIsKept'
    <3> SUFFICES ASSUME NEW x \in accepted'
                 PROVE  \/ [nonce |-> x.request.nonce, at |-> x.read] \in seenNonces'
                        \/ clock' > x.read + ReplayWindow
      BY DEF NonceIsKept
    <3> QED
      BY <1>2, <1>3, <1>5
  <2>3. ASSUME NEW x \in accepted, x.request.nonce = new.request.nonce
        PROVE  new.spent > x.read + ReplayWindow
    BY <1>3, <1>5, <2>3
  <2>4. NoncesBuyOneRequest'
    <3> SUFFICES ASSUME NEW x \in accepted', NEW y \in accepted',
                        x # y, x.request.nonce = y.request.nonce
                 PROVE  \/ y.spent > x.read + ReplayWindow
                        \/ x.spent > y.read + ReplayWindow
      BY DEF NoncesBuyOneRequest
    <3>1. CASE x \in accepted /\ y \in accepted
      BY <3>1 DEF NonceInv, NoncesBuyOneRequest
    <3>2. CASE x \in accepted /\ y = new
      BY <2>3, <3>2
    <3>3. CASE x = new /\ y \in accepted
      BY <2>3, <3>3
    <3> QED
      BY <1>5, <3>1, <3>2, <3>3
  <2> QED
    BY <2>1, <2>2, <2>4
<1> QED
  BY <1>4, <1>5 DEF SpendNonce

\* Every step keeps the invariant.
LEMMA NonceInvStep ==
    ASSUME NonceInv, [Next]_vars
    PROVE  NonceInv'
<1> USE DEF NonceInv
<1>1. CASE UNCHANGED verifyVars
  BY <1>1 DEF verifyVars, VerifyingOK, AcceptedInPast, NonceIsKept, NoncesBuyOneRequest
<1>2. CASE Tick
  <2>1. VerifyingOK'
    BY <1>2 DEF Tick, VerifyingOK
  <2>2. AcceptedInPast'
    BY <1>2 DEF Tick, VerifyingOK, AcceptedInPast
  <2>3. NonceIsKept'
    <3> SUFFICES ASSUME NEW x \in accepted, clock > x.read + ReplayWindow
                 PROVE  clock + 1 > x.read + ReplayWindow
      BY <1>2 DEF Tick, NonceIsKept
    <3> QED
      BY IdentityAssumption DEF VerifyingOK, AcceptedInPast
  <2>4. NoncesBuyOneRequest'
    BY <1>2 DEF Tick, NoncesBuyOneRequest
  <2> QED
    BY <2>1, <2>2, <2>3, <2>4
<1>3. CASE ChangeRecords
  BY <1>3 DEF ChangeRecords, VerifyingOK, AcceptedInPast, NonceIsKept, NoncesBuyOneRequest
<1>4. ASSUME NEW t \in Tasks,
             \/ \E request : BeginVerify(t, request)
             \/ CheckRecord(t) \/ EndVerify(t)
      PROVE  NonceInv'
  <2>1. VerifyingOK' /\ clock' = clock
    BY <1>4, VerifyingKept
  <2>2. seenNonces' = seenNonces /\ accepted' = accepted
    BY <1>4 DEF BeginVerify, CheckRecord, EndVerify
  <2> QED
    BY <2>1, <2>2 DEF AcceptedInPast, NonceIsKept, NoncesBuyOneRequest
<1>5. ASSUME NEW t \in Tasks, SpendNonce(t)
      PROVE  NonceInv'
  BY <1>5, VerifyingKept, SpendKeeps
<1> QED
  BY <1>1, <1>2, <1>3, <1>4, <1>5, NextCases

\* A nonce buys one request for as long as the window lasts, whatever tasks verify side
\* by side, however records change and whenever time passes (verify(),
\* _prune_replay_cache() and _check_and_insert_nonce() of identity/verifier.py).
THEOREM NoncesBuyOneRequestAlways == Spec => []NoncesBuyOneRequest
<1>1. Init => NonceInv
  BY DEF Init, NonceInv, VerifyingOK, AcceptedInPast, NonceIsKept, NoncesBuyOneRequest,
         NoVerify
<1>2. NonceInv /\ [Next]_vars => NonceInv'
  BY NonceInvStep
<1>3. NonceInv => NoncesBuyOneRequest
  BY DEF NonceInv
<1> QED
  BY <1>1, <1>2, <1>3, PTL DEF Spec

-----------------------------------------------------------------------------
(* A request passes with a key that was good.                              *)

Pair(t) == <<verifying[t].request.agent, verifying[t].request.key>>

\* What makes VerifiedByGoodKey inductive: until the record is looked at, every key
\* that is good now counts, and from then on the one that was used.
AuthorityOf(t) ==
    /\ verifying[t].phase = "lookup" => GoodNow(records) \subseteq authority[t]
    /\ verifying[t].phase \in {"nonce", "verified"} => Pair(t) \in authority[t]

KeyInv ==
    /\ VerifyingOK
    /\ authority = [t \in Tasks |-> authority[t]]
    /\ \A t \in Tasks : AuthorityOf(t)

\* A record that is good for a request is among the keys that are good now.
LEMMA GoodIsNow ==
    ASSUME NEW request, Good(Lookup(request.agent), request)
    PROVE  <<request.agent, request.key>> \in GoodNow(records)
  BY DEF Good, Lookup, SignedBy, GoodNow

\* A step of verify() that leaves the records and the history alone is about one task.
LEMMA OneTask ==
    ASSUME KeyInv, NEW t \in Tasks, NEW call,
           verifying' = [verifying EXCEPT ![t] = call],
           records' = records, authority' = authority, VerifyingOK',
           call.phase \notin {"lookup", "nonce", "verified"}
               \/ /\ call.phase \in {"nonce", "verified"}
                  /\ <<call.request.agent, call.request.key>> \in authority[t]
    PROVE  KeyInv'
<1>1. ASSUME NEW u \in Tasks
      PROVE  verifying'[u] = IF u = t THEN call ELSE verifying[u]
  BY DEF KeyInv, VerifyingOK
<1>2. ASSUME NEW u \in Tasks
      PROVE  AuthorityOf(u)'
  <2>1. CASE u = t
    BY <1>1, <2>1 DEF AuthorityOf, Pair
  <2>2. CASE u # t
    BY <1>1, <2>2 DEF KeyInv, AuthorityOf, Pair
  <2> QED
    BY <2>1, <2>2
<1> QED
  BY <1>2 DEF KeyInv

\* The first step: the keys that are good now count, and nothing else has to.
LEMMA BeginKeeps ==
    ASSUME KeyInv, NEW t \in Tasks, NEW request, BeginVerify(t, request), VerifyingOK'
    PROVE  KeyInv'
<1> DEFINE call == [phase |-> "lookup", request |-> request, now |-> clock, reason |-> None]
<1>1. /\ authority' = [authority EXCEPT ![t] = GoodNow(records)]
      /\ records' = records
  BY DEF BeginVerify
<1>2. \E reason : \E phase \in {"lookup", "refused", "broken"} :
          verifying' = [verifying EXCEPT ![t] =
              [phase |-> phase, request |-> request, now |-> clock, reason |-> reason]]
  <2>1. CASE Fail(t, call, "malformed")
    BY <2>1, FailKeeps DEF KeyInv
  <2>2. CASE verifying' = [verifying EXCEPT ![t] = call]
    BY <2>2
  <2> QED
    BY <2>1, <2>2 DEF BeginVerify
<1>3. ASSUME NEW u \in Tasks
      PROVE  AuthorityOf(u)'
  <2>1. CASE u = t
    <3>1. verifying'[u].phase \in {"lookup", "refused", "broken"}
      BY <1>2, <2>1 DEF KeyInv, VerifyingOK
    <3>2. authority'[u] = GoodNow(records)
      BY <1>1, <2>1 DEF KeyInv
    <3>3. GoodNow(records)' = GoodNow(records)
      BY <1>1 DEF GoodNow
    <3> QED
      BY <3>1, <3>2, <3>3 DEF AuthorityOf
  <2>2. CASE u # t
    <3>1. verifying'[u] = verifying[u]
      BY <1>2, <2>2 DEF KeyInv, VerifyingOK
    <3>2. authority'[u] = authority[u]
      BY <1>1, <2>2 DEF KeyInv
    <3> QED
      BY <1>1, <3>1, <3>2 DEF KeyInv, AuthorityOf, Pair, GoodNow
  <2> QED
    BY <2>1, <2>2
<1> QED
  BY <1>1, <1>3 DEF KeyInv

\* The step in which a record is looked at: it is good now, and so it counts.
LEMMA CheckKeeps ==
    ASSUME KeyInv, NEW t \in Tasks, CheckRecord(t), VerifyingOK'
    PROVE  KeyInv'
<1> DEFINE call == verifying[t]
<1>1. records' = records /\ authority' = authority /\ call.phase = "lookup"
  BY DEF CheckRecord
<1>2. call = [phase |-> call.phase, request |-> call.request, now |-> call.now,
              reason |-> call.reason]
  BY DEF KeyInv, VerifyingOK
<1>3. ASSUME NEW reason, Fail(t, call, reason)
      PROVE  KeyInv'
  <2>1. PICK phase \in {"refused", "broken"} :
            verifying' = [verifying EXCEPT ![t] =
                [phase |-> phase, request |-> call.request, now |-> call.now,
                 reason |-> reason]]
    BY <1>2, <1>3, FailKeeps DEF KeyInv
  <2> QED
    BY <1>1, <2>1, OneTask
<1>4. CASE /\ Good(Lookup(call.request.agent), call.request)
           /\ verifying' = [verifying EXCEPT ![t].phase = "nonce"]
  <2>1. Pair(t) \in authority[t]
    BY <1>1, <1>4, GoodIsNow DEF KeyInv, AuthorityOf, Pair
  <2> QED
    BY <1>1, <1>2, <1>4, <2>1, OneTask DEF Pair
<1> QED
  BY <1>3, <1>4 DEF CheckRecord

\* Spending the nonce leaves the request as it was.
LEMMA SpendKeepsKey ==
    ASSUME KeyInv, NEW t \in Tasks, SpendNonce(t), VerifyingOK'
    PROVE  KeyInv'
<1> DEFINE call == verifying[t]
<1>1. records' = records /\ authority' = authority /\ call.phase = "nonce"
  BY DEF SpendNonce
<1>2. call = [phase |-> call.phase, request |-> call.request, now |-> call.now,
              reason |-> call.reason]
  BY DEF KeyInv, VerifyingOK
<1>3. CASE Fail(t, call, "replay")
  <2>1. PICK phase \in {"refused", "broken"} :
            verifying' = [verifying EXCEPT ![t] =
                [phase |-> phase, request |-> call.request, now |-> call.now,
                 reason |-> "replay"]]
    BY <1>2, <1>3, FailKeeps DEF KeyInv
  <2> QED
    BY <1>1, <2>1, OneTask
<1>4. CASE verifying' = [verifying EXCEPT ![t].phase = "verified"]
  <2>1. Pair(t) \in authority[t]
    BY <1>1 DEF KeyInv, AuthorityOf
  <2> QED
    BY <1>1, <1>2, <1>4, <2>1, OneTask DEF Pair
<1> QED
  BY <1>3, <1>4 DEF SpendNonce

\* Every step keeps the invariant.
LEMMA KeyInvStep ==
    ASSUME KeyInv, [Next]_vars
    PROVE  KeyInv'
<1>1. CASE UNCHANGED verifyVars
  BY <1>1 DEF verifyVars, KeyInv, VerifyingOK, AuthorityOf, Pair, GoodNow
<1>2. CASE Tick
  <2>1. VerifyingOK'
    BY <1>2 DEF Tick, KeyInv, VerifyingOK
  <2> QED
    BY <1>2, <2>1 DEF Tick, KeyInv, AuthorityOf, Pair, GoodNow
<1>3. CASE ChangeRecords
  <2>1. VerifyingOK'
    BY <1>3 DEF ChangeRecords, KeyInv, VerifyingOK
  <2>2. PICK table : /\ records' = table
                     /\ authority' = [t \in Tasks |-> authority[t] \cup GoodNow(table)]
    BY <1>3 DEF ChangeRecords, SetRecords
  <2>3. ASSUME NEW t \in Tasks
        PROVE  AuthorityOf(t)'
    <3>1. /\ verifying'[t] = verifying[t]
          /\ authority'[t] = authority[t] \cup GoodNow(table)
          /\ GoodNow(records)' = GoodNow(table)
      BY <1>3, <2>2 DEF ChangeRecords, GoodNow
    <3> QED
      BY <3>1 DEF KeyInv, AuthorityOf, Pair
  <2>4. authority' = [t \in Tasks |-> authority'[t]]
    BY <2>2
  <2> QED
    BY <2>1, <2>3, <2>4 DEF KeyInv
<1>4. ASSUME NEW t \in Tasks, \/ \E request : BeginVerify(t, request)
                              \/ CheckRecord(t) \/ SpendNonce(t) \/ EndVerify(t)
      PROVE  KeyInv'
  <2>1. VerifyingOK'
    BY <1>4, VerifyingKept DEF KeyInv
  <2>2. CASE EndVerify(t)
    BY <2>1, <2>2, OneTask DEF EndVerify, NoVerify
  <2> QED
    BY <1>4, <2>1, <2>2, BeginKeeps, CheckKeeps, SpendKeepsKey
<1> QED
  BY <1>1, <1>2, <1>3, <1>4, NextCases

\* A request is verified only with a key that was registered for its agent and not
\* revoked at some moment since its verification began, whatever the host registers
\* and revokes in between (the record check of verify() in identity/verifier.py).
THEOREM VerifiedByGoodKeyAlways == Spec => []VerifiedByGoodKey
<1>1. Init => KeyInv
  BY DEF Init, KeyInv, VerifyingOK, AuthorityOf, Pair, NoVerify
<1>2. KeyInv /\ [Next]_vars => KeyInv'
  BY KeyInvStep
<1>3. KeyInv => VerifiedByGoodKey
  BY DEF KeyInv, AuthorityOf, Pair, VerifiedByGoodKey
<1> QED
  BY <1>1, <1>2, <1>3, PTL DEF Spec

-----------------------------------------------------------------------------
(* The store acts in the name of who was certified.                        *)
(*                                                                         *)
(* The invariant follows a request from the transport to the store: who    *)
(* the request is signed for (OriginOK), who is verified for it            *)
(* (PresentedOK), who the call is bound to behind auth (BoundOK), and what *)
(* the store did (EffectOK).  That one acceptance pays for one act is a    *)
(* count (CountOK), in which an acceptance the store has not acted on yet  *)
(* is owed.  Acceptances are a set: that a new one is not in it yet needs  *)
(* the invariant of the nonces.                                            *)

\* The call of t has not come back yet, and it is for an operation auth verifies.
Live(t) == calls[t].phase \in {"down", "auth", "up"}
Enforced(t) == calls[t].operation \in EnforcedOperations

\* The call of t has entered a middleware behind auth.
PastAuth(t) == \E i \in DOMAIN chain : i < calls[t].at /\ chain[i] = "auth"

\* Records keep their fields, sequences are sequences, what counts is finite.
ShapeOK ==
    /\ scenario \in Scenarios /\ chain = scenario.chain
    /\ tasks = [t \in Tasks |-> tasks[t]]
    /\ calls = [t \in Tasks |-> calls[t]]
    /\ \A t \in Tasks :
           /\ DOMAIN tasks[t] = DOMAIN NoTask
           /\ DOMAIN calls[t] = DOMAIN NoCall
           /\ Live(t) => DOMAIN calls[t].input = DOMAIN NoInput
    /\ IsFiniteSet(accepted)
    /\ \E S : log \in Seq(S)
    /\ \E S : effects \in Seq(S)

\* What a task serves is a request of the scenario; HTTP serves nobody without a token.
AskedOK(t) ==
    LET r == tasks[t].request
    IN  tasks[t].phase # "idle" =>
            /\ r.via \in {"http", "mcp", "host"} /\ r.input \in ClientInputs
            /\ r.via = "http" /\ tasks[t].phase # "answered" => r.token # None

\* In whose name a request of the transports is signed.
CallerIs(t, agent) ==
    /\ tasks[t].request.via = "http" => agent = tasks[t].request.token
    /\ tasks[t].request.via = "mcp" => agent = ServerAgent

\* What a call on its way still has of what the transport put in.
OriginOK(t) ==
    LET r == tasks[t].request
        call == calls[t]
    IN  Live(t) =>
            /\ tasks[t].phase = "dispatch"
            /\ r.via # "mcp" => /\ call.input.agent_id = None /\ call.input.creator_id = None
                                /\ call.input.inviter_id = None
            /\ r.via = "http" => call.hint = r.token
            /\ r.via = "mcp" =>
                   CASE call.operation \in {"send", "list_channels", "replay"} -> TRUE
                     [] call.operation = "group_create" -> call.input.creator_id = ServerAgent
                     [] call.operation = "group_invite" -> call.input.inviter_id = ServerAgent
                     [] OTHER -> call.input.agent_id = ServerAgent
            /\ r.via # "host" => /\ call.input.signed_request = None
                                 /\ CallerIs(t, call.credential.agent)
            /\ ~Enforced(t) => call.agent = None

Certified(t, agent) == \E x \in accepted : x.task = t /\ x.request.agent = agent

\* A request is verified for a call that waits in auth, in the name it was signed in.
PresentedOK(t) ==
    /\ verifying[t].phase # "none" =>
           /\ calls[t].phase = "auth" /\ Enforced(t)
    /\ verifying[t].phase \in {"lookup", "nonce", "verified"} =>
           /\ verifying[t].request.agent # None
           /\ CallerIs(t, verifying[t].request.agent)
    /\ verifying[t].phase = "verified" => Certified(t, verifying[t].request.agent)

\* Behind auth the call of an enforced operation is bound to whom verify() accepted.
BoundOK(t) ==
    calls[t].phase = "down" /\ Enforced(t) /\ PastAuth(t) =>
        /\ calls[t].agent # None
        /\ CallerIs(t, calls[t].agent)
        /\ Certified(t, calls[t].agent)
        /\ calls[t].operation = "send" => calls[t].input.sender = calls[t].agent

\* What EffectsAreCertified says of each effect, and that its request stays.
EffectOK(e) ==
    /\ e.task \in Tasks /\ tasks[e.task].phase # "idle"
    /\ e.operation \in EnforcedOperations => Certified(e.task, e.agent)
    /\ e.operation = "send" =>
           e.messages[1] \in DOMAIN log /\ log[e.messages[1]].sender = e.agent
    /\ e.operation \notin {"list_channels", "replay"} => CallerIs(e.task, e.agent)
    /\ tasks[e.task].request.via = "http" => CallerIs(e.task, e.agent)

\* What the store did for t of what is enforced, what verify() accepted for t, and the
\* acceptance the store has not acted on yet.
Acts(t) == {i \in DOMAIN effects : /\ effects[i].task = t
                                   /\ effects[i].operation \in EnforcedOperations}
Bills(t) == {x \in accepted : x.task = t}
Owes(t) == \/ verifying[t].phase = "verified"
           \/ calls[t].phase = "down" /\ Enforced(t) /\ PastAuth(t)

\* No act without an acceptance of its own; a new acceptance is a new one, because it is
\* read later than any older one of its task was spent.
CountOK(t) ==
    /\ Cardinality(Acts(t)) + (IF Owes(t) THEN 1 ELSE 0) <= Cardinality(Bills(t))
    /\ verifying[t].phase \in {"lookup", "nonce"} =>
           \A x \in Bills(t) : x.spent <= verifying[t].now

CertInv ==
    /\ NonceInv
    /\ ShapeOK
    /\ \A t \in Tasks : AskedOK(t) /\ OriginOK(t) /\ PresentedOK(t) /\ BoundOK(t)
    /\ \A i \in DOMAIN effects : EffectOK(effects[i])
    /\ \A t \in Tasks : CountOK(t)

-----------------------------------------------------------------------------

\* The task of t goes on to this phase with this request, and the others stay.
TaskGoes(t, phase, request) ==
    /\ tasks' = [u \in Tasks |-> tasks'[u]]
    /\ \A u \in Tasks \ {t} : tasks'[u] = tasks[u]
    /\ DOMAIN tasks'[t] = DOMAIN NoTask
    /\ tasks'[t].phase = phase /\ tasks'[t].request = request

\* What only the tasks do.
Aside == UNCHANGED <<calls, verifying, accepted, seenNonces, chain, scenario, log, effects>>

LEMMA TasksWrite ==
    ASSUME ShapeOK, NEW t \in Tasks
    PROVE  /\ \A r, p : Take(t, r, p) => TaskGoes(t, p, r)
           /\ \A answer : AnswerWith(t, answer) => TaskGoes(t, "answered", tasks[t].request)
           /\ \A p : tasks' = [tasks EXCEPT ![t].phase = p] => TaskGoes(t, p, tasks[t].request)
           /\ \A b : tasks' = [tasks EXCEPT ![t].expired = b]
                      => TaskGoes(t, tasks[t].phase, tasks[t].request)
           /\ \A p, r, answer :
                 tasks' = [tasks EXCEPT ![t].phase = p, ![t].request = r, ![t].answer = answer]
                 => TaskGoes(t, p, r)
           /\ \A p, n : tasks' = [tasks EXCEPT ![t].phase = p, ![t].round = n]
                      => TaskGoes(t, p, tasks[t].request)
           /\ \A p, r, n :
                 tasks' = [tasks EXCEPT ![t].phase = p, ![t].request = r, ![t].round = n]
                 => TaskGoes(t, p, r)
           /\ \A p, c : tasks' = [tasks EXCEPT ![t].phase = p, ![t].collected = c]
                      => TaskGoes(t, p, tasks[t].request)
<1> DEFINE fields == {"phase", "request", "round", "collected", "expired", "answer"}
<1>1. DOMAIN NoTask = fields
  BY DEF NoTask
<1>2. DOMAIN tasks = Tasks /\ DOMAIN tasks[t] = fields
  BY <1>1 DEF ShapeOK
<1>3. \A r, p : Take(t, r, p) => TaskGoes(t, p, r)
  BY <1>1, <1>2 DEF Take, TaskGoes
<1>4. \A answer : AnswerWith(t, answer) => TaskGoes(t, "answered", tasks[t].request)
  BY <1>1, <1>2 DEF AnswerWith, TaskGoes
<1>5. \A p : tasks' = [tasks EXCEPT ![t].phase = p] => TaskGoes(t, p, tasks[t].request)
  BY <1>1, <1>2 DEF TaskGoes
<1>6. \A b : tasks' = [tasks EXCEPT ![t].expired = b]
             => TaskGoes(t, tasks[t].phase, tasks[t].request)
  BY <1>1, <1>2 DEF TaskGoes
<1>7. \A p, r, answer :
         tasks' = [tasks EXCEPT ![t].phase = p, ![t].request = r, ![t].answer = answer]
         => TaskGoes(t, p, r)
  <2> SUFFICES ASSUME NEW p, NEW r, NEW a,
                      tasks' = [tasks EXCEPT ![t].phase = p, ![t].request = r, ![t].answer = a]
               PROVE  TaskGoes(t, p, r)
    OBVIOUS
  <2>1. tasks'[t] = [[[tasks[t] EXCEPT !.phase = p] EXCEPT !.request = r] EXCEPT !.answer = a]
    BY <1>2
  <2>2. DOMAIN tasks'[t] = fields /\ tasks'[t].phase = p /\ tasks'[t].request = r
    BY <1>2, <2>1
  <2>3. tasks' = [u \in Tasks |-> tasks'[u]] /\ \A u \in Tasks \ {t} : tasks'[u] = tasks[u]
    BY <1>2
  <2> QED
    BY <1>1, <2>2, <2>3 DEF TaskGoes
<1>8. \A p, n : tasks' = [tasks EXCEPT ![t].phase = p, ![t].round = n]
             => TaskGoes(t, p, tasks[t].request)
  BY <1>1, <1>2 DEF TaskGoes
<1>9. \A p, r, n :
         tasks' = [tasks EXCEPT ![t].phase = p, ![t].request = r, ![t].round = n]
         => TaskGoes(t, p, r)
  <2> SUFFICES ASSUME NEW p, NEW r, NEW n,
                      tasks' = [tasks EXCEPT ![t].phase = p, ![t].request = r, ![t].round = n]
               PROVE  TaskGoes(t, p, r)
    OBVIOUS
  <2>1. tasks'[t] = [[[tasks[t] EXCEPT !.phase = p] EXCEPT !.request = r] EXCEPT !.round = n]
    BY <1>2
  <2>2. DOMAIN tasks'[t] = fields /\ tasks'[t].phase = p /\ tasks'[t].request = r
    BY <1>2, <2>1
  <2>3. tasks' = [u \in Tasks |-> tasks'[u]] /\ \A u \in Tasks \ {t} : tasks'[u] = tasks[u]
    BY <1>2
  <2> QED
    BY <1>1, <2>2, <2>3 DEF TaskGoes
<1>10. \A p, c : tasks' = [tasks EXCEPT ![t].phase = p, ![t].collected = c]
             => TaskGoes(t, p, tasks[t].request)
  BY <1>1, <1>2 DEF TaskGoes
<1> QED
  BY <1>3, <1>4, <1>5, <1>6, <1>7, <1>8, <1>9, <1>10

\* A task that goes on beside its call, or has none yet, changes nothing the call is about.
LEMMA AsideKeeps ==
    ASSUME CertInv, NonceInv', NEW t \in Tasks, NEW phase, NEW request,
           Aside, TaskGoes(t, phase, request),
           Live(t) => phase = tasks[t].phase,
           tasks[t].phase # "idle" => phase # "idle" /\ request = tasks[t].request,
           phase # "idle" => /\ request.via \in {"http", "mcp", "host"}
                             /\ request.input \in ClientInputs,
           request.via = "http" /\ phase \notin {"idle", "answered"} => request.token # None
    PROVE  CertInv'
<1>1. ASSUME NEW u \in Tasks
      PROVE  /\ DOMAIN tasks'[u] = DOMAIN NoTask
             /\ tasks[u].phase # "idle" => /\ tasks'[u].phase # "idle"
                                           /\ tasks'[u].request = tasks[u].request
             /\ Live(u) => /\ tasks'[u].phase = tasks[u].phase
                           /\ tasks'[u].request = tasks[u].request
  <2>1. Live(u) => tasks[u].phase # "idle"
    BY DEF CertInv, OriginOK
  <2> QED
    BY <2>1 DEF TaskGoes, CertInv, ShapeOK
<1>2. ShapeOK'
  <2>1. ShapeOK
    BY DEF CertInv
  <2> QED
    BY <1>1, <2>1 DEF ShapeOK, Aside, TaskGoes, Live
<1>3. ASSUME NEW u \in Tasks
      PROVE  AskedOK(u)'
  <2>1. CASE u = t
    BY <2>1 DEF TaskGoes, AskedOK
  <2>2. CASE u # t
    BY <2>2 DEF TaskGoes, AskedOK, CertInv
  <2> QED
    BY <2>1, <2>2
<1>4. ASSUME NEW u \in Tasks
      PROVE  OriginOK(u)'
  <2>1. OriginOK(u)
    BY DEF CertInv
  <2> QED
    BY <1>1, <2>1 DEF OriginOK, Aside, Live, Enforced, CallerIs
<1>5. ASSUME NEW u \in Tasks
      PROVE  PresentedOK(u)' /\ BoundOK(u)'
  <2>1. PresentedOK(u) /\ BoundOK(u)
    BY DEF CertInv
  <2>2. /\ calls'[u] = calls[u] /\ verifying'[u] = verifying[u]
        /\ accepted' = accepted /\ chain' = chain
    BY DEF Aside
  <2>3. CASE Live(u)
    BY <1>1, <2>1, <2>2, <2>3 DEF PresentedOK, BoundOK, Enforced, PastAuth, CallerIs, Certified
  <2>4. CASE ~Live(u)
    BY <2>1, <2>2, <2>4 DEF PresentedOK, BoundOK, Live
  <2> QED
    BY <2>3, <2>4
<1>6. ASSUME NEW i \in DOMAIN effects'
      PROVE  EffectOK(effects[i])'
  <2>1. EffectOK(effects[i])
    BY DEF CertInv, Aside
  <2>2. effects'[i] = effects[i] /\ log' = log /\ accepted' = accepted
    BY DEF Aside
  <2> DEFINE e == effects[i]
  <2>3. e.task \in Tasks /\ tasks[e.task].phase # "idle"
    BY <2>1 DEF EffectOK
  <2>4. tasks'[e.task].phase # "idle" /\ tasks'[e.task].request = tasks[e.task].request
    BY <1>1, <2>3
  <2> QED
    BY <2>1, <2>2, <2>4 DEF EffectOK, Certified, CallerIs
<1>7. ASSUME NEW u \in Tasks
      PROVE  CountOK(u)'
  BY DEF CertInv, Aside, CountOK, Acts, Bills, Owes, Enforced, PastAuth
<1> QED
  BY <1>2, <1>3, <1>4, <1>5, <1>6, <1>7 DEF CertInv

LEMMA NothingKeeps ==
    ASSUME CertInv, NonceInv', Aside, tasks' = tasks
    PROVE  CertInv'
<1>1. ShapeOK'
  BY DEF CertInv, ShapeOK, Aside, Live
<1>2. ASSUME NEW u \in Tasks
      PROVE  (AskedOK(u) /\ OriginOK(u) /\ PresentedOK(u) /\ BoundOK(u) /\ CountOK(u))'
  BY DEF CertInv, Aside, AskedOK, OriginOK, PresentedOK, BoundOK, CountOK, Acts, Bills,
         Owes, Live, Enforced, PastAuth, CallerIs, Certified
<1>3. ASSUME NEW i \in DOMAIN effects'
      PROVE  EffectOK(effects[i])'
  BY DEF CertInv, Aside, EffectOK, Certified, CallerIs
<1> QED
  BY <1>1, <1>2, <1>3 DEF CertInv

\* What a task may be asked.
LEMMA RequestsAsked ==
    ASSUME CertInv, NEW t \in DOMAIN scenario.requests, NEW r \in scenario.requests[t]
    PROVE  t \in Tasks /\ r.via \in {"http", "mcp", "host"} /\ r.input \in ClientInputs
  BY RequestsAssumption DEF CertInv, ShapeOK

\* A call whose task is not in "dispatch" is not on its way.
LEMMA NotLive ==
    ASSUME CertInv, NEW t \in Tasks
    PROVE  /\ tasks[t].phase # "dispatch" => ~Live(t)
           /\ calls[t].phase = "returned" => ~Live(t)
           /\ verifying[t].phase # "none" => Live(t)
  BY DEF CertInv, OriginOK, PresentedOK, Live

\* A task arrives without a call.
LEMMA ArriveAside ==
    ASSUME CertInv, NonceInv', NEW t \in DOMAIN scenario.requests,
           HttpRefuse(t) \/ HttpArrive(t) \/ McpArrive(t)
    PROVE  CertInv'
<1>1. Aside /\ tasks[t].phase = "idle"
  BY DEF HttpRefuse, HttpArrive, McpArrive, identityVars, pipelineVars, Aside
<1>2. t \in Tasks
  BY RequestsAssumption DEF CertInv, ShapeOK
<1>3. ~Live(t)
  BY <1>1, <1>2, NotLive
<1>4. \A r, p, a :
         tasks' = [tasks EXCEPT ![t].phase = p, ![t].request = r, ![t].answer = a]
         => TaskGoes(t, p, r)
  BY <1>2, TasksWrite DEF CertInv
<1>5. \A r, p : Take(t, r, p) => TaskGoes(t, p, r)
  BY <1>2, TasksWrite DEF CertInv
<1>6. ASSUME NEW r \in scenario.requests[t], NEW p, TaskGoes(t, p, r),
             p \in {"look", "sign", "answered"},
             r.via = "http" /\ p # "answered" => r.token # None
      PROVE  CertInv'
  BY <1>1, <1>2, <1>3, <1>6, AsideKeeps, RequestsAsked
<1>7. CASE HttpRefuse(t)
  <2>1. PICK r \in scenario.requests[t] : TaskGoes(t, "answered", r)
    BY <1>4, <1>7 DEF HttpRefuse
  <2> QED
    BY <1>6, <2>1
<1>8. CASE HttpArrive(t)
  <2>1. PICK r \in scenario.requests[t] :
            r.token # None /\ (TaskGoes(t, "look", r) \/ TaskGoes(t, "sign", r))
    BY <1>5, <1>8 DEF HttpArrive
  <2> QED
    BY <1>6, <2>1
<1>9. CASE McpArrive(t)
  <2>1. PICK r \in scenario.requests[t] :
            r.via = "mcp" /\ (TaskGoes(t, "sign", r) \/ TaskGoes(t, "answered", r))
    BY <1>4, <1>5, <1>9 DEF McpArrive
  <2> QED
    BY <1>6, <2>1
<1> QED
  BY <1>7, <1>8, <1>9

\* A task goes on between its dispatches.
LEMMA ServeAside ==
    ASSUME CertInv, NonceInv', NEW t \in Tasks,
           \/ HttpLook(t) \/ HttpRegister(t) \/ HttpReturn(t) \/ HttpCollected(t)
           \/ HttpPoll(t) \/ McpReturn(t) \/ HostReturn(t)
    PROVE  CertInv'
<1>1. Aside
  BY DEF HttpLook, HttpRegister, HttpReturn, HttpCollected, HttpPoll, McpReturn,
         HostReturn, identityVars, pipelineVars, Aside
<1>2. \/ tasks[t].phase \in {"look", "register", "poll"}
      \/ (tasks[t].phase = "dispatch" /\ calls[t].phase = "returned")
  <2>1. CASE HttpLook(t) \/ HttpRegister(t) \/ HttpPoll(t)
    <3>1. HttpLook(t) => tasks[t].phase = "look"
      BY DEF HttpLook
    <3>2. HttpRegister(t) => tasks[t].phase = "register"
      BY DEF HttpRegister
    <3>3. HttpPoll(t) => tasks[t].phase = "poll"
      BY DEF HttpPoll
    <3> QED
      BY <2>1, <3>1, <3>2, <3>3
  <2>2. CASE HttpReturn(t) \/ McpReturn(t) \/ HostReturn(t)
    BY <2>2 DEF HttpReturn, McpReturn, HostReturn, Returned
  <2>3. CASE HttpCollected(t)
    BY <2>3 DEF HttpCollected, Returned
  <2> QED
    BY <2>1, <2>2, <2>3
<1>3. ~Live(t) /\ tasks[t].phase \notin {"idle", "answered"}
  BY <1>2, NotLive
<1>4. PICK p \in {"look", "register", "sign", "poll", "answered"} :
          TaskGoes(t, p, tasks[t].request)
  <2>1. ShapeOK
    BY DEF CertInv
  <2>2. CASE HttpReturn(t) \/ McpReturn(t) \/ HostReturn(t)
    <3>1. \A answer : AnswerWith(t, answer) => TaskGoes(t, "answered", tasks[t].request)
      BY <2>1, TasksWrite
    <3> QED
      BY <2>2, <3>1 DEF HttpReturn, McpReturn, HostReturn
  <2>3. CASE HttpLook(t) \/ HttpRegister(t)
    <3>1. \A p : tasks' = [tasks EXCEPT ![t].phase = p] => TaskGoes(t, p, tasks[t].request)
      BY <2>1, TasksWrite
    <3> QED
      BY <2>3, <3>1 DEF HttpLook, HttpRegister
  <2>4. CASE HttpPoll(t)
    <3>1. /\ \A p : tasks' = [tasks EXCEPT ![t].phase = p] => TaskGoes(t, p, tasks[t].request)
          /\ \A answer : AnswerWith(t, answer) => TaskGoes(t, "answered", tasks[t].request)
      BY <2>1, TasksWrite
    <3> QED
      BY <2>4, <3>1 DEF HttpPoll
  <2>5. CASE HttpCollected(t)
    <3>1. PICK c : tasks' = [tasks EXCEPT ![t].phase = "poll", ![t].collected = c]
      BY <2>5 DEF HttpCollected
    <3>2. \A p, k : tasks' = [tasks EXCEPT ![t].phase = p, ![t].collected = k]
                    => TaskGoes(t, p, tasks[t].request)
      BY <2>1, TasksWrite
    <3> QED
      BY <3>1, <3>2
  <2> QED
    BY <2>2, <2>3, <2>4, <2>5
<1>5. AskedOK(t)
  BY DEF CertInv
<1> QED
  BY <1>1, <1>3, <1>4, <1>5, AsideKeeps DEF AskedOK

\* What holds of a task holds on while others move.
LEMMA OthersKeep ==
    ASSUME CertInv, NEW u \in Tasks,
           tasks'[u] = tasks[u], calls'[u] = calls[u], verifying'[u] = verifying[u],
           chain' = chain, accepted \subseteq accepted',
           Bills(u)' = Bills(u), Acts(u)' = Acts(u)
    PROVE  (AskedOK(u) /\ OriginOK(u) /\ PresentedOK(u) /\ BoundOK(u) /\ CountOK(u))'
<1>1. AskedOK(u) /\ OriginOK(u) /\ PresentedOK(u) /\ BoundOK(u) /\ CountOK(u)
  BY DEF CertInv
<1>2. AskedOK(u)' /\ OriginOK(u)'
  BY <1>1 DEF AskedOK, OriginOK, Live, Enforced, CallerIs
<1>3. PresentedOK(u)' /\ BoundOK(u)'
  BY <1>1 DEF PresentedOK, BoundOK, Enforced, PastAuth, CallerIs, Certified
<1>4. CountOK(u)'
  BY <1>1 DEF CountOK, Owes, Enforced, PastAuth
<1> QED
  BY <1>2, <1>3, <1>4

\* The effects so far stay certified while no task forgets its request.
LEMMA EffectsKeep ==
    ASSUME CertInv, accepted \subseteq accepted',
           \A u \in Tasks : tasks[u].phase # "idle" =>
               tasks'[u].phase # "idle" /\ tasks'[u].request = tasks[u].request,
           DOMAIN log \subseteq DOMAIN log', \A n \in DOMAIN log : log'[n] = log[n],
           NEW i \in DOMAIN effects, effects'[i] = effects[i]
    PROVE  EffectOK(effects[i])'
<1> DEFINE e == effects[i]
<1>1. EffectOK(e)
  BY DEF CertInv
<1>2. e.task \in Tasks /\ tasks[e.task].phase # "idle"
  BY <1>1 DEF EffectOK
<1>3. tasks'[e.task].phase # "idle" /\ tasks'[e.task].request = tasks[e.task].request
  BY <1>2
<1>4. e.operation = "send" => e.messages[1] \in DOMAIN log' /\ log'[e.messages[1]].sender = e.agent
  BY <1>1 DEF EffectOK
<1> QED
  BY <1>1, <1>3, <1>4 DEF EffectOK, Certified, CallerIs

\* A dispatch begins, with what the transport put in.
LEMMA DispatchKeeps ==
    ASSUME CertInv, NonceInv', NEW t \in Tasks,
           NEW operation, NEW input, NEW credential, NEW hint, NEW request,
           Dispatch(t, operation, input, credential, hint),
           TaskGoes(t, "dispatch", request), UNCHANGED <<identityVars, scenario>>,
           ~Live(t), tasks[t].phase # "idle" => request = tasks[t].request,
           request.via \in {"http", "mcp", "host"}, request.input \in ClientInputs,
           DOMAIN input = DOMAIN NoInput,
           request.via # "mcp" => /\ input.agent_id = None /\ input.creator_id = None
                                  /\ input.inviter_id = None,
           request.via = "http" => /\ request.token # None /\ hint = request.token
                                   /\ credential.agent = request.token
                                   /\ input.signed_request = None,
           request.via = "mcp" =>
               /\ CASE operation \in {"send", "list_channels", "replay"} -> TRUE
                    [] operation = "group_create" -> input.creator_id = ServerAgent
                    [] operation = "group_invite" -> input.inviter_id = ServerAgent
                    [] OTHER -> input.agent_id = ServerAgent
               /\ credential.agent = ServerAgent /\ input.signed_request = None
    PROVE  CertInv'
<1> DEFINE new == [phase |-> "down", at |-> 1, operation |-> operation, input |-> input,
                   credential |-> credential, hint |-> hint, agent |-> None,
                   result |-> None, trace |-> [i \in DOMAIN chain |-> Skipped]]
<1>1. /\ calls' = [calls EXCEPT ![t] = new]
      /\ UNCHANGED <<chain, log, effects, accepted, verifying, scenario>>
  BY DEF Dispatch, identityVars
<1>2. ShapeOK
  BY DEF CertInv
<1>3. calls'[t] = new /\ \A u \in Tasks \ {t} : calls'[u] = calls[u]
  BY <1>1, <1>2 DEF ShapeOK
<1>4. tasks'[t].phase = "dispatch" /\ tasks'[t].request = request
      /\ \A u \in Tasks \ {t} : tasks'[u] = tasks[u]
  BY DEF TaskGoes
<1>5. DOMAIN new = DOMAIN NoCall
  BY DEF NoCall
<1>6. ShapeOK'
  <2>1. calls' = [u \in Tasks |-> calls'[u]]
    BY <1>1, <1>2 DEF ShapeOK
  <2>2. ASSUME NEW u \in Tasks
        PROVE  /\ DOMAIN tasks'[u] = DOMAIN NoTask
               /\ DOMAIN calls'[u] = DOMAIN NoCall
               /\ Live(u)' => DOMAIN calls'[u].input = DOMAIN NoInput
    <3>1. CASE u = t
      BY <1>3, <1>5, <3>1 DEF TaskGoes
    <3>2. CASE u # t
      BY <1>2, <1>3, <1>4, <3>2 DEF ShapeOK, Live
    <3> QED
      BY <3>1, <3>2
  <2> HIDE DEF new
  <2> QED
    BY <1>1, <1>2, <2>1, <2>2 DEF ShapeOK, TaskGoes
<1>7. verifying[t].phase = "none"
  BY NotLive
<1>8. ~PastAuth(t)'
  <2>1. chain \in Seq(STRING)
    BY <1>2, RequestsAssumption DEF ShapeOK
  <2>2. calls'[t].at = 1 /\ chain' = chain
    BY <1>1, <1>3
  <2> QED
    BY <2>1, <2>2 DEF PastAuth
<1>9. Bills(t)' = Bills(t) /\ Acts(t)' = Acts(t) /\ verifying'[t] = verifying[t]
  BY <1>1 DEF Bills, Acts
<1>10. (AskedOK(t) /\ OriginOK(t) /\ PresentedOK(t) /\ BoundOK(t) /\ CountOK(t))'
  <2>1. AskedOK(t)'
    BY <1>4 DEF AskedOK
  <2>2. OriginOK(t)'
    BY <1>3, <1>4 DEF OriginOK, Live, Enforced, CallerIs
  <2>3. PresentedOK(t)'
    BY <1>7, <1>9 DEF PresentedOK
  <2>4. BoundOK(t)'
    BY <1>8 DEF BoundOK
  <2>5. CountOK(t)'
    <3>1. ~Owes(t)'
      BY <1>7, <1>8, <1>9 DEF Owes
    <3>2. Cardinality(Acts(t)) + (IF Owes(t) THEN 1 ELSE 0) <= Cardinality(Bills(t))
      BY DEF CertInv, CountOK
    <3>3. ~Owes(t)
      BY <1>7 DEF Owes, Live
    <3> QED
      BY <1>7, <1>9, <3>1, <3>2, <3>3 DEF CountOK
  <2> QED
    BY <2>1, <2>2, <2>3, <2>4, <2>5
<1>11. ASSUME NEW u \in Tasks
       PROVE  (AskedOK(u) /\ OriginOK(u) /\ PresentedOK(u) /\ BoundOK(u) /\ CountOK(u))'
  <2>1. CASE u # t
    <3>1. Bills(u)' = Bills(u) /\ Acts(u)' = Acts(u)
      BY <1>1 DEF Bills, Acts
    <3> QED
      BY <1>1, <1>3, <1>4, <2>1, <3>1, OthersKeep
  <2> QED
    BY <1>10, <2>1
<1>12. ASSUME NEW i \in DOMAIN effects'
       PROVE  EffectOK(effects[i])'
  <2> HIDE DEF new
  <2> QED
    BY <1>1, <1>4, EffectsKeep
<1> QED
  BY <1>6, <1>11, <1>12 DEF CertInv

\* A client's input has all fields, and those of the transports are empty.
LEMMA ClientInputIs ==
    ASSUME NEW input \in ClientInputs
    PROVE  /\ DOMAIN input = DOMAIN NoInput
           /\ input.agent_id = None /\ input.creator_id = None /\ input.inviter_id = None
           /\ input.signed_request = None
  BY DEF ClientInputs, NoInput

\* The input of an MCP tool names the agent of the server where the store looks for it.
LEMMA McpInputIs ==
    ASSUME NEW r, r.input \in ClientInputs
    PROVE  /\ DOMAIN McpInput(r) = DOMAIN NoInput
           /\ McpInput(r).signed_request = None
           /\ CASE r.operation \in {"send", "list_channels", "replay"} -> TRUE
                [] r.operation = "group_create" -> McpInput(r).creator_id = ServerAgent
                [] r.operation = "group_invite" -> McpInput(r).inviter_id = ServerAgent
                [] OTHER -> McpInput(r).agent_id = ServerAgent
<1>1. /\ DOMAIN r.input = {"conforms", "sender", "agent_id", "creator_id", "inviter_id",
                           "signed_request", "channel", "channels", "about", "max"}
      /\ DOMAIN NoInput = DOMAIN r.input
      /\ r.input.signed_request = None
  BY ClientInputIs DEF NoInput
<1>2. CASE r.operation \in {"send", "list_channels", "replay"}
  BY <1>1, <1>2 DEF McpInput
<1>3. CASE r.operation = "channels_collect"
  <2>1. McpInput(r) = [McpCollectInput(r) EXCEPT !.conforms = FALSE]
    BY <1>3 DEF McpInput
  <2>2. /\ DOMAIN McpCollectInput(r) = DOMAIN r.input
        /\ McpCollectInput(r).signed_request = None
        /\ McpCollectInput(r).agent_id = ServerAgent
    <3>1. PICK c, m : McpCollectInput(r) =
              [r.input EXCEPT !.agent_id = ServerAgent, !.channels = c, !.max = m]
      BY DEF McpCollectInput
    <3> QED
      BY <1>1, <3>1
  <2> QED
    BY <1>1, <1>3, <2>1, <2>2
<1>4. CASE r.operation \notin {"send", "list_channels", "replay", "channels_collect"}
  <2>1. McpInput(r) = [McpGroupInput(r) EXCEPT !.conforms = FALSE]
    BY <1>4 DEF McpInput
  <2>2. /\ DOMAIN McpGroupInput(r) = DOMAIN r.input
        /\ McpGroupInput(r).signed_request = None
        /\ CASE r.operation = "group_create" -> McpGroupInput(r).creator_id = ServerAgent
             [] r.operation = "group_invite" -> McpGroupInput(r).inviter_id = ServerAgent
             [] OTHER -> McpGroupInput(r).agent_id = ServerAgent
    BY <1>1 DEF McpGroupInput
  <2> QED
    BY <1>1, <1>4, <2>1, <2>2
<1> QED
  BY <1>2, <1>3, <1>4

\* The three ways a dispatch begins.
LEMMA DispatchSteps ==
    ASSUME CertInv, NonceInv', NEW t \in Tasks,
           \/ HttpSign(t) \/ McpSign(t)
           \/ (t \in DOMAIN scenario.requests /\ HostArrive(t))
    PROVE  CertInv'
<1> DEFINE r == tasks[t].request
<1>1. ShapeOK /\ AskedOK(t)
  BY DEF CertInv
<1>2. CASE HttpSign(t)
  <2>1. /\ tasks[t].phase = "sign" /\ r.via = "http"
        /\ Dispatch(t, HttpOperation(t), HttpInput(t),
                    ResolveServerCredential(t, r.token), r.token)
        /\ UNCHANGED <<identityVars, scenario>>
    BY <1>2 DEF HttpSign
  <2>2. r.input \in ClientInputs /\ r.token # None
    BY <1>1, <2>1 DEF AskedOK
  <2>3. TaskGoes(t, "dispatch", r)
    <3>1. PICK k : tasks' = [tasks EXCEPT ![t].phase = "dispatch", ![t].round = k]
      BY <1>2 DEF HttpSign
    <3>2. \A p, n : tasks' = [tasks EXCEPT ![t].phase = p, ![t].round = n]
                    => TaskGoes(t, p, tasks[t].request)
      BY <1>1, TasksWrite
    <3> QED
      BY <3>1, <3>2
  <2>4. ResolveServerCredential(t, r.token).agent = r.token
    BY DEF ResolveServerCredential, SignedRequest
  <2>5. /\ DOMAIN HttpInput(t) = DOMAIN NoInput
        /\ HttpInput(t).agent_id = None /\ HttpInput(t).creator_id = None
        /\ HttpInput(t).inviter_id = None /\ HttpInput(t).signed_request = None
    <3>1. CASE tasks[t].round = 0
      BY <2>2, <3>1, ClientInputIs DEF HttpInput
    <3>2. CASE tasks[t].round # 0
      <4>1. PICK m : HttpInput(t) = [NoInput EXCEPT !.max = m]
        BY <3>2 DEF HttpInput
      <4> QED
        BY <4>1 DEF NoInput
    <3> QED
      BY <3>1, <3>2
  <2>6. ~Live(t)
    BY <2>1, NotLive
  <2> QED
    BY <2>1, <2>2, <2>3, <2>4, <2>5, <2>6, DispatchKeeps
<1>3. CASE McpSign(t)
  <2>1. /\ tasks[t].phase = "sign" /\ r.via = "mcp"
        /\ Dispatch(t, r.operation, McpInput(r), ResolveServerCredential(t, ServerAgent), None)
        /\ UNCHANGED <<identityVars, scenario>>
    BY <1>3 DEF McpSign
  <2>2. r.input \in ClientInputs
    BY <1>1, <2>1 DEF AskedOK
  <2>3. TaskGoes(t, "dispatch", r)
    <3>1. PICK k : tasks' = [tasks EXCEPT ![t].phase = "dispatch", ![t].round = k]
      BY <1>3 DEF McpSign
    <3>2. \A p, n : tasks' = [tasks EXCEPT ![t].phase = p, ![t].round = n]
                    => TaskGoes(t, p, tasks[t].request)
      BY <1>1, TasksWrite
    <3> QED
      BY <3>1, <3>2
  <2>4. ResolveServerCredential(t, ServerAgent).agent = ServerAgent
    BY DEF ResolveServerCredential, SignedRequest
  <2>5. ~Live(t)
    BY <2>1, NotLive
  <2> QED
    BY <2>1, <2>2, <2>3, <2>4, <2>5, McpInputIs, DispatchKeeps
<1>4. CASE t \in DOMAIN scenario.requests /\ HostArrive(t)
  <2>1. PICK q \in scenario.requests[t] :
            /\ q.via = "host"
            /\ \/ Dispatch(t, q.operation, q.input, q.signed, None)
               \/ Dispatch(t, q.operation, [q.input EXCEPT !.signed_request = q.signed],
                           None, None)
            /\ tasks' = [tasks EXCEPT ![t].phase = "dispatch", ![t].request = q,
                                      ![t].round = 1]
    BY <1>4 DEF HostArrive
  <2>2. tasks[t].phase = "idle" /\ UNCHANGED <<identityVars, scenario>>
    BY <1>4 DEF HostArrive
  <2>3. TaskGoes(t, "dispatch", q)
    <3>1. \A p, request, n :
             tasks' = [tasks EXCEPT ![t].phase = p, ![t].request = request, ![t].round = n]
             => TaskGoes(t, p, request)
      BY <1>1, TasksWrite
    <3> QED
      BY <2>1, <3>1
  <2>4. q.input \in ClientInputs
    BY <1>4, RequestsAsked
  <2>5. ~Live(t)
    BY <2>2, NotLive
  <2>6. ASSUME NEW input, NEW signed, DOMAIN input = DOMAIN NoInput,
               input.agent_id = None, input.creator_id = None, input.inviter_id = None,
               Dispatch(t, q.operation, input, signed, None)
        PROVE  CertInv'
    BY <2>1, <2>2, <2>3, <2>4, <2>5, <2>6, DispatchKeeps
  <2>7. CASE Dispatch(t, q.operation, q.input, q.signed, None)
    BY <2>4, <2>6, <2>7, ClientInputIs
  <2>8. CASE Dispatch(t, q.operation, [q.input EXCEPT !.signed_request = q.signed], None, None)
    <3> DEFINE input == [q.input EXCEPT !.signed_request = q.signed]
    <3>1. /\ DOMAIN input = DOMAIN NoInput
          /\ input.agent_id = None /\ input.creator_id = None /\ input.inviter_id = None
      BY <2>4, ClientInputIs DEF NoInput
    <3> HIDE DEF input
    <3> QED
      BY <2>6, <2>8, <3>1 DEF input
  <2> QED
    BY <2>1, <2>7, <2>8
<1> QED
  BY <1>2, <1>3, <1>4

-----------------------------------------------------------------------------

\* The call of t becomes new; nobody else's changes, and the fields are those it had.
CallGoes(t, new) ==
    /\ calls' = [calls EXCEPT ![t] = new]
    /\ DOMAIN new = DOMAIN NoCall

\* Fields the steps between the middlewares leave alone.
SameCall(call, new) ==
    /\ new.operation = call.operation /\ new.input = call.input
    /\ new.credential = call.credential /\ new.hint = call.hint /\ new.agent = call.agent

LEMMA CallShape ==
    ASSUME ShapeOK, NEW t \in Tasks, NEW new, CallGoes(t, new),
           new.phase \in {"down", "auth", "up"} => DOMAIN new.input = DOMAIN NoInput,
           UNCHANGED <<tasks, chain, scenario>>, IsFiniteSet(accepted'),
           \E S : log' \in Seq(S), \E S : effects' \in Seq(S)
    PROVE  /\ ShapeOK'
           /\ calls'[t] = new
           /\ \A u \in Tasks \ {t} : calls'[u] = calls[u]
<1>1. calls'[t] = new /\ \A u \in Tasks \ {t} : calls'[u] = calls[u]
  BY DEF CallGoes, ShapeOK
<1>2. calls' = [u \in Tasks |-> calls'[u]]
  BY DEF CallGoes, ShapeOK
<1>3. ASSUME NEW u \in Tasks
      PROVE  /\ DOMAIN tasks'[u] = DOMAIN NoTask
             /\ DOMAIN calls'[u] = DOMAIN NoCall
             /\ Live(u)' => DOMAIN calls'[u].input = DOMAIN NoInput
  <2>1. CASE u = t
    BY <1>1, <2>1 DEF CallGoes, ShapeOK, Live
  <2>2. CASE u # t
    BY <1>1, <2>2 DEF ShapeOK, Live
  <2> QED
    BY <2>1, <2>2
<1> QED
  BY <1>1, <1>2, <1>3 DEF ShapeOK

\* Acts and acceptances can be counted.
LEMMA Countable ==
    ASSUME ShapeOK, NEW t \in Tasks
    PROVE  /\ IsFiniteSet(Bills(t)) /\ IsFiniteSet(Acts(t))
           /\ Cardinality(Bills(t)) \in Nat /\ Cardinality(Acts(t)) \in Nat
<1>1. IsFiniteSet(Bills(t))
  <2>1. Bills(t) \subseteq accepted /\ IsFiniteSet(accepted)
    BY DEF Bills, ShapeOK
  <2> QED
    BY <2>1, FS_Subset
<1>2. IsFiniteSet(Acts(t))
  <2>1. PICK n \in Nat : DOMAIN effects = 1 .. n
    BY DEF ShapeOK
  <2>2. Acts(t) \subseteq 1 .. n
    BY <2>1 DEF Acts
  <2>3. IsFiniteSet(1 .. n)
    BY FS_Interval
  <2> QED
    BY <2>2, <2>3, FS_Subset
<1> QED
  BY <1>1, <1>2, FS_CardinalityType

LEMMA CountableNext ==
    (ShapeOK => \A t \in Tasks : Cardinality(Acts(t)) \in Nat)'
<1>1. ShapeOK => \A t \in Tasks : Cardinality(Acts(t)) \in Nat
  BY Countable
<1> QED
  BY <1>1, PTL

\* A call passes a middleware that is not auth, turns back, or leaves one on its way up.
LEMMA MoveKeeps ==
    ASSUME CertInv, NonceInv', NEW t \in Tasks, NEW new, CallGoes(t, new),
           SameCall(calls[t], new), calls[t].phase \in {"down", "up"},
           UNCHANGED <<tasks, verifying, accepted, chain, scenario, log, effects>>,
           \/ new.phase \in {"up", "returned"}
           \/ /\ new.phase = "down" /\ calls[t].phase = "down"
              /\ calls[t].at \in DOMAIN chain /\ new.at = calls[t].at + 1
              /\ chain[calls[t].at] = "auth" => ~Enforced(t)
    PROVE  CertInv'
<1>1. ShapeOK /\ Live(t) /\ verifying[t].phase = "none"
  BY DEF CertInv, Live, PresentedOK
<1>2. ShapeOK' /\ calls'[t] = new /\ \A u \in Tasks \ {t} : calls'[u] = calls[u]
  <2>1. DOMAIN new.input = DOMAIN NoInput
    BY <1>1 DEF ShapeOK, SameCall
  <2>2. IsFiniteSet(accepted') /\ (\E S : log' \in Seq(S)) /\ (\E S : effects' \in Seq(S))
    BY <1>1 DEF ShapeOK
  <2> QED
    BY <1>1, <2>1, <2>2, CallShape
<1>3. AskedOK(t)' /\ OriginOK(t)' /\ PresentedOK(t)'
  <2>1. AskedOK(t) /\ OriginOK(t)
    BY DEF CertInv
  <2>2. AskedOK(t)'
    BY <2>1 DEF AskedOK
  <2>3. OriginOK(t)'
    BY <1>1, <1>2, <2>1 DEF OriginOK, SameCall, Enforced, CallerIs
  <2>4. PresentedOK(t)'
    BY <1>1 DEF PresentedOK
  <2> QED
    BY <2>2, <2>3, <2>4
<1>4. new.phase = "down" /\ Enforced(t)' /\ PastAuth(t)' =>
          calls[t].phase = "down" /\ Enforced(t) /\ PastAuth(t)
  <2> SUFFICES ASSUME new.phase = "down", Enforced(t)', PastAuth(t)'
               PROVE  calls[t].phase = "down" /\ Enforced(t) /\ PastAuth(t)
    OBVIOUS
  <2>1. Enforced(t)
    BY <1>2 DEF Enforced, SameCall
  <2>2. /\ calls[t].phase = "down" /\ calls[t].at \in DOMAIN chain
        /\ new.at = calls[t].at + 1 /\ chain[calls[t].at] # "auth"
    BY <2>1
  <2>3. PICK i \in DOMAIN chain : i < new.at /\ chain[i] = "auth"
    BY <1>2 DEF PastAuth
  <2>4. DOMAIN chain \subseteq Nat
    BY <1>1, RequestsAssumption DEF ShapeOK
  <2>5. i < calls[t].at
    BY <2>2, <2>3, <2>4
  <2> QED
    BY <2>1, <2>2, <2>3, <2>5 DEF PastAuth
<1>5. BoundOK(t)'
  <2>1. BoundOK(t)
    BY DEF CertInv
  <2> QED
    BY <1>2, <1>4, <2>1 DEF BoundOK, SameCall, CallerIs, Certified
<1>6. \A u \in Tasks : Bills(u)' = Bills(u) /\ Acts(u)' = Acts(u)
  BY DEF Bills, Acts
<1>7. CountOK(t)'
  <2>1. CountOK(t)
    BY DEF CertInv
  <2>2. Owes(t)' => Owes(t)
    BY <1>1, <1>2, <1>4 DEF Owes
  <2>3. Cardinality(Bills(t)) \in Nat /\ Cardinality(Acts(t)) \in Nat
    BY <1>1, Countable
  <2> QED
    BY <1>1, <1>6, <2>1, <2>2, <2>3 DEF CountOK
<1>8. ASSUME NEW u \in Tasks
      PROVE  (AskedOK(u) /\ OriginOK(u) /\ PresentedOK(u) /\ BoundOK(u) /\ CountOK(u))'
  <2>1. CASE u # t
    BY <1>2, <1>6, <2>1, OthersKeep
  <2> QED
    BY <1>3, <1>5, <1>7, <2>1
<1>9. ASSUME NEW i \in DOMAIN effects'
      PROVE  EffectOK(effects[i])'
  BY EffectsKeep
<1> QED
  BY <1>2, <1>8, <1>9 DEF CertInv

LEMMA GoOnCall ==
    ASSUME ShapeOK, NEW t \in Tasks, NEW call, DOMAIN call = DOMAIN NoCall, GoOn(t, call)
    PROVE  \E new : /\ CallGoes(t, new) /\ SameCall(call, new)
                    /\ new.phase = "down" /\ new.at = call.at + 1
<1> DEFINE new == [call EXCEPT !.phase = "down", !.at = @ + 1]
<1>1. DOMAIN new = DOMAIN NoCall
  OBVIOUS
<1>2. SameCall(call, new) /\ new.phase = "down" /\ new.at = call.at + 1
  BY DEF SameCall, NoCall
<1>3. calls' = [calls EXCEPT ![t] = new]
  BY DEF GoOn
<1> HIDE DEF new
<1> QED
  BY <1>1, <1>2, <1>3 DEF CallGoes

LEMMA TurnBackCall ==
    ASSUME ShapeOK, NEW t \in Tasks, NEW result, TurnBack(t, result)
    PROVE  \E new : CallGoes(t, new) /\ SameCall(calls[t], new) /\ new.phase = "up"
<1> DEFINE new == [calls[t] EXCEPT !.phase = "up", !.result = result]
<1>1. DOMAIN new = DOMAIN NoCall
  BY DEF ShapeOK
<1>2. SameCall(calls[t], new) /\ new.phase = "up"
  BY DEF SameCall, NoCall, ShapeOK
<1>3. calls' = [calls EXCEPT ![t] = new]
  BY DEF TurnBack, ShapeOK
<1> HIDE DEF new
<1> QED
  BY <1>1, <1>2, <1>3 DEF CallGoes

\* The steps between the middlewares that are not the verification and not the store.
LEMMA MoveSteps ==
    ASSUME CertInv, NonceInv', NEW t \in Tasks, UNCHANGED <<tasks, scenario>>,
           \/ SchemaStrict(t) \/ PreHooks(t) \/ EnterLog(t) \/ PassAuth(t)
           \/ MissCredential(t) \/ StoreUnsupported(t) \/ StoreRaises(t) \/ Leave(t)
    PROVE  CertInv'
<1>1. ShapeOK /\ DOMAIN calls[t] = DOMAIN NoCall
  BY DEF CertInv, ShapeOK
<1>2. UNCHANGED <<tasks, verifying, accepted, chain, scenario, log, effects>>
  BY DEF SchemaStrict, PreHooks, EnterLog, PassAuth, MissCredential, StoreUnsupported,
         StoreRaises, Leave, CallsOnly, identityVars
<1>3. ASSUME NEW result, TurnBack(t, result), calls[t].phase = "down"
      PROVE  CertInv'
  <2>1. PICK new : CallGoes(t, new) /\ SameCall(calls[t], new) /\ new.phase = "up"
    BY <1>1, <1>3, TurnBackCall
  <2> QED
    BY <1>2, <1>3, <2>1, MoveKeeps
<1>4. ASSUME GoOn(t, calls[t]), calls[t].phase = "down", calls[t].at \in DOMAIN chain,
             chain[calls[t].at] = "auth" => ~Enforced(t)
      PROVE  CertInv'
  <2>1. PICK new : /\ CallGoes(t, new) /\ SameCall(calls[t], new)
                   /\ new.phase = "down" /\ new.at = calls[t].at + 1
    BY <1>1, <1>4, GoOnCall
  <2> QED
    BY <1>2, <1>4, <2>1, MoveKeeps
<1>5. CASE SchemaStrict(t)
  BY <1>3, <1>4, <1>5 DEF SchemaStrict, Entering
<1>6. CASE PreHooks(t)
  BY <1>3, <1>4, <1>6 DEF PreHooks, Entering
<1>7. CASE EnterLog(t)
  BY <1>4, <1>7 DEF EnterLog, Entering
<1>8. CASE PassAuth(t)
  BY <1>4, <1>8 DEF PassAuth, Entering, Enforced
<1>9. CASE MissCredential(t)
  BY <1>3, <1>9 DEF MissCredential, Entering
<1>10. CASE StoreUnsupported(t)
  BY <1>3, <1>10 DEF StoreUnsupported, AtStore
<1>11. CASE StoreRaises(t)
  BY <1>3, <1>11 DEF StoreRaises, AtStore
<1>12. CASE Leave(t)
  <2>1. calls[t].phase = "up"
    BY <1>12 DEF Leave
  <2> DEFINE at == calls[t].at
             phase == IF at <= 1 THEN "returned" ELSE "up"
             trace(result) == IF at \in DOMAIN chain
                              THEN [calls[t].trace EXCEPT ![at] = Verdict(result)]
                              ELSE calls[t].trace
             left(result) == [calls[t] EXCEPT !.at = at - 1, !.result = result,
                                              !.phase = phase, !.trace = trace(result)]
  <2>2. PICK result : calls' = [calls EXCEPT ![t] = left(result)]
    BY <1>12 DEF Leave
  <2> HIDE DEF trace, phase
  <2> DEFINE new == left(result)
  <2>3. phase \in {"returned", "up"}
    BY DEF phase
  <2>4. DOMAIN new = DOMAIN NoCall /\ SameCall(calls[t], new) /\ new.phase = phase
    BY <1>1 DEF SameCall, NoCall
  <2>5. CallGoes(t, new)
    BY <2>2, <2>4 DEF CallGoes
  <2> HIDE DEF new
  <2> QED
    BY <1>2, <2>1, <2>3, <2>4, <2>5, MoveKeeps
<1> QED
  BY <1>5, <1>6, <1>7, <1>8, <1>9, <1>10, <1>11, <1>12

\* auth hands the credential to verify().
LEMMA BeginAuthKeeps ==
    ASSUME CertInv, NonceInv', NEW t \in Tasks, BeginAuth(t), UNCHANGED <<tasks, scenario>>
    PROVE  CertInv'
<1> DEFINE request == ResolveCredential(calls[t])
<1>1. /\ ShapeOK /\ AskedOK(t) /\ OriginOK(t) /\ CountOK(t) /\ VerifyingOK /\ AcceptedInPast
  BY DEF CertInv, NonceInv
<1>2. /\ calls[t].phase = "down" /\ Enforced(t) /\ request # None
      /\ UNCHANGED <<chain, log, effects, accepted>>
  BY DEF BeginAuth, BeginVerify, Entering, Enforced
<1>3. PICK signed : calls' = [calls EXCEPT ![t].phase = "auth",
                                           ![t].input.signed_request = signed]
                    /\ signed \in {None, calls[t].input.signed_request}
  <2>1. CASE calls[t].credential = None
    BY <2>1 DEF BeginAuth
  <2>2. CASE calls[t].credential # None
    BY <2>2 DEF BeginAuth
  <2> QED
    BY <2>1, <2>2
<1> DEFINE input == [calls[t].input EXCEPT !.signed_request = signed]
           new == [calls[t] EXCEPT !.phase = "auth", !.input = input]
<1>4. /\ DOMAIN calls[t] = DOMAIN NoCall /\ DOMAIN calls[t].input = DOMAIN NoInput
  BY <1>1, <1>2 DEF ShapeOK, Live
<1>5. /\ DOMAIN input = DOMAIN NoInput
      /\ input.agent_id = calls[t].input.agent_id
      /\ input.creator_id = calls[t].input.creator_id
      /\ input.inviter_id = calls[t].input.inviter_id
      /\ input.signed_request = signed
  BY <1>4 DEF NoInput
<1>6. calls' = [calls EXCEPT ![t] = new]
  BY <1>1, <1>3, <1>4 DEF ShapeOK, NoCall
<1> HIDE DEF input
<1>7. /\ DOMAIN new = DOMAIN NoCall
      /\ new.phase = "auth" /\ new.operation = calls[t].operation /\ new.input = input
      /\ new.credential = calls[t].credential /\ new.hint = calls[t].hint
      /\ new.agent = calls[t].agent
  BY <1>4 DEF NoCall
<1> HIDE DEF new
<1>8. ShapeOK' /\ calls'[t] = new /\ \A u \in Tasks \ {t} : calls'[u] = calls[u]
  <2>1. IsFiniteSet(accepted') /\ (\E S : log' \in Seq(S)) /\ (\E S : effects' \in Seq(S))
    BY <1>1, <1>2 DEF ShapeOK
  <2> QED
    BY <1>1, <1>2, <1>5, <1>6, <1>7, <2>1, CallShape DEF CallGoes
<1>9. /\ \A u \in Tasks \ {t} : verifying'[u] = verifying[u]
      /\ verifying'[t].phase \in {"refused", "broken"}
            \/ /\ verifying'[t].phase = "lookup" /\ verifying'[t].request = request
               /\ verifying'[t].now = clock /\ request.agent # None
  <2> HIDE DEF request
  <2> DEFINE call == [phase |-> "lookup", request |-> request, now |-> clock,
                      reason |-> None]
  <2>1. CASE Fail(t, call, "malformed")
    <3>1. \E phase \in {"refused", "broken"} :
              verifying' = [verifying EXCEPT ![t] =
                  [phase |-> phase, request |-> request, now |-> clock,
                   reason |-> "malformed"]]
      BY <1>1, <2>1, FailKeeps
    <3> QED
      BY <1>1, <3>1 DEF VerifyingOK
  <2>2. CASE ~Incomplete(request) /\ verifying' = [verifying EXCEPT ![t] = call]
    BY <1>1, <2>2 DEF VerifyingOK, Incomplete
  <2>3. BeginVerify(t, request)
    BY DEF BeginAuth, request
  <2> QED
    BY <2>1, <2>2, <2>3 DEF BeginVerify
<1>10. AskedOK(t)' /\ OriginOK(t)' /\ BoundOK(t)'
  <2>1. AskedOK(t)'
    BY <1>1 DEF AskedOK
  <2>2. OriginOK(t)'
    BY <1>1, <1>2, <1>3, <1>5, <1>7, <1>8 DEF OriginOK, Live, Enforced, CallerIs
  <2>3. BoundOK(t)'
    BY <1>7, <1>8 DEF BoundOK
  <2> QED
    BY <2>1, <2>2, <2>3
<1>11. PresentedOK(t)'
  <2>1. calls'[t].phase = "auth" /\ Enforced(t)'
    BY <1>2, <1>7, <1>8 DEF Enforced
  <2>2. CallerIs(t, request.agent)
    BY <1>1, <1>2 DEF OriginOK, Live, ResolveCredential, Or, CallerIs
  <2>3. verifying'[t].phase # "verified" /\ verifying'[t].phase # "nonce"
    BY <1>9
  <2> HIDE DEF request
  <2> QED
    BY <1>9, <2>1, <2>2, <2>3 DEF PresentedOK, CallerIs
<1>12. \A u \in Tasks : Bills(u)' = Bills(u) /\ Acts(u)' = Acts(u)
  BY <1>2 DEF Bills, Acts
<1>13. CountOK(t)'
  <2>1. ~Owes(t)'
    BY <1>7, <1>8, <1>9 DEF Owes
  <2>2. Cardinality(Bills(t)) \in Nat /\ Cardinality(Acts(t)) \in Nat
    BY <1>1, Countable
  <2>3. Cardinality(Acts(t)) + 0 <= Cardinality(Bills(t))
    BY <1>1, <2>2 DEF CountOK
  <2>4. verifying'[t].phase \in {"lookup", "nonce"} =>
            \A x \in Bills(t) : x.spent <= verifying'[t].now
    BY <1>1, <1>9 DEF AcceptedInPast, Bills
  <2> QED
    BY <1>12, <2>1, <2>3, <2>4 DEF CountOK
<1>14. ASSUME NEW u \in Tasks
       PROVE  (AskedOK(u) /\ OriginOK(u) /\ PresentedOK(u) /\ BoundOK(u) /\ CountOK(u))'
  <2>1. CASE u # t
    BY <1>2, <1>8, <1>9, <1>12, <2>1, OthersKeep
  <2> QED
    BY <1>10, <1>11, <1>13, <2>1
<1>15. ASSUME NEW i \in DOMAIN effects'
       PROVE  EffectOK(effects[i])'
  BY <1>2, EffectsKeep
<1> QED
  BY <1>8, <1>14, <1>15 DEF CertInv

\* The verification for t comes to this phase, for the request it was begun with.
VerifyComesTo(t, phase) ==
    /\ verifying'[t].phase = phase
    /\ verifying'[t].request = verifying[t].request
    /\ verifying'[t].now = verifying[t].now
    /\ \A u \in Tasks \ {t} : verifying'[u] = verifying[u]

\* A step of verify() that accepts nothing.
LEMMA VerifyKeeps ==
    ASSUME CertInv, NonceInv', NEW t \in Tasks,
           UNCHANGED <<tasks, calls, accepted, chain, scenario, log, effects>>,
           verifying[t].phase \in {"lookup", "nonce"},
           NEW phase \in {"nonce", "refused", "broken"}, VerifyComesTo(t, phase)
    PROVE  CertInv'
<1>1. /\ ShapeOK /\ AskedOK(t) /\ OriginOK(t) /\ PresentedOK(t) /\ BoundOK(t) /\ CountOK(t)
      /\ VerifyingOK
  BY DEF CertInv, NonceInv
<1>2. /\ verifying'[t].phase = phase /\ verifying'[t].request = verifying[t].request
      /\ verifying'[t].now = verifying[t].now
      /\ \A u \in Tasks \ {t} : verifying'[u] = verifying[u]
  BY DEF VerifyComesTo
<1>3. ShapeOK'
  BY <1>1 DEF ShapeOK, Live
<1>4. AskedOK(t)' /\ OriginOK(t)' /\ BoundOK(t)'
  BY <1>1 DEF AskedOK, OriginOK, BoundOK, Live, Enforced, PastAuth, CallerIs, Certified
<1>5. PresentedOK(t)'
  BY <1>1, <1>2 DEF PresentedOK, Enforced, CallerIs
<1>6. \A u \in Tasks : Bills(u)' = Bills(u) /\ Acts(u)' = Acts(u)
  BY DEF Bills, Acts
<1>7. CountOK(t)'
  <2>1. ~Owes(t) /\ ~Owes(t)'
    BY <1>1, <1>2 DEF Owes, PresentedOK
  <2> QED
    BY <1>1, <1>2, <1>6, <2>1 DEF CountOK
<1>8. ASSUME NEW u \in Tasks
      PROVE  (AskedOK(u) /\ OriginOK(u) /\ PresentedOK(u) /\ BoundOK(u) /\ CountOK(u))'
  <2>1. CASE u # t
    BY <1>2, <1>6, <2>1, OthersKeep
  <2> QED
    BY <1>4, <1>5, <1>7, <2>1
<1>9. ASSUME NEW i \in DOMAIN effects'
      PROVE  EffectOK(effects[i])'
  BY EffectsKeep
<1> QED
  BY <1>3, <1>8, <1>9 DEF CertInv

\* What verify() accepts is new: had it been accepted before, its nonce would be kept.
LEMMA AcceptIsNew ==
    ASSUME CertInv, NEW t \in Tasks, verifying[t].phase = "nonce",
           ~ \E entry \in PruneReplayCache(seenNonces, verifying[t].now) :
                 entry.nonce = verifying[t].request.nonce
    PROVE  [task |-> t, request |-> verifying[t].request, read |-> verifying[t].now,
            spent |-> clock] \notin accepted
<1> DEFINE new == [task |-> t, request |-> verifying[t].request,
                   read |-> verifying[t].now, spent |-> clock]
<1> SUFFICES ASSUME new \in accepted
             PROVE  FALSE
  OBVIOUS
<1>1. clock \in Nat /\ verifying[t].now \in Nat /\ verifying[t].now <= clock
  BY DEF CertInv, NonceInv, VerifyingOK
<1>2. clock <= verifying[t].now
  <2>1. new \in Bills(t)
    BY DEF Bills
  <2>2. new.spent <= verifying[t].now
    BY <2>1 DEF CertInv, CountOK
  <2> QED
    BY <2>2
<1>3. ReplayWindow \in Nat
  BY IdentityAssumption
<1>4. [nonce |-> new.request.nonce, at |-> new.read] \in seenNonces
  <2>1. ~(clock > new.read + ReplayWindow)
    BY <1>1, <1>2, <1>3
  <2> QED
    BY <2>1 DEF CertInv, NonceInv, NonceIsKept
<1>5. [nonce |-> verifying[t].request.nonce, at |-> verifying[t].now]
          \in PruneReplayCache(seenNonces, verifying[t].now)
  BY <1>1, <1>3, <1>4 DEF PruneReplayCache
<1> QED
  BY <1>5

\* verify() accepts a request: one acceptance more, and one that is owed.
LEMMA AcceptKeeps ==
    ASSUME CertInv, NonceInv', NEW t \in Tasks,
           UNCHANGED <<tasks, calls, chain, scenario, log, effects>>,
           verifying[t].phase = "nonce",
           verifying' = [verifying EXCEPT ![t].phase = "verified"],
           ~ \E entry \in PruneReplayCache(seenNonces, verifying[t].now) :
                 entry.nonce = verifying[t].request.nonce,
           accepted' = accepted \cup
               {[task |-> t, request |-> verifying[t].request, read |-> verifying[t].now,
                 spent |-> clock]}
    PROVE  CertInv'
<1> DEFINE new == [task |-> t, request |-> verifying[t].request,
                   read |-> verifying[t].now, spent |-> clock]
<1>1. /\ ShapeOK /\ AskedOK(t) /\ OriginOK(t) /\ PresentedOK(t) /\ BoundOK(t) /\ CountOK(t)
      /\ VerifyingOK
  BY DEF CertInv, NonceInv
<1>2. new \notin accepted
  BY AcceptIsNew
<1>3. /\ verifying'[t].phase = "verified" /\ verifying'[t].request = verifying[t].request
      /\ \A u \in Tasks \ {t} : verifying'[u] = verifying[u]
  <2>1. "phase" \in DOMAIN verifying[t]
    BY <1>1 DEF VerifyingOK
  <2> QED
    BY <1>1, <2>1 DEF VerifyingOK
<1>4. new.task = t /\ new.request = verifying[t].request
  OBVIOUS
<1> HIDE DEF new
<1>5. accepted' = accepted \cup {new}
  BY DEF new
<1>6. ShapeOK'
  <2>1. IsFiniteSet(accepted')
    BY <1>1, <1>5, FS_AddElement DEF ShapeOK
  <2> QED
    BY <1>1, <2>1 DEF ShapeOK, Live
<1>7. AskedOK(t)' /\ OriginOK(t)' /\ BoundOK(t)'
  BY <1>1, <1>5 DEF AskedOK, OriginOK, BoundOK, Live, Enforced, PastAuth, CallerIs, Certified
<1>8. PresentedOK(t)'
  <2>1. Certified(t, verifying[t].request.agent)'
    BY <1>4, <1>5 DEF Certified
  <2> QED
    BY <1>1, <1>3, <2>1 DEF PresentedOK, Enforced, CallerIs, Certified
<1>9. \A u \in Tasks : Acts(u)' = Acts(u)
  BY DEF Acts
<1>10. Bills(t)' = Bills(t) \cup {new} /\ \A u \in Tasks \ {t} : Bills(u)' = Bills(u)
  BY <1>4, <1>5 DEF Bills
<1>11. CountOK(t)'
  <2>1. Cardinality(Bills(t)') = Cardinality(Bills(t)) + 1
    <3>1. new \notin Bills(t)
      BY <1>2 DEF Bills
    <3> QED
      BY <1>1, <1>10, <3>1, Countable, FS_AddElement
  <2>2. Cardinality(Bills(t)) \in Nat /\ Cardinality(Acts(t)) \in Nat
    BY <1>1, Countable
  <2>3. ~Owes(t)
    BY <1>1 DEF Owes, PresentedOK
  <2>4. Cardinality(Acts(t)) + 1 <= Cardinality(Bills(t)')
    BY <1>1, <2>1, <2>2, <2>3 DEF CountOK
  <2>5. Owes(t)'
    BY <1>3 DEF Owes
  <2> QED
    BY <1>3, <1>9, <2>4, <2>5 DEF CountOK
<1>12. ASSUME NEW u \in Tasks
       PROVE  (AskedOK(u) /\ OriginOK(u) /\ PresentedOK(u) /\ BoundOK(u) /\ CountOK(u))'
  <2>1. CASE u # t
    BY <1>3, <1>5, <1>9, <1>10, <2>1, OthersKeep
  <2> QED
    BY <1>7, <1>8, <1>11, <2>1
<1>13. ASSUME NEW i \in DOMAIN effects'
       PROVE  EffectOK(effects[i])'
  BY <1>5, EffectsKeep
<1> QED
  BY <1>6, <1>12, <1>13 DEF CertInv

\* verify() looks at the record, or spends the nonce.
LEMMA VerifySteps ==
    ASSUME CertInv, NonceInv', NEW t \in Tasks, UNCHANGED <<tasks, scenario>>,
           VerifyRecord(t) \/ VerifyNonce(t)
    PROVE  CertInv'
<1> DEFINE call == verifying[t]
<1>1. UNCHANGED <<tasks, calls, chain, scenario, log, effects>>
  BY DEF VerifyRecord, VerifyNonce, pipelineVars
<1>2. VerifyingOK
  BY DEF CertInv, NonceInv
<1>3. call = [phase |-> call.phase, request |-> call.request, now |-> call.now,
              reason |-> call.reason]
  BY <1>2 DEF VerifyingOK
<1>4. ASSUME NEW reason, Fail(t, call, reason), accepted' = accepted,
             call.phase \in {"lookup", "nonce"}
      PROVE  CertInv'
  <2>1. PICK phase \in {"refused", "broken"} :
            verifying' = [verifying EXCEPT ![t] =
                [phase |-> phase, request |-> call.request, now |-> call.now,
                 reason |-> reason]]
    BY <1>2, <1>3, <1>4, FailKeeps
  <2>2. VerifyComesTo(t, phase)
    BY <1>2, <2>1 DEF VerifyComesTo, VerifyingOK
  <2> QED
    BY <1>1, <1>4, <2>2, VerifyKeeps
<1>5. CASE CheckRecord(t)
  <2>1. accepted' = accepted /\ call.phase = "lookup"
    BY <1>5 DEF CheckRecord
  <2>2. CASE verifying' = [verifying EXCEPT ![t].phase = "nonce"]
    <3>1. DOMAIN call = {"phase", "request", "now", "reason"}
      <4> HIDE DEF call
      <4> QED
        BY <1>3
    <3>2. VerifyComesTo(t, "nonce")
      BY <1>2, <2>2, <3>1 DEF VerifyComesTo, VerifyingOK
    <3> QED
      BY <1>1, <2>1, <3>2, VerifyKeeps
  <2> QED
    BY <1>4, <1>5, <2>1, <2>2 DEF CheckRecord
<1>6. CASE SpendNonce(t)
  <2>1. call.phase = "nonce"
    BY <1>6 DEF SpendNonce
  <2>2. CASE Fail(t, call, "replay") /\ accepted' = accepted
    BY <1>4, <2>1, <2>2
  <2>3. CASE /\ ~ \E entry \in PruneReplayCache(seenNonces, call.now) :
                     entry.nonce = call.request.nonce
             /\ verifying' = [verifying EXCEPT ![t].phase = "verified"]
             /\ accepted' = accepted \cup
                    {[task |-> t, request |-> call.request, read |-> call.now,
                      spent |-> clock]}
    BY <1>1, <2>1, <2>3, AcceptKeeps
  <2> QED
    BY <1>6, <2>2, <2>3 DEF SpendNonce
<1> QED
  BY <1>5, <1>6 DEF VerifyRecord, VerifyNonce

\* verify() has come back: the call is bound to the agent it accepted, or turns back.
LEMMA EndAuthKeeps ==
    ASSUME CertInv, NonceInv', NEW t \in Tasks, NEW new, CallGoes(t, new),
           UNCHANGED <<tasks, accepted, chain, scenario, log, effects>>,
           verifying' = [verifying EXCEPT ![t] = NoVerify],
           verifying[t].phase # "none",
           new.operation = calls[t].operation, DOMAIN new.input = DOMAIN NoInput,
           \A f \in {"agent_id", "creator_id", "inviter_id", "signed_request"} :
               new.input[f] = calls[t].input[f],
           new.credential = calls[t].credential, new.hint = calls[t].hint,
           \/ new.phase = "up"
           \/ /\ new.phase = "down" /\ verifying[t].phase = "verified"
              /\ new.agent = verifying[t].request.agent
              /\ new.operation = "send" => new.input.sender = new.agent
    PROVE  CertInv'
<1>1. /\ ShapeOK /\ AskedOK(t) /\ OriginOK(t) /\ PresentedOK(t) /\ BoundOK(t) /\ CountOK(t)
      /\ VerifyingOK
  BY DEF CertInv, NonceInv
<1>2. ShapeOK' /\ calls'[t] = new /\ \A u \in Tasks \ {t} : calls'[u] = calls[u]
  <2>1. IsFiniteSet(accepted') /\ (\E S : log' \in Seq(S)) /\ (\E S : effects' \in Seq(S))
    BY <1>1 DEF ShapeOK
  <2> QED
    BY <1>1, <2>1, CallShape
<1>3. verifying'[t].phase = "none" /\ \A u \in Tasks \ {t} : verifying'[u] = verifying[u]
  BY <1>1 DEF VerifyingOK, NoVerify
<1>4. calls[t].phase = "auth" /\ Enforced(t) /\ Enforced(t)'
  BY <1>1, <1>2 DEF PresentedOK, Enforced
<1>5. AskedOK(t)' /\ PresentedOK(t)'
  BY <1>1, <1>3 DEF AskedOK, PresentedOK
<1>6. OriginOK(t)'
  <2>1. /\ new.input.agent_id = calls[t].input.agent_id
        /\ new.input.creator_id = calls[t].input.creator_id
        /\ new.input.inviter_id = calls[t].input.inviter_id
        /\ new.input.signed_request = calls[t].input.signed_request
    OBVIOUS
  <2> QED
    BY <1>1, <1>2, <1>4, <2>1 DEF OriginOK, Live, CallerIs
<1>7. BoundOK(t)'
  BY <1>1, <1>2 DEF BoundOK, PresentedOK, CallerIs, Certified
<1>8. \A u \in Tasks : Bills(u)' = Bills(u) /\ Acts(u)' = Acts(u)
  BY DEF Bills, Acts
<1>9. CountOK(t)'
  <2>1. Owes(t)' => Owes(t)
    BY <1>2, <1>3 DEF Owes
  <2>2. Cardinality(Bills(t)) \in Nat /\ Cardinality(Acts(t)) \in Nat
    BY <1>1, Countable
  <2> QED
    BY <1>1, <1>3, <1>8, <2>1, <2>2 DEF CountOK
<1>10. ASSUME NEW u \in Tasks
       PROVE  (AskedOK(u) /\ OriginOK(u) /\ PresentedOK(u) /\ BoundOK(u) /\ CountOK(u))'
  <2>1. CASE u # t
    BY <1>2, <1>3, <1>8, <2>1, OthersKeep
  <2> QED
    BY <1>5, <1>6, <1>7, <1>9, <2>1
<1>11. ASSUME NEW i \in DOMAIN effects'
       PROVE  EffectOK(effects[i])'
  BY EffectsKeep
<1> QED
  BY <1>2, <1>10, <1>11 DEF CertInv

LEMMA EndAuthStep ==
    ASSUME CertInv, NonceInv', NEW t \in Tasks, UNCHANGED <<tasks, scenario>>, EndAuth(t)
    PROVE  CertInv'
<1> DEFINE agent == verifying[t].request.agent
<1>1. /\ UNCHANGED <<tasks, accepted, chain, scenario, log, effects>>
      /\ verifying' = [verifying EXCEPT ![t] = NoVerify]
      /\ calls[t].phase = "auth" /\ verifying[t].phase # "none"
  BY DEF EndAuth
<1>2. /\ ShapeOK /\ DOMAIN calls[t] = DOMAIN NoCall
      /\ DOMAIN calls[t].input = DOMAIN NoInput
  BY <1>1 DEF CertInv, ShapeOK, Live
<1>3. ASSUME NEW result, TurnBack(t, result)
      PROVE  CertInv'
  <2>1. PICK new : CallGoes(t, new) /\ SameCall(calls[t], new) /\ new.phase = "up"
    BY <1>2, <1>3, TurnBackCall
  <2> QED
    BY <1>1, <1>2, <2>1, EndAuthKeeps DEF SameCall
<1>4. ASSUME verifying[t].phase = "verified", GoOn(t, BindForSend(calls[t], agent))
      PROVE  CertInv'
  <2> DEFINE call == BindForSend(calls[t], agent)
  <2>1. /\ DOMAIN call = DOMAIN NoCall
        /\ call.agent = agent /\ call.operation = calls[t].operation
        /\ call.credential = calls[t].credential /\ call.hint = calls[t].hint
        /\ DOMAIN call.input = DOMAIN NoInput
        /\ \A f \in {"agent_id", "creator_id", "inviter_id", "signed_request"} :
               call.input[f] = calls[t].input[f]
        /\ call.operation = "send" => call.input.sender = agent
    <3>1. CASE calls[t].operation = "send"
      <4> DEFINE input == [calls[t].input EXCEPT !.sender = agent]
      <4>1. call = [calls[t] EXCEPT !.input = input, !.agent = agent]
        BY <1>2, <3>1 DEF BindForSend, NoCall
      <4>2. /\ DOMAIN input = DOMAIN NoInput /\ input.sender = agent
            /\ \A f \in {"agent_id", "creator_id", "inviter_id", "signed_request"} :
                   input[f] = calls[t].input[f]
        BY <1>2 DEF NoInput
      <4> HIDE DEF input, agent, call
      <4> QED
        BY <1>2, <3>1, <4>1, <4>2 DEF NoCall
    <3>2. CASE calls[t].operation # "send"
      <4>1. call = [calls[t] EXCEPT !.agent = agent]
        BY <3>2 DEF BindForSend
      <4> HIDE DEF agent, call
      <4> QED
        BY <1>2, <3>2, <4>1 DEF NoCall
    <3> QED
      BY <3>1, <3>2
  <2> HIDE DEF call
  <2>2. PICK new : /\ CallGoes(t, new) /\ SameCall(call, new)
                   /\ new.phase = "down" /\ new.at = call.at + 1
    BY <1>2, <1>4, <2>1, GoOnCall DEF call
  <2> QED
    BY <1>1, <1>4, <2>1, <2>2, EndAuthKeeps DEF SameCall
<1> QED
  BY <1>3, <1>4 DEF EndAuth

-----------------------------------------------------------------------------
(* The store acts.                                                         *)

\* Behind the chain, and in front of a middleware that stands behind auth, a call is past
\* auth.
LEMMA StoreIsPastAuth ==
    ASSUME ShapeOK, NEW t \in Tasks, AtStore(t)
    PROVE  PastAuth(t)
<1>1. chain \in Seq(STRING) /\ AuthComesFirst(chain)
  BY RequestsAssumption DEF ShapeOK
<1>2. PICK i \in DOMAIN chain : chain[i] = "auth" /\ \A j \in 1..i : chain[j] # "store_dispatch"
  BY <1>1 DEF AuthComesFirst
<1>3. DOMAIN chain = 1 .. Len(chain) /\ Len(chain) \in Nat
  BY <1>1
<1>4. i < calls[t].at
  <2>1. CASE calls[t].at = Len(chain) + 1
    BY <1>3, <2>1
  <2>2. CASE Entering(t, "store_dispatch")
    BY <1>2, <1>3, <2>2 DEF Entering
  <2> QED
    BY <2>1, <2>2 DEF AtStore
<1> QED
  BY <1>2, <1>4 DEF PastAuth

\* Whom the store acts for: whom verify() accepted, where auth verifies; and whoever the
\* transport serves.
LEMMA ActorIs ==
    ASSUME CertInv, NEW t \in Tasks, AtStore(t)
    PROVE  /\ Enforced(t) => Certified(t, Actor(calls[t]))
           /\ calls[t].operation \notin {"list_channels", "replay"}
                  => CallerIs(t, Actor(calls[t]))
           /\ tasks[t].request.via = "http" => CallerIs(t, Actor(calls[t]))
<1> DEFINE call == calls[t]
           r == tasks[t].request
<1>1. ShapeOK /\ AskedOK(t) /\ OriginOK(t) /\ BoundOK(t)
  BY DEF CertInv
<1>2. call.phase = "down" /\ PastAuth(t) /\ Live(t)
  BY <1>1, StoreIsPastAuth DEF AtStore, Live
<1>3. tasks[t].phase = "dispatch"
  BY <1>1, <1>2 DEF OriginOK
<1>4. r.via \in {"http", "mcp", "host"} /\ (r.via = "http" => r.token # None)
  BY <1>1, <1>3 DEF AskedOK
<1>5. ServerAgent # None
  BY RequestsAssumption, IdentityAssumption
<1>6. CASE Enforced(t)
  <2>1. /\ call.agent # None /\ CallerIs(t, call.agent) /\ Certified(t, call.agent)
        /\ call.operation = "send" => call.input.sender = call.agent
    BY <1>1, <1>2, <1>6 DEF BoundOK
  <2>2. Actor(call) = call.agent
    <3>1. CASE call.operation = "send"
      BY <2>1, <3>1 DEF Actor, Or
    <3>2. CASE call.operation \in {"recv", "subscribe", "list_agents"}
      <4>1. Actor(call) = Or(call.input.agent_id, Or(call.agent, call.hint))
        BY <3>2 DEF Actor, ResolveAgentId
      <4>2. CASE r.via = "mcp"
        <5>1. call.input.agent_id = ServerAgent
          BY <1>1, <1>2, <3>2, <4>2 DEF OriginOK
        <5>2. call.agent = ServerAgent
          BY <2>1, <4>2 DEF CallerIs
        <5> QED
          BY <1>5, <4>1, <5>1, <5>2 DEF Or
      <4>3. CASE r.via # "mcp"
        <5>1. call.input.agent_id = None
          BY <1>1, <1>2, <4>3 DEF OriginOK
        <5> QED
          BY <2>1, <4>1, <5>1 DEF Or
      <4> QED
        BY <4>2, <4>3
    <3> QED
      BY <1>6, <3>1, <3>2 DEF Enforced, EnforcedOperations
  <2> QED
    BY <2>1, <2>2
<1>7. CASE ~Enforced(t)
  <2>1. call.agent = None /\ call.operation \notin {"send", "recv", "subscribe", "list_agents"}
    BY <1>1, <1>2, <1>7 DEF OriginOK, Enforced, EnforcedOperations
  <2>2. CASE r.via = "http"
    <3>1. /\ call.input.agent_id = None /\ call.input.creator_id = None
          /\ call.input.inviter_id = None /\ call.hint = r.token
      BY <1>1, <1>2, <2>2 DEF OriginOK
    <3>2. Actor(call) = r.token
      BY <1>4, <2>1, <2>2, <3>1 DEF Actor, ResolveAgentId, Or
    <3> QED
      BY <1>7, <2>2, <3>2 DEF CallerIs
  <2>3. CASE r.via = "mcp" /\ call.operation \notin {"list_channels", "replay"}
    <3>1. /\ call.operation = "group_create" => call.input.creator_id = ServerAgent
          /\ call.operation = "group_invite" => call.input.inviter_id = ServerAgent
          /\ call.operation \notin {"group_create", "group_invite"} =>
                 call.input.agent_id = ServerAgent
      BY <1>1, <1>2, <2>1, <2>3 DEF OriginOK
    <3>2. Actor(call) = ServerAgent
      BY <1>5, <2>1, <3>1 DEF Actor, ResolveAgentId, Or
    <3> QED
      BY <1>7, <2>3, <3>2 DEF CallerIs
  <2>4. CASE r.via = "host" \/ (r.via = "mcp" /\ call.operation \in {"list_channels", "replay"})
    BY <1>7, <2>4 DEF CallerIs
  <2> QED
    BY <1>4, <2>2, <2>3, <2>4
<1> QED
  BY <1>6, <1>7

\* Append leaves what is there, and puts the new element behind it.
LEMMA AppendIs ==
    ASSUME NEW S, NEW s \in Seq(S), NEW x
    PROVE  /\ Append(s, x) \in Seq(S \cup {x})
           /\ DOMAIN s = 1 .. Len(s) /\ Len(s) \in Nat
           /\ DOMAIN Append(s, x) = 1 .. Len(s) + 1
           /\ \A i \in 1 .. Len(s) : Append(s, x)[i] = s[i]
           /\ Append(s, x)[Len(s) + 1] = x
<1>1. s \in Seq(S \cup {x})
  OBVIOUS
<1>2. Append(s, x) \in Seq(S \cup {x}) /\ Len(Append(s, x)) = Len(s) + 1
  BY <1>1
<1> QED
  BY <1>1, <1>2

\* The store acts for a call: one effect more, and of what is enforced, one owed less.
LEMMA StoreKeeps ==
    ASSUME CertInv, NonceInv', NEW t \in Tasks, AtStore(t), NEW result,
           Performed(t, Actor(calls[t]), result),
           UNCHANGED <<tasks, accepted, verifying, chain, scenario>>,
           \/ calls[t].operation # "send" /\ log' = log
           \/ \E m : /\ log' = Append(log, m) /\ m.sender = Actor(calls[t])
                     /\ result.messages[1] = Len(log) + 1
    PROVE  CertInv'
<1> DEFINE agent == Actor(calls[t])
<1>1. /\ ShapeOK /\ AskedOK(t) /\ OriginOK(t) /\ PresentedOK(t) /\ BoundOK(t) /\ CountOK(t)
  BY DEF CertInv
<1>2. calls[t].phase = "down"
  BY DEF AtStore
<1>3. PICK S : effects \in Seq(S)
  BY <1>1 DEF ShapeOK
<1>4. PICK L : log \in Seq(L)
  BY <1>1 DEF ShapeOK
<1>5. PICK new : CallGoes(t, new) /\ SameCall(calls[t], new) /\ new.phase = "up"
  BY <1>1, TurnBackCall DEF Performed
<1>6. PICK e : /\ effects' = Append(effects, e)
               /\ e.task = t /\ e.operation = calls[t].operation /\ e.agent = agent
               /\ e.messages = result.messages
  BY DEF Performed
<1>7. /\ effects' \in Seq(S \cup {e})
      /\ DOMAIN effects = 1 .. Len(effects) /\ Len(effects) \in Nat
      /\ DOMAIN effects' = 1 .. Len(effects) + 1
      /\ \A i \in DOMAIN effects : effects'[i] = effects[i]
      /\ effects'[Len(effects) + 1] = e
  BY <1>3, <1>6, AppendIs
<1> DEFINE LogGrows == /\ \E T : log' \in Seq(T)
                       /\ DOMAIN log \subseteq DOMAIN log'
                       /\ \A n \in DOMAIN log : log'[n] = log[n]
                       /\ e.operation = "send" => /\ e.messages[1] \in DOMAIN log'
                                                  /\ log'[e.messages[1]].sender = e.agent
<1>8. LogGrows
  <2>1. CASE calls[t].operation # "send" /\ log' = log
    BY <1>4, <1>6, <2>1
  <2>2. ASSUME NEW m, log' = Append(log, m), m.sender = agent,
               result.messages[1] = Len(log) + 1
        PROVE  LogGrows
    <3>1. /\ log' \in Seq(L \cup {m})
          /\ DOMAIN log = 1 .. Len(log) /\ Len(log) \in Nat
          /\ DOMAIN log' = 1 .. Len(log) + 1
          /\ \A n \in DOMAIN log : log'[n] = log[n]
          /\ log'[Len(log) + 1] = m
      BY <1>4, <2>2, AppendIs
    <3>2. DOMAIN log \subseteq DOMAIN log' /\ Len(log) + 1 \in DOMAIN log'
      BY <3>1
    <3>3. e.messages[1] = Len(log) + 1 /\ e.agent = agent
      BY <1>6, <2>2
    <3> QED
      BY <2>2, <3>1, <3>2, <3>3
  <2> QED
    BY <2>1, <2>2
<1>9. ShapeOK' /\ calls'[t] = new /\ \A u \in Tasks \ {t} : calls'[u] = calls[u]
  <2>1. IsFiniteSet(accepted') /\ (\E T : effects' \in Seq(T))
    BY <1>1, <1>7 DEF ShapeOK
  <2>2. DOMAIN new.input = DOMAIN NoInput
    BY <1>1, <1>2, <1>5 DEF ShapeOK, Live, SameCall
  <2> QED
    BY <1>1, <1>5, <1>8, <2>1, <2>2, CallShape
<1>10. AskedOK(t)' /\ OriginOK(t)' /\ PresentedOK(t)' /\ BoundOK(t)'
  <2>1. AskedOK(t)'
    BY <1>1 DEF AskedOK
  <2>2. OriginOK(t)'
    BY <1>1, <1>2, <1>5, <1>9 DEF OriginOK, SameCall, Live, Enforced, CallerIs
  <2>3. verifying[t].phase = "none"
    BY <1>1, <1>2 DEF PresentedOK
  <2>4. PresentedOK(t)'
    BY <2>3 DEF PresentedOK
  <2>5. BoundOK(t)'
    BY <1>5, <1>9 DEF BoundOK
  <2> QED
    BY <2>1, <2>2, <2>4, <2>5
<1>11. \A u \in Tasks : Bills(u)' = Bills(u)
  BY DEF Bills
<1>12. \A u \in Tasks \ {t} : Acts(u)' = Acts(u)
  <2> SUFFICES ASSUME NEW u \in Tasks \ {t}
               PROVE  Acts(u)' = Acts(u)
    OBVIOUS
  <2>1. DOMAIN effects' = DOMAIN effects \cup {Len(effects) + 1}
    BY <1>7
  <2> QED
    BY <1>6, <1>7, <2>1 DEF Acts
<1>13. CountOK(t)'
  <2>1. verifying[t].phase = "none"
    BY <1>1, <1>2 DEF PresentedOK
  <2>2. ~Owes(t)'
    BY <1>5, <1>9, <2>1 DEF Owes
  <2>3. /\ IsFiniteSet(Acts(t))
        /\ Cardinality(Bills(t)) \in Nat /\ Cardinality(Acts(t)) \in Nat
    BY <1>1, Countable
  <2>4. DOMAIN effects' = DOMAIN effects \cup {Len(effects) + 1}
    BY <1>7
  <2>5. Len(effects) + 1 \notin DOMAIN effects
    BY <1>7
  <2>6. Cardinality(Acts(t)') <= Cardinality(Bills(t))
    <3>1. CASE Enforced(t)
      <4>1. Acts(t)' = Acts(t) \cup {Len(effects) + 1}
        BY <1>6, <1>7, <2>4, <3>1 DEF Acts, Enforced
      <4>2. Len(effects) + 1 \notin Acts(t)
        BY <2>5 DEF Acts
      <4>3. Cardinality(Acts(t)') = Cardinality(Acts(t)) + 1
        BY <2>3, <4>1, <4>2, FS_AddElement
      <4>4. Owes(t)
        BY <1>1, <1>2, <3>1, StoreIsPastAuth DEF Owes
      <4>5. Cardinality(Acts(t)) + 1 <= Cardinality(Bills(t))
        BY <1>1, <4>4 DEF CountOK
      <4> QED
        BY <4>3, <4>5
    <3>2. CASE ~Enforced(t)
      <4>1. Acts(t)' = Acts(t)
        BY <1>6, <1>7, <2>4, <3>2 DEF Acts, Enforced
      <4>2. Cardinality(Acts(t)) <= Cardinality(Bills(t))
        BY <1>1, <2>3 DEF CountOK
      <4> QED
        BY <4>1, <4>2
    <3> QED
      BY <3>1, <3>2
  <2>7. Cardinality(Acts(t)') \in Nat
    BY <1>9, Countable, CountableNext
  <2> QED
    BY <1>11, <2>1, <2>2, <2>6, <2>7 DEF CountOK
<1>14. ASSUME NEW u \in Tasks
       PROVE  (AskedOK(u) /\ OriginOK(u) /\ PresentedOK(u) /\ BoundOK(u) /\ CountOK(u))'
  <2>1. CASE u # t
    BY <1>9, <1>11, <1>12, <2>1, OthersKeep
  <2> QED
    BY <1>10, <1>13, <2>1
<1>15. EffectOK(e)'
  <2>1. /\ Enforced(t) => Certified(t, agent)
        /\ calls[t].operation \notin {"list_channels", "replay"} => CallerIs(t, agent)
        /\ tasks[t].request.via = "http" => CallerIs(t, agent)
    BY ActorIs
  <2>2. tasks[t].phase # "idle"
    BY <1>1, <1>2 DEF OriginOK, Live
  <2> HIDE DEF agent
  <2> QED
    BY <1>6, <1>8, <2>1, <2>2 DEF EffectOK, Certified, CallerIs, Enforced
<1>16. ASSUME NEW i \in DOMAIN effects'
       PROVE  EffectOK(effects[i])'
  <2>1. CASE i \in DOMAIN effects
    BY <1>7, <1>8, <2>1, EffectsKeep
  <2>2. CASE i = Len(effects) + 1
    <3>1. effects'[i] = e
      BY <1>7, <2>2
    <3> QED
      BY <1>15, <3>1 DEF EffectOK, Certified, CallerIs
  <2> QED
    BY <1>7, <2>1, <2>2
<1> QED
  BY <1>9, <1>14, <1>16 DEF CertInv

\* The three ways the store acts.
LEMMA StoreSteps ==
    ASSUME CertInv, NonceInv', NEW t \in Tasks, UNCHANGED <<tasks, scenario>>,
           StoreSend(t) \/ StoreRecv(t) \/ StoreOther(t)
    PROVE  CertInv'
<1>1. AtStore(t) /\ UNCHANGED <<tasks, accepted, verifying, chain, scenario>>
  BY DEF StoreSend, StoreRecv, StoreOther, identityVars
<1>2. CASE StoreSend(t)
  <2>1. PICK result, m : /\ Performed(t, Actor(calls[t]), result)
                         /\ log' = Append(log, m) /\ m.sender = Actor(calls[t])
                         /\ result.messages = <<Len(log) + 1>>
    <3> DEFINE result == Result("returns", None, <<Len(log) + 1>>,
                                OverLimit(calls[t].input.channel))
               m == [sender |-> Actor(calls[t]), channel |-> calls[t].input.channel,
                     about |-> calls[t].input.about]
    <3>1. Performed(t, Actor(calls[t]), result) /\ log' = Append(log, m)
      BY <1>2 DEF StoreSend
    <3>2. result.messages = <<Len(log) + 1>> /\ m.sender = Actor(calls[t])
      BY DEF Result
    <3> HIDE DEF result, m
    <3> QED
      BY <3>1, <3>2
  <2>2. result.messages[1] = Len(log) + 1
    BY <2>1
  <2> QED
    BY <1>1, <2>1, <2>2, StoreKeeps
<1>3. CASE StoreRecv(t) \/ StoreOther(t)
  <2>1. PICK result : /\ Performed(t, Actor(calls[t]), result)
                      /\ calls[t].operation # "send" /\ log' = log
    BY <1>3 DEF StoreRecv, StoreOther
  <2> QED
    BY <1>1, <2>1, StoreKeeps
<1> QED
  BY <1>2, <1>3

-----------------------------------------------------------------------------

\* Every step keeps the invariant.
LEMMA CertInvStep ==
    ASSUME CertInv, [Next]_vars
    PROVE  CertInv'
<1>1. NonceInv'
  BY NonceInvStep DEF CertInv
<1>2. CASE UNCHANGED vars
  BY <1>1, <1>2, NothingKeeps DEF vars, identityVars, pipelineVars, Aside
<1>3. CASE Host
  <2>1. UNCHANGED <<calls, verifying, accepted, seenNonces, chain, scenario, log, effects, tasks>>
    BY <1>3 DEF Host, Tick, AdminRevoke, AdminRegister, pipelineVars
  <2> QED
    BY <1>1, <2>1, NothingKeeps DEF Aside
<1>4. ASSUME NEW t \in DOMAIN scenario.requests, Arrive(t)
      PROVE  CertInv'
  <2>1. t \in Tasks
    BY RequestsAssumption DEF CertInv, ShapeOK
  <2>2. CASE HostArrive(t)
    BY <1>1, <2>1, <2>2, DispatchSteps
  <2>3. CASE HttpRefuse(t) \/ HttpArrive(t) \/ McpArrive(t)
    BY <1>1, <2>3, ArriveAside
  <2> QED
    BY <1>4, <2>2, <2>3 DEF Arrive
<1>5. ASSUME NEW t \in Tasks, Expire(t)
      PROVE  CertInv'
  <2>1. Aside
    BY <1>5 DEF Expire, identityVars, pipelineVars, Aside
  <2>2. \A b : tasks' = [tasks EXCEPT ![t].expired = b]
               => TaskGoes(t, tasks[t].phase, tasks[t].request)
    BY TasksWrite DEF CertInv
  <2>3. TaskGoes(t, tasks[t].phase, tasks[t].request)
    BY <1>5, <2>2 DEF Expire
  <2>4. AskedOK(t)
    BY DEF CertInv
  <2> QED
    BY <1>1, <2>1, <2>3, <2>4, AsideKeeps DEF AskedOK
<1>6. ASSUME NEW t \in Tasks, Serve(t)
      PROVE  CertInv'
  <2>1. CASE \/ HttpLook(t) \/ HttpRegister(t) \/ HttpReturn(t) \/ HttpCollected(t)
             \/ HttpPoll(t) \/ McpReturn(t) \/ HostReturn(t)
    BY <1>1, <2>1, ServeAside
  <2>2. CASE HttpSign(t) \/ McpSign(t)
    BY <1>1, <2>2, DispatchSteps
  <2>3. CASE PipelineStep(t) /\ UNCHANGED <<tasks, scenario>>
    BY <1>1, <2>3, MoveSteps, BeginAuthKeeps, VerifySteps, EndAuthStep, StoreSteps
       DEF PipelineStep
  <2> QED
    BY <1>6, <2>1, <2>2, <2>3 DEF Serve
<1> QED
  BY <1>2, <1>3, <1>4, <1>5, <1>6 DEF Next

\* No call and no effect, no acceptance.
LEMMA CertInvInit ==
    ASSUME Init
    PROVE  CertInv
<1>1. NonceInv
  BY DEF Init, NonceInv, VerifyingOK, AcceptedInPast, NonceIsKept, NoncesBuyOneRequest,
         NoVerify
<1>2. ShapeOK
  <2>1. log \in Seq([sender : Agents \cup {None}, channel : Channels \cup {None},
                     about : Topics \cup {None}])
    BY RequestsAssumption DEF Init
  <2>2. effects \in Seq({})
    BY DEF Init
  <2>3. IsFiniteSet(accepted)
    BY FS_EmptySet DEF Init
  <2>4. \A t \in Tasks : tasks[t] = NoTask /\ calls[t] = NoCall
    BY DEF Init
  <2>5. \A t \in Tasks : ~Live(t)
    BY <2>4 DEF Live, NoCall
  <2> QED
    BY <2>1, <2>2, <2>3, <2>4, <2>5 DEF Init, ShapeOK
<1>3. ASSUME NEW t \in Tasks
      PROVE  AskedOK(t) /\ OriginOK(t) /\ PresentedOK(t) /\ BoundOK(t) /\ CountOK(t)
  <2>1. /\ tasks[t].phase = "idle" /\ calls[t].phase = "idle"
        /\ verifying[t].phase = "none"
    BY <1>3 DEF Init, NoTask, NoCall, NoVerify
  <2>2. Acts(t) = {} /\ Bills(t) = {}
    BY DEF Init, Acts, Bills
  <2>3. Cardinality({}) = 0
    BY FS_EmptySet
  <2>4. CountOK(t)
    BY <2>1, <2>2, <2>3 DEF CountOK, Owes
  <2> QED
    BY <2>1, <2>4 DEF AskedOK, OriginOK, PresentedOK, BoundOK, Live
<1>4. \A i \in DOMAIN effects : EffectOK(effects[i])
  BY DEF Init
<1> QED
  BY <1>1, <1>2, <1>3, <1>4 DEF CertInv

\* What the invariant says of effects and acceptances is what the property asks.
LEMMA CertInvCertifies ==
    ASSUME CertInv, VerifiedByGoodKey
    PROVE  EffectsAreCertified
<1>1. ASSUME NEW i \in DOMAIN effects
      PROVE  LET e == effects[i]
                 r == tasks[e.task].request
                 enforced == e.operation \in {"send", "recv", "subscribe", "list_agents"}
             IN  /\ enforced => \E x \in accepted : x.task = e.task /\ x.request.agent = e.agent
                 /\ e.operation = "send" => log[e.messages[1]].sender = e.agent
                 /\ r.via = "http" => e.agent = r.token
                 /\ r.via = "mcp" => \/ e.agent = ServerAgent
                                     \/ e.operation \in {"list_channels", "replay"}
  <2>1. EffectOK(effects[i])
    BY DEF CertInv
  <2> QED
    BY <2>1 DEF EffectOK, Certified, CallerIs, EnforcedOperations
<1>2. ASSUME NEW t \in Tasks
      PROVE  Cardinality(Acts(t)) <= Cardinality(Bills(t))
  <2>1. ShapeOK /\ CountOK(t)
    BY DEF CertInv
  <2>2. Cardinality(Acts(t)) \in Nat /\ Cardinality(Bills(t)) \in Nat
    BY <2>1, Countable
  <2> QED
    BY <2>1, <2>2 DEF CountOK
<1>3. ASSUME NEW t \in Tasks
      PROVE  Cardinality({i \in DOMAIN effects : effects[i].task = t /\ effects[i].operation
                            \in {"send", "recv", "subscribe", "list_agents"}})
               <= Cardinality({x \in accepted : x.task = t})
  BY <1>2 DEF Acts, Bills, EnforcedOperations
<1> QED
  BY <1>1, <1>3 DEF EffectsAreCertified

\* The store acts only in the name of who was certified: for an operation auth enforces,
\* for the agent of a request which verify() accepted for this very task, at most once per
\* acceptance, and with a key that was good while it was verified; otherwise for the
\* bearer or the agent of the MCP server (AuthMiddleware, bind_for_send() and
\* StoreDispatchMiddleware under middleware/plugins), for every chain in which auth stands
\* before the store.
THEOREM EffectsAreCertifiedAlways == Spec => []EffectsAreCertified
<1>1. Init => CertInv
  BY CertInvInit
<1>2. CertInv /\ [Next]_vars => CertInv'
  BY CertInvStep
<1>3. CertInv /\ VerifiedByGoodKey => EffectsAreCertified
  BY CertInvCertifies
<1>4. Spec => []VerifiedByGoodKey
  BY VerifiedByGoodKeyAlways
<1> QED
  BY <1>1, <1>2, <1>3, <1>4, PTL DEF Spec

-----------------------------------------------------------------------------
(* Answers are true.                                                       *)
(*                                                                         *)
(* The invariant follows a request from its arrival to its answer, with    *)
(* what the store has done for it so far.  It says what each stage is owed *)
(* by the one before: while a call goes inward the store has done nothing  *)
(* for it and its trace is all skipped (TraceOK, SingleOK); its result     *)
(* tells what the store did, and climbs out of the chain with the verdicts *)
(* behind it (ResultOK, Climbed); what a channels_collect holds was        *)
(* drained for it, each once, and another recv may bring no more than is   *)
(* missing (CollectOK); what is drained stays drained (DrainedOK), which   *)
(* is why a later recv brings nothing the loop has; and the answer tells   *)
(* what the last result told (AnswerOK).  It is stated of the values of    *)
(* one task, so that most of a step is about one value that becomes        *)
(* another.                                                                *)

\* A request that HTTP serves by several dispatches.
Polled(k) ==
    k.phase # "idle" /\ k.request.via = "http" /\ k.request.operation = "channels_collect"

\* A call that has not reached its end, and one whose result is on the way up or out.
Inward(c) == c.phase \in {"down", "auth"}
Outward(c) == c.phase \in {"up", "returned"}

\* A trace of n entries in which a result has climbed from the middleware reached to at.
Climbed(trace, at, reached, verdict, n) ==
    /\ reached = 0 => n = 0
    /\ at <= reached \/ reached = n
    /\ \A i \in 1 .. n : trace[i].verdict = "skipped" <=> (i <= at \/ i > reached)
    /\ at < reached => trace[at + 1] = verdict
    /\ \A i, j \in 1 .. reached : at < i /\ i < j =>
           /\ trace[i].verdict = "passed" => trace[j].verdict = "passed"
           /\ trace[i].verdict = "rejected" => trace[j] = trace[i]

\* The trace of a call through a chain of n middlewares.
TraceOK(c, n) ==
    c.phase # "idle" =>
        /\ c.trace = [i \in 1 .. n |-> c.trace[i]]
        /\ c.at \in 0 .. n + 1
        /\ c.phase \in {"down", "auth", "up"} => c.at # 0
        /\ c.phase = "auth" => c.at # n + 1
        /\ c.phase = "returned" => c.at = 0
        /\ Inward(c) => \A i \in 1 .. n : c.trace[i] = Skipped
        /\ Outward(c) => \E reached \in 0 .. n :
                             Climbed(c.trace, c.at, reached, Verdict(c.result), n)

\* What failed behind the store.
HookFailed(c, order) ==
    \E i \in DOMAIN order : /\ c.trace[i].verdict = "errored"
                            /\ order[i] \in {"hook_dispatcher", "middleware_log"}

\* The store did this one operation, with these messages, and nothing else.
DidOnce(done, fx, operation, messages) ==
    \E i \in DOMAIN fx : /\ done = {i} /\ fx[i].operation = operation
                         /\ fx[i].messages = messages

\* A result tells what the store did, unless something failed behind it.
ResultOK(c, done, fx, order) ==
    LET result == c.result
    IN  /\ result.how \in {"returns", "denies", "raises"}
        /\ result.how = "returns" =>
               \/ result.code = None /\ DidOnce(done, fx, c.operation, result.messages)
               \/ result.code = "internal_error" /\ done = {}
        /\ result.how = "denies" =>
               /\ result.code \in {"validation_error", "hook_denied", "identity_failure"}
               /\ done = {}
        /\ result.how = "raises" => done = {} \/ HookFailed(c, order)
        /\ result.over => result.how = "returns" /\ result.code = None /\ c.operation = "send"
        /\ c.operation = "group_invite" => result.messages = <<>>

\* A request that is one dispatch.
SingleOK(k, c, done, fx, order) ==
    ~Polled(k) =>
        /\ k.phase # "poll" /\ k.collected = <<>>
        /\ k.phase \in {"idle", "look", "register", "sign"} =>
               k.round = 0 /\ c.phase = "idle" /\ done = {}
        /\ k.phase = "dispatch" =>
               /\ c.operation = k.request.operation
               /\ Inward(c) => done = {}
               /\ Outward(c) => ResultOK(c, done, fx, order)

\* What dispatches handed out.
Handed(done, fx) == UNION {Range(fx[i].messages) : i \in done}

\* Messages of lg, each once.
EachOnce(messages, lg) ==
    messages \in Seq(DOMAIN lg) /\ IsInjective(messages)

\* What a recv of the loop brings: new, drained for this request, and not too much.
GotOK(k, messages, done, fx, lg) ==
    /\ EachOnce(messages, lg)
    /\ Range(messages) \subseteq Handed(done, fx)
    /\ Range(messages) \cap Range(k.collected) = {}
    /\ Len(k.collected) + Len(messages) <= k.request.wanted

\* What the loop of channels_collect holds and still asks for.
CollectOK(k, c, done, fx, lg) ==
    Polled(k) =>
        /\ \A i \in done : fx[i].operation \in {"recv", "channels_collect"}
        /\ EachOnce(k.collected, lg)
        /\ Range(k.collected) \subseteq Handed(done, fx)
        /\ \A n \in Range(k.collected) : lg[n].about = k.request.topic
        /\ k.collected # <<>> => Len(k.collected) <= k.request.wanted
        /\ k.round = 0 => k.collected = <<>> /\ done = {}
        /\ k.phase \in {"look", "register", "sign"} /\ k.round # 0 =>
               Len(k.collected) < k.request.wanted
        /\ k.phase = "poll" => c.phase = "returned" /\ c.result.how # "raises" /\ c.result.code = None
        /\ k.phase = "dispatch" =>
               /\ c.operation = IF k.round = 1 THEN "channels_collect" ELSE "recv"
               /\ Inward(c) /\ k.round # 1 =>
                      /\ c.input.max = k.request.wanted - Len(k.collected)
                      /\ Len(k.collected) < k.request.wanted
               /\ Outward(c) /\ k.round # 1 => GotOK(k, c.result.messages, done, fx, lg)

\* Where a request is, and where its call.
PlaceOK(k, c, rounds) ==
    /\ k.phase \in {"idle", "look", "register", "sign", "dispatch", "poll", "answered"}
    /\ c.phase \in {"idle", "down", "auth", "up", "returned"}
    /\ k.round \in 0 .. rounds
    /\ k.phase = "idle" => k = NoTask /\ c = NoCall
    /\ k.phase \in {"look", "register", "sign"} => k.round < rounds
    /\ k.phase \in {"dispatch", "poll"} => k.round # 0
    /\ k.phase # "dispatch" => c.phase \in {"idle", "returned"}
    /\ k.phase = "dispatch" => c.phase # "idle"
    /\ k.phase # "idle" =>
           /\ k.request.wanted \in Nat
           /\ k.request.via = "http" => k.request.operation \in HttpOperations

\* AnswerIsTrue of a task in this state.
AnswerOK(k, c, done, fx, lg, order) ==
    LET r == k.request
        answer == k.answer
    IN  k.phase = "answered" =>
            /\ c.phase = "returned" /\ answer.status = "200" =>
                   c.trace = <<>> \/ c.trace[1].verdict = "passed"
            /\ ~Polled(k) /\ answer.status = "200" =>
                   DidOnce(done, fx, r.operation, answer.messages)
            /\ ~Polled(k) /\ answer.status \in {"400", "401"} => done = {}
            /\ ~Polled(k) /\ answer.status \in {"403", "500"} =>
                   done = {} \/ (c.phase = "returned" /\ HookFailed(c, order))
            /\ answer.status = "429" =>
                   \E i \in DOMAIN fx : done = {i} /\ fx[i].operation = "send"
            /\ Polled(k) /\ answer.status = "200" =>
                   /\ answer.messages = k.collected
                   /\ answer.complete <=> Len(k.collected) = r.wanted

TaskOK(k, c, done, fx, lg, order) ==
    /\ PlaceOK(k, c, MaxPolls)
    /\ TraceOK(c, Len(order))
    /\ SingleOK(k, c, done, fx, order)
    /\ CollectOK(k, c, done, fx, lg)
    /\ AnswerOK(k, c, done, fx, lg, order)

\* What was handed out to an agent is drained, and there is a message of each number.
DrainedOK ==
    /\ drained = [a \in Agents |-> drained[a]]
    /\ \A a \in Agents : drained[a] \subseteq DOMAIN log
    /\ \A i \in DOMAIN effects : effects[i].operation \in {"recv", "channels_collect"} =>
           /\ effects[i].agent \in Agents
           /\ Range(effects[i].messages) \subseteq drained[effects[i].agent]

Standing(t) == TaskOK(tasks[t], calls[t], DoneFor(t), effects, log, chain)

AnswerInv == DrainedOK /\ \A t \in Tasks : Standing(t)
-----------------------------------------------------------------------------
(* Sequences of numbers.                                                   *)

LEMMA MinIs ==
    ASSUME NEW a \in Nat, NEW b \in Nat
    PROVE  Min({a, b}) \in Nat /\ Min({a, b}) <= a /\ Min({a, b}) <= b
<1>1. \E x \in {a, b} : \A y \in {a, b} : x <= y
  OBVIOUS
<1>2. Min({a, b}) \in {a, b} /\ \A y \in {a, b} : Min({a, b}) <= y
  BY <1>1 DEF Min
<1> QED
  BY <1>2

\* A list of the oldest has only numbers it may have, each once, and not too many.
LEMMA OldestIs ==
    ASSUME NEW n \in Nat, NEW S \in SUBSET (1 .. n), NEW most \in Nat,
           NEW list \in Oldest(S, most)
    PROVE  /\ list \in Seq(S) /\ IsInjective(list)
           /\ Len(list) <= most /\ Len(list) <= n
           /\ S = {} => list = <<>>
<1>1. IsFiniteSet(S) /\ Cardinality(S) \in Nat /\ Cardinality(S) <= n
  <2>1. IsFiniteSet(1 .. n) /\ Cardinality(1 .. n) = n
    BY FS_Interval
  <2>2. IsFiniteSet(S) /\ Cardinality(S) <= Cardinality(1 .. n)
    BY <2>1, FS_Subset
  <2> QED
    BY <2>1, <2>2, FS_CardinalityType
<1> DEFINE m == Min({most, Cardinality(S)})
<1>2. m \in Nat /\ m <= most /\ m <= Cardinality(S)
  BY <1>1, MinIs
<1>3. /\ list \in [1 .. m -> S]
      /\ \A i, j \in DOMAIN list : i < j => list[i] < list[j]
  BY DEF Oldest
<1> HIDE DEF m
<1>4. list \in Seq(S) /\ Len(list) = m
  BY <1>2, <1>3
<1>5. \A i, j \in 1 .. m : list[i] = list[j] => i = j
  <2> SUFFICES ASSUME NEW i \in 1 .. m, NEW j \in 1 .. m, list[i] = list[j], i # j
               PROVE  FALSE
    OBVIOUS
  <2>1. list[i] \in Nat /\ list[j] \in Nat
    <3>1. S \subseteq Nat
      OBVIOUS
    <3>2. list[i] \in S /\ list[j] \in S
      BY <1>3
    <3> QED
      BY <3>1, <3>2
  <2>2. i < j \/ j < i
    BY <1>2
  <2> QED
    BY <1>3, <2>1, <2>2
<1>6. S = {} => list = <<>>
  <2> SUFFICES ASSUME S = {}
               PROVE  list = <<>>
    OBVIOUS
  <2>1. m = 0
    BY <1>1, <1>2, FS_EmptySet
  <2> QED
    BY <1>4, <2>1, EmptySeq
<1> QED
  BY <1>1, <1>2, <1>3, <1>4, <1>5, <1>6 DEF IsInjective

\* Those of some messages that stand at the places of a list are such messages, each once.
LEMMA PickedIs ==
    ASSUME NEW D, NEW messages \in Seq(D), IsInjective(messages),
           NEW places \in SUBSET DOMAIN messages, NEW at \in Oldest(places, Cardinality(places))
    PROVE  LET picked == [i \in DOMAIN at |-> messages[at[i]]]
           IN  /\ picked \in Seq(D) /\ IsInjective(picked)
               /\ Len(picked) <= Len(messages)
               /\ \A x \in Range(picked) : \E i \in places : x = messages[i]
<1> DEFINE picked == [i \in DOMAIN at |-> messages[at[i]]]
           n == Len(messages)
<1>1. n \in Nat /\ DOMAIN messages = 1 .. n /\ \A i \in 1 .. n : messages[i] \in D
  OBVIOUS
<1>2. Cardinality(places) \in Nat
  <2>1. IsFiniteSet(1 .. n) /\ places \subseteq 1 .. n
    BY <1>1, FS_Interval
  <2> QED
    BY <2>1, FS_Subset, FS_CardinalityType
<1>3. at \in Seq(places) /\ IsInjective(at) /\ Len(at) <= n
  BY <1>1, <1>2, OldestIs
<1>4. DOMAIN at = 1 .. Len(at) /\ Len(at) \in Nat /\ \A i \in DOMAIN at : at[i] \in places
  BY <1>3
<1>5. picked \in [1 .. Len(at) -> D]
  BY <1>1, <1>4
<1>6. picked \in Seq(D) /\ Len(picked) = Len(at)
  BY <1>4, <1>5
<1>7. IsInjective(picked)
  <2> SUFFICES ASSUME NEW i \in DOMAIN at, NEW j \in DOMAIN at, picked[i] = picked[j]
               PROVE  i = j
    BY DEF IsInjective
  <2>1. at[i] \in DOMAIN messages /\ at[j] \in DOMAIN messages /\ messages[at[i]] = messages[at[j]]
    BY <1>4
  <2>2. at[i] = at[j]
    BY <2>1 DEF IsInjective
  <2> QED
    BY <1>3, <2>2 DEF IsInjective
<1>8. \A x \in Range(picked) : \E i \in places : x = messages[i]
  BY <1>4 DEF Range
<1> QED
  BY <1>3, <1>6, <1>7, <1>8

\* Two lists without a common member, one behind the other.
LEMMA JoinedIs ==
    ASSUME NEW D, NEW s \in Seq(D), NEW p \in Seq(D), IsInjective(s), IsInjective(p),
           Range(s) \cap Range(p) = {}
    PROVE  /\ s \o p \in Seq(D) /\ IsInjective(s \o p) /\ Len(s \o p) = Len(s) + Len(p)
           /\ Range(s \o p) \subseteq Range(s) \cup Range(p)
<1> DEFINE j == s \o p
<1>1. /\ j \in Seq(D) /\ Len(j) = Len(s) + Len(p) /\ Len(s) \in Nat /\ Len(p) \in Nat
      /\ DOMAIN s = 1 .. Len(s) /\ DOMAIN p = 1 .. Len(p) /\ DOMAIN j = 1 .. Len(s) + Len(p)
      /\ \A x \in DOMAIN j : j[x] = IF x <= Len(s) THEN s[x] ELSE p[x - Len(s)]
  BY ConcatProperties, LenProperties
<1> HIDE DEF j
<1>2. \A x \in DOMAIN j : x <= Len(s) => x \in DOMAIN s /\ j[x] = s[x]
  BY <1>1
<1>3. \A x \in DOMAIN j : ~(x <= Len(s)) => x - Len(s) \in DOMAIN p /\ j[x] = p[x - Len(s)]
  BY <1>1
<1>4. Range(j) \subseteq Range(s) \cup Range(p)
  BY <1>2, <1>3 DEF Range
<1>5. ASSUME NEW x \in DOMAIN j, NEW y \in DOMAIN j, j[x] = j[y]
      PROVE  x = y
  <2>1. CASE x <= Len(s) /\ y <= Len(s)
    BY <1>2, <1>5, <2>1 DEF IsInjective
  <2>2. CASE ~(x <= Len(s)) /\ ~(y <= Len(s))
    <3>1. x - Len(s) = y - Len(s)
      BY <1>3, <1>5, <2>2 DEF IsInjective
    <3> QED
      BY <1>1, <3>1
  <2>3. CASE x <= Len(s) /\ ~(y <= Len(s))
    <3>1. j[x] \in Range(s) /\ j[y] \in Range(p)
      BY <1>2, <1>3, <2>3 DEF Range
    <3> QED
      BY <1>5, <3>1
  <2>4. CASE ~(x <= Len(s)) /\ y <= Len(s)
    <3>1. j[x] \in Range(p) /\ j[y] \in Range(s)
      BY <1>2, <1>3, <2>4 DEF Range
    <3> QED
      BY <1>5, <3>1
  <2> QED
    BY <2>1, <2>2, <2>3, <2>4
<1> QED
  BY <1>1, <1>4, <1>5 DEF IsInjective, j
-----------------------------------------------------------------------------
(* A call on its way, by itself.                                           *)

\* The log and the effects only grow.
Grows(fx, fx2, lg, lg2) ==
    /\ DOMAIN fx \subseteq DOMAIN fx2 /\ \A i \in DOMAIN fx : fx2[i] = fx[i]
    /\ DOMAIN lg \subseteq DOMAIN lg2 /\ \A n \in DOMAIN lg : lg2[n] = lg[n]

\* A result leaves a middleware, as it is or as the failure of that middleware.
LEMMA ClimbOn ==
    ASSUME NEW n \in Nat, NEW at \in 1 .. n + 1, NEW reached \in 0 .. n,
           NEW trace, trace = [i \in 1 .. n |-> trace[i]], NEW verdict, NEW new,
           Climbed(trace, at, reached, verdict, n), new.verdict # "skipped",
           new = verdict \/ (at \in 1 .. n /\ new.verdict = "errored"),
           NEW climbed, climbed = IF at \in 1 .. n THEN [trace EXCEPT ![at] = new] ELSE trace
    PROVE  /\ climbed = [i \in 1 .. n |-> climbed[i]]
           /\ Climbed(climbed, at - 1, reached, new, n)
<1>1. CASE at \in 1 .. n
  <2>1. /\ climbed = [i \in 1 .. n |-> climbed[i]] /\ climbed[at] = new
        /\ \A i \in 1 .. n : i # at => climbed[i] = trace[i]
    BY <1>1
  <2>2. at <= reached
    BY <1>1 DEF Climbed
  <2>3. \A i \in 1 .. n : climbed[i].verdict = "skipped" <=> (i <= at - 1 \/ i > reached)
    <3> SUFFICES ASSUME NEW i \in 1 .. n
                 PROVE  climbed[i].verdict = "skipped" <=> (i <= at - 1 \/ i > reached)
      OBVIOUS
    <3>1. CASE i = at
      BY <1>1, <2>1, <2>2, <3>1
    <3>2. CASE i # at
      <4>1. trace[i].verdict = "skipped" <=> (i <= at \/ i > reached)
        BY DEF Climbed
      <4> QED
        BY <1>1, <2>1, <3>2, <4>1
    <3> QED
      BY <3>1, <3>2
  <2>4. ASSUME NEW i \in 1 .. reached, NEW j \in 1 .. reached, at - 1 < i, i < j
        PROVE  /\ climbed[i].verdict = "passed" => climbed[j].verdict = "passed"
               /\ climbed[i].verdict = "rejected" => climbed[j] = climbed[i]
    <3>1. j \in 1 .. n /\ i \in 1 .. n /\ at < j /\ j # at /\ climbed[j] = trace[j]
      BY <1>1, <2>1, <2>4
    <3>2. CASE i # at
      <4>1. at < i /\ climbed[i] = trace[i]
        BY <1>1, <2>1, <2>4, <3>1, <3>2
      <4> QED
        BY <2>4, <3>1, <4>1 DEF Climbed
    <3>3. CASE i = at /\ new = verdict
      <4>1. trace[at + 1] = verdict /\ at + 1 \in 1 .. reached
        BY <1>1, <2>4, <3>1, <3>3 DEF Climbed
      <4>2. CASE j = at + 1
        BY <2>1, <3>1, <3>3, <4>1, <4>2
      <4>3. CASE j # at + 1
        <5>1. at < at + 1 /\ at + 1 < j
          BY <1>1, <3>1, <4>3
        <5>2. /\ trace[at + 1].verdict = "passed" => trace[j].verdict = "passed"
              /\ trace[at + 1].verdict = "rejected" => trace[j] = trace[at + 1]
          BY <4>1, <5>1 DEF Climbed
        <5> QED
          BY <2>1, <3>1, <3>3, <4>1, <5>2
      <4> QED
        BY <4>2, <4>3
    <3>4. CASE i = at /\ new.verdict = "errored"
      BY <2>1, <3>4
    <3> QED
      BY <3>2, <3>3, <3>4
  <2>5. at - 1 < reached => climbed[at - 1 + 1] = new
    BY <1>1, <2>1
  <2>6. (reached = 0 => n = 0) /\ at - 1 <= reached
    BY <1>1, <2>2 DEF Climbed
  <2> QED
    BY <2>1, <2>3, <2>4, <2>5, <2>6 DEF Climbed
<1>2. CASE at = n + 1
  <2>1. climbed = trace /\ reached = n /\ at - 1 = n
    BY <1>2 DEF Climbed
  <2>2. \A i \in 1 .. n : trace[i].verdict = "skipped" <=> (i <= n \/ i > n)
    BY <1>2 DEF Climbed
  <2>3. ~(n < n) /\ \A i, j \in 1 .. n : ~(n < i)
    OBVIOUS
  <2>4. reached = 0 => n = 0
    BY DEF Climbed
  <2>5. Climbed(trace, n, n, new, n)
    BY <2>1, <2>2, <2>3, <2>4 DEF Climbed
  <2>6. climbed = [i \in 1 .. n |-> climbed[i]]
    BY <2>1
  <2> QED
    BY <2>1, <2>5, <2>6
<1> QED
  BY <1>1, <1>2

\* A call on its way belongs to a dispatch.
LEMMA OnItsWay ==
    ASSUME NEW k, NEW c, PlaceOK(k, c, MaxPolls), Inward(c) \/ c.phase = "up"
    PROVE  k.phase = "dispatch" /\ k.round # 0
  BY DEF PlaceOK, Inward

\* A call goes on inward.
LEMMA GoneIn ==
    ASSUME NEW k, NEW c, NEW new, NEW done, NEW fx, NEW lg, NEW order,
           TaskOK(k, c, done, fx, lg, order), Inward(c), Inward(new),
           new.at \in 1 .. Len(order) + 1, new.phase = "auth" => new.at # Len(order) + 1,
           new.trace = c.trace, new.operation = c.operation, new.input.max = c.input.max
    PROVE  TaskOK(k, new, done, fx, lg, order)
<1>1. k.phase = "dispatch" /\ ~Outward(new) /\ ~Outward(c)
  BY OnItsWay DEF TaskOK, Outward, Inward
<1>2. PlaceOK(k, new, MaxPolls)
  BY <1>1 DEF TaskOK, PlaceOK, Inward
<1>3. TraceOK(new, Len(order))
  BY <1>1 DEF TaskOK, TraceOK, Inward
<1>4. SingleOK(k, new, done, fx, order)
  BY <1>1 DEF TaskOK, SingleOK
<1>5. CollectOK(k, new, done, fx, lg)
  BY <1>1 DEF TaskOK, CollectOK
<1> QED
  BY <1>1, <1>2, <1>3, <1>4, <1>5 DEF TaskOK, AnswerOK

\* Where a result starts its way up, nothing is written yet.
LEMMA ClimbBegins ==
    ASSUME NEW c, NEW new, NEW n \in Nat, TraceOK(c, n), Inward(c),
           new.phase = "up", new.at = c.at, new.trace = c.trace
    PROVE  TraceOK(new, n)
<1>1. /\ c.at \in 1 .. n + 1 /\ \A i \in 1 .. n : c.trace[i] = Skipped
      /\ c.trace = [i \in 1 .. n |-> c.trace[i]]
  BY DEF TraceOK, Inward
<1>2. \A i \in 1 .. n : new.trace[i].verdict = "skipped"
  BY <1>1 DEF Skipped
<1>3. PICK reached \in 0 .. n : /\ reached = IF c.at = n + 1 THEN n ELSE c.at
  BY <1>1
<1>4. Climbed(new.trace, new.at, reached, Verdict(new.result), n)
  BY <1>1, <1>2, <1>3 DEF Climbed
<1> QED
  BY <1>1, <1>4 DEF TraceOK, Inward

\* A call turns back without the store.
LEMMA TurnedBack ==
    ASSUME NEW k, NEW c, NEW new, NEW done, NEW fx, NEW lg, NEW order, Len(order) \in Nat,
           TaskOK(k, c, done, fx, lg, order), Inward(c),
           new.phase = "up", new.at = c.at, new.trace = c.trace, new.operation = c.operation,
           new.result.messages = <<>>, ~new.result.over,
           \/ /\ new.result.how = "denies"
              /\ new.result.code \in {"validation_error", "hook_denied", "identity_failure"}
           \/ new.result.how = "raises"
           \/ new.result.how = "returns" /\ new.result.code = "internal_error"
    PROVE  TaskOK(k, new, done, fx, lg, order)
<1>1. k.phase = "dispatch" /\ ~Inward(new)
  BY OnItsWay DEF TaskOK, Inward
<1>2. PlaceOK(k, new, MaxPolls)
  BY <1>1 DEF TaskOK, PlaceOK, Inward
<1>3. TraceOK(new, Len(order))
  BY ClimbBegins DEF TaskOK
<1>4. SingleOK(k, new, done, fx, order)
  <2>1. ~Polled(k) => done = {}
    BY <1>1 DEF TaskOK, SingleOK
  <2>2. ~Polled(k) => ResultOK(new, done, fx, order)
    BY <2>1 DEF ResultOK
  <2> QED
    BY <1>1, <2>2 DEF TaskOK, SingleOK
<1>5. CollectOK(k, new, done, fx, lg)
  <2>1. ASSUME Polled(k), k.round # 1
        PROVE  GotOK(k, new.result.messages, done, fx, lg)
    <3>1. EachOnce(k.collected, lg) /\ Len(k.collected) < k.request.wanted
      BY <1>1, <2>1 DEF TaskOK, CollectOK
    <3>2. EachOnce(<<>>, lg) /\ Range(<<>>) = {} /\ Len(<<>>) = 0
      BY EmptySeq DEF EachOnce, IsInjective, Range
    <3>3. Len(k.collected) \in Nat /\ k.request.wanted \in Nat
      BY <1>1, <3>1 DEF EachOnce, TaskOK, PlaceOK
    <3> QED
      BY <3>1, <3>2, <3>3 DEF GotOK
  <2> QED
    BY <1>1, <2>1 DEF TaskOK, CollectOK
<1> QED
  BY <1>1, <1>2, <1>3, <1>4, <1>5 DEF TaskOK, AnswerOK

LEMMA Fits ==
    ASSUME NEW a \in Nat, NEW b \in Nat, NEW w \in Nat
    PROVE  /\ a + b <= w => a + 0 <= w
           /\ b <= w - a => a + b <= w
  OBVIOUS

\* A result leaves a middleware, on its way up or out of the chain, or fails there.
LeavesFor(c, new, order) ==
    /\ c.phase = "up" /\ new.phase = IF c.at <= 1 THEN "returned" ELSE "up"
    /\ new.at = c.at - 1 /\ new.operation = c.operation
    /\ new.trace = IF c.at \in DOMAIN order
                   THEN [c.trace EXCEPT ![c.at] = Verdict(new.result)] ELSE c.trace
    /\ \/ new.result = c.result
       \/ /\ new.result = Raises /\ c.at \in DOMAIN order
          /\ order[c.at] \in {"hook_dispatcher", "middleware_log"}

LEMMA Left ==
    ASSUME NEW k, NEW c, NEW new, NEW done, NEW fx, NEW lg, NEW order,
           Len(order) \in Nat, DOMAIN order = 1 .. Len(order),
           TaskOK(k, c, done, fx, lg, order), LeavesFor(c, new, order)
    PROVE  TaskOK(k, new, done, fx, lg, order)
<1> DEFINE n == Len(order)
<1> USE DEF LeavesFor
<1>1. k.phase = "dispatch" /\ k.round # 0 /\ Outward(c) /\ Outward(new) /\ ~Inward(new)
  BY OnItsWay DEF TaskOK, Inward, Outward
<1>2. PlaceOK(k, new, MaxPolls)
  BY <1>1 DEF TaskOK, PlaceOK, Outward
<1>3. c.at \in 1 .. n + 1 /\ c.trace = [i \in 1 .. n |-> c.trace[i]]
  BY DEF TaskOK, TraceOK
<1>4. PICK reached \in 0 .. n : Climbed(c.trace, c.at, reached, Verdict(c.result), n)
  BY <1>1 DEF TaskOK, TraceOK
<1>5. /\ Verdict(new.result).verdict # "skipped"
      /\ Verdict(new.result) = Verdict(c.result) \/ Verdict(new.result).verdict = "errored"
      /\ new.result # c.result => c.at \in 1 .. n /\ Verdict(new.result).verdict = "errored"
  BY DEF Verdict, Raises, Result
<1>6. /\ new.trace = [i \in 1 .. n |-> new.trace[i]]
      /\ Climbed(new.trace, c.at - 1, reached, Verdict(new.result), n)
  <2> DEFINE verdict == Verdict(new.result)
             older == Verdict(c.result)
  <2>1. verdict = older \/ (c.at \in 1 .. n /\ verdict.verdict = "errored")
    BY <1>5
  <2>2. new.trace = IF c.at \in 1 .. n THEN [c.trace EXCEPT ![c.at] = verdict] ELSE c.trace
    OBVIOUS
  <2>3. Climbed(c.trace, c.at, reached, older, n) /\ verdict.verdict # "skipped"
    BY <1>4, <1>5
  <2> HIDE DEF verdict, older, n
  <2>4. n \in Nat
    BY DEF n
  <2> QED
    BY <1>3, <2>1, <2>2, <2>3, <2>4, ClimbOn DEF verdict
<1>7. TraceOK(new, n)
  <2>1. new.at \in 0 .. n + 1 /\ (new.phase = "up" => new.at # 0) /\ (new.phase = "returned" => new.at = 0)
    BY <1>3
  <2>2. \E r \in 0 .. n : Climbed(new.trace, new.at, r, Verdict(new.result), n)
    BY <1>6
  <2> HIDE DEF n
  <2> QED
    BY <1>1, <1>6, <2>1, <2>2 DEF TraceOK, Outward
<1>8. SingleOK(k, new, done, fx, order)
  <2>1. ASSUME ~Polled(k)
        PROVE  ResultOK(new, done, fx, order)
    <3>1. ResultOK(c, done, fx, order)
      BY <1>1, <2>1 DEF TaskOK, SingleOK
    <3>2. CASE new.result = c.result
      <4>1. ASSUME HookFailed(c, order)
            PROVE  HookFailed(new, order)
        <5>1. PICK i \in DOMAIN order : /\ c.trace[i].verdict = "errored"
                                        /\ order[i] \in {"hook_dispatcher", "middleware_log"}
          BY <4>1 DEF HookFailed
        <5>2. i # c.at
          <6>1. c.at \in 1 .. n => c.trace[c.at].verdict = "skipped"
            <7> HIDE DEF n
            <7> QED
              BY <1>3, <1>4 DEF Climbed
          <6> QED
            BY <5>1, <6>1
        <5>3. new.trace[i] = c.trace[i]
          BY <1>3, <5>1, <5>2
        <5> QED
          BY <5>1, <5>3 DEF HookFailed
      <4> QED
        BY <3>1, <3>2, <4>1 DEF ResultOK
    <3>3. CASE /\ new.result = Raises /\ c.at \in DOMAIN order
               /\ order[c.at] \in {"hook_dispatcher", "middleware_log"}
      <4>1. Verdict(new.result).verdict = "errored"
        BY <3>3 DEF Raises, Result, Verdict
      <4>2. new.trace[c.at] = Verdict(new.result)
        BY <1>3, <3>3
      <4>3. HookFailed(new, order)
        BY <3>3, <4>1, <4>2 DEF HookFailed
      <4> QED
        BY <3>3, <4>3 DEF ResultOK, Raises, Result
    <3> QED
      BY <3>2, <3>3
  <2> QED
    BY <1>1, <2>1 DEF TaskOK, SingleOK
<1>9. CollectOK(k, new, done, fx, lg)
  <2>1. ASSUME Polled(k), k.round # 1
        PROVE  GotOK(k, new.result.messages, done, fx, lg)
    <3>1. GotOK(k, c.result.messages, done, fx, lg)
      BY <1>1, <2>1 DEF TaskOK, CollectOK
    <3>2. CASE new.result = c.result
      BY <3>1, <3>2
    <3>3. CASE new.result = Raises
      <4>1. new.result.messages = <<>>
        BY <3>3 DEF Raises, Result
      <4>2. EachOnce(<<>>, lg) /\ Range(<<>>) = {} /\ Len(<<>>) = 0
        BY EmptySeq DEF EachOnce, IsInjective, Range
      <4>3. EachOnce(k.collected, lg) /\ EachOnce(c.result.messages, lg)
        BY <2>1, <3>1 DEF GotOK, TaskOK, CollectOK
      <4>4. Len(c.result.messages) \in Nat /\ Len(k.collected) \in Nat
        BY <4>3 DEF EachOnce
      <4>5. k.request.wanted \in Nat
        BY <1>1 DEF TaskOK, PlaceOK
      <4>6. Len(k.collected) + Len(c.result.messages) <= k.request.wanted
        BY <3>1 DEF GotOK
      <4>7. Len(k.collected) + 0 <= k.request.wanted
        BY <4>4, <4>5, <4>6, Fits
      <4>8. GotOK(k, <<>>, done, fx, lg)
        BY <4>2, <4>7 DEF GotOK
      <4> QED
        BY <4>1, <4>8
    <3> QED
      BY <3>2, <3>3
  <2> QED
    BY <1>1, <2>1 DEF TaskOK, CollectOK
<1> QED
  BY <1>1, <1>2, <1>7, <1>8, <1>9 DEF TaskOK, AnswerOK

\* The store acts for a call, whose result starts its way up.
LEMMA StoreDid ==
    ASSUME NEW k, NEW c, NEW new, NEW done, NEW fx, NEW lg, NEW order, Len(order) \in Nat,
           TaskOK(k, c, done, fx, lg, order), Inward(c), done \subseteq DOMAIN fx,
           NEW fx2, NEW lg2, Grows(fx, fx2, lg, lg2), NEW i \in DOMAIN fx2, i \notin DOMAIN fx,
           new.phase = "up", new.at = c.at, new.trace = c.trace, new.operation = c.operation,
           fx2[i].operation = c.operation, fx2[i].messages = new.result.messages,
           new.result.how = "returns", new.result.code = None,
           new.result.over => c.operation = "send",
           c.operation = "group_invite" => new.result.messages = <<>>,
           Polled(k) /\ k.round # 1 =>
               /\ EachOnce(new.result.messages, lg2)
               /\ Range(new.result.messages) \cap Range(k.collected) = {}
               /\ Len(new.result.messages) <= c.input.max
    PROVE  TaskOK(k, new, done \cup {i}, fx2, lg2, order)
<1>1. k.phase = "dispatch" /\ k.round # 0 /\ ~Inward(new)
  BY OnItsWay DEF TaskOK, Inward
<1>2. PlaceOK(k, new, MaxPolls)
  BY <1>1 DEF TaskOK, PlaceOK, Inward
<1>3. TraceOK(new, Len(order))
  BY ClimbBegins DEF TaskOK
<1>4. SingleOK(k, new, done \cup {i}, fx2, order)
  <2>1. ASSUME ~Polled(k)
        PROVE  ResultOK(new, done \cup {i}, fx2, order)
    <3>1. done = {}
      BY <1>1, <2>1 DEF TaskOK, SingleOK
    <3>2. DidOnce(done \cup {i}, fx2, new.operation, new.result.messages)
      BY <3>1 DEF DidOnce
    <3> QED
      BY <3>2 DEF ResultOK
  <2> QED
    BY <1>1, <2>1 DEF TaskOK, SingleOK
<1>5. CollectOK(k, new, done \cup {i}, fx2, lg2)
  <2> SUFFICES ASSUME Polled(k)
               PROVE  CollectOK(k, new, done \cup {i}, fx2, lg2)
    BY DEF CollectOK
  <2>1. CollectOK(k, c, done, fx, lg)
    BY DEF TaskOK
  <2>2. Handed(done \cup {i}, fx2) = Handed(done, fx) \cup Range(new.result.messages)
    BY DEF Handed, Grows
  <2>3. \A j \in done \cup {i} : fx2[j].operation \in {"recv", "channels_collect"}
    BY <1>1, <2>1 DEF CollectOK, Grows
  <2>4. EachOnce(k.collected, lg2)
    BY <2>1, SeqMonotonic DEF CollectOK, EachOnce, Grows
  <2>5. /\ Range(k.collected) \subseteq Handed(done \cup {i}, fx2)
        /\ \A x \in Range(k.collected) : lg2[x].about = k.request.topic
    <3>1. Range(k.collected) \subseteq DOMAIN lg
      BY <2>1 DEF CollectOK, EachOnce, Range
    <3> QED
      BY <2>1, <2>2, <3>1 DEF CollectOK, Grows
  <2>6. k.round # 1 => GotOK(k, new.result.messages, done \cup {i}, fx2, lg2)
    <3> SUFFICES ASSUME k.round # 1
                 PROVE  GotOK(k, new.result.messages, done \cup {i}, fx2, lg2)
      OBVIOUS
    <3>1. c.input.max = k.request.wanted - Len(k.collected)
      BY <1>1, <2>1 DEF CollectOK
    <3>2. /\ k.request.wanted \in Nat /\ Len(k.collected) \in Nat
          /\ Len(new.result.messages) \in Nat
      BY <1>1, <2>1 DEF CollectOK, EachOnce, TaskOK, PlaceOK
    <3>3. Len(new.result.messages) <= k.request.wanted - Len(k.collected)
      BY <3>1
    <3>4. Len(k.collected) + Len(new.result.messages) <= k.request.wanted
      BY <3>2, <3>3, Fits
    <3> QED
      BY <2>2, <3>4 DEF GotOK
  <2> QED
    BY <1>1, <2>1, <2>3, <2>4, <2>5, <2>6 DEF CollectOK
<1> QED
  BY <1>1, <1>2, <1>3, <1>4, <1>5 DEF TaskOK, AnswerOK

\* What the store does for others changes nothing of a task.
LEMMA StaysOK ==
    ASSUME NEW k, NEW c, NEW done, NEW fx, NEW lg, NEW order, NEW fx2, NEW lg2,
           TaskOK(k, c, done, fx, lg, order), done \subseteq DOMAIN fx, Grows(fx, fx2, lg, lg2)
    PROVE  TaskOK(k, c, done, fx2, lg2, order)
<1>1. \A operation, messages : DidOnce(done, fx, operation, messages)
                               => DidOnce(done, fx2, operation, messages)
  BY DEF DidOnce, Grows
<1>2. Handed(done, fx2) = Handed(done, fx)
  BY DEF Handed, Grows
<1>3. \A messages : EachOnce(messages, lg) => EachOnce(messages, lg2)
  BY SeqMonotonic DEF EachOnce, Grows
<1>4. SingleOK(k, c, done, fx2, order)
  <2>1. ResultOK(c, done, fx, order) => ResultOK(c, done, fx2, order)
    BY <1>1 DEF ResultOK
  <2> QED
    BY <2>1 DEF TaskOK, SingleOK
<1>5. CollectOK(k, c, done, fx2, lg2)
  <2> SUFFICES ASSUME Polled(k)
               PROVE  CollectOK(k, c, done, fx2, lg2)
    BY DEF CollectOK
  <2>1. CollectOK(k, c, done, fx, lg)
    BY DEF TaskOK
  <2>2. \A j \in done : fx2[j] = fx[j]
    BY DEF Grows
  <2>3. \A x \in Range(k.collected) : lg2[x].about = k.request.topic
    <3>1. Range(k.collected) \subseteq DOMAIN lg
      BY <2>1 DEF CollectOK, EachOnce, Range
    <3> QED
      BY <2>1, <3>1 DEF CollectOK, Grows
  <2>4. \A messages : GotOK(k, messages, done, fx, lg) => GotOK(k, messages, done, fx2, lg2)
    BY <1>2, <1>3 DEF GotOK
  <2> QED
    BY <1>2, <1>3, <2>1, <2>2, <2>3, <2>4 DEF CollectOK
<1>6. AnswerOK(k, c, done, fx2, lg2, order)
  <2>1. AnswerOK(k, c, done, fx, lg, order)
    BY DEF TaskOK
  <2>2. (\E i \in DOMAIN fx : done = {i} /\ fx[i].operation = "send")
            => \E i \in DOMAIN fx2 : done = {i} /\ fx2[i].operation = "send"
    BY DEF Grows
  <2> QED
    BY <1>1, <2>1, <2>2 DEF AnswerOK
<1> QED
  BY <1>4, <1>5, <1>6 DEF TaskOK

-----------------------------------------------------------------------------
(* A call on its way, among the others.                                    *)

LEMMA ChainIs ==
    ASSUME ShapeOK
    PROVE  Len(chain) \in Nat /\ DOMAIN chain = 1 .. Len(chain)
<1>1. chain \in Seq(STRING)
  BY RequestsAssumption DEF ShapeOK
<1> QED
  BY <1>1

\* A step of one task keeps the invariant if it keeps that of the task.
LEMMA OneMoves ==
    ASSUME AnswerInv, NEW t \in Tasks,
           \A u \in Tasks \ {t} : tasks'[u] = tasks[u] /\ calls'[u] = calls[u],
           UNCHANGED <<chain, log, drained, effects>>,
           TaskOK(tasks'[t], calls'[t], DoneFor(t), effects, log, chain)
    PROVE  AnswerInv'
<1>1. DrainedOK'
  BY DEF AnswerInv, DrainedOK
<1>2. ASSUME NEW u \in Tasks
      PROVE  Standing(u)'
  <2>1. DoneFor(u)' = DoneFor(u)
    BY DEF DoneFor
  <2>2. CASE u = t
    BY <2>1, <2>2 DEF Standing
  <2>3. CASE u # t
    <3>1. Standing(u)
      BY DEF AnswerInv
    <3> QED
      BY <2>1, <2>3, <3>1 DEF Standing
  <2> QED
    BY <2>2, <2>3
<1> QED
  BY <1>1, <1>2 DEF AnswerInv

LEMMA GoOnIs ==
    ASSUME ShapeOK, NEW t \in Tasks, NEW call, DOMAIN call = DOMAIN NoCall, GoOn(t, call)
    PROVE  /\ calls'[t].phase = "down" /\ calls'[t].at = call.at + 1
           /\ calls'[t].trace = call.trace /\ calls'[t].operation = call.operation
           /\ calls'[t].input = call.input
           /\ \A u \in Tasks \ {t} : calls'[u] = calls[u]
<1>1. calls = [u \in Tasks |-> calls[u]]
  BY DEF ShapeOK
<1>2. PICK new : /\ new = [call EXCEPT !.phase = "down", !.at = @ + 1]
                 /\ calls' = [calls EXCEPT ![t] = new]
  BY DEF GoOn
<1>3. calls'[t] = new /\ \A u \in Tasks \ {t} : calls'[u] = calls[u]
  BY <1>1, <1>2
<1>4. /\ new.phase = "down" /\ new.at = call.at + 1 /\ new.trace = call.trace
      /\ new.operation = call.operation /\ new.input = call.input
  BY <1>2 DEF NoCall
<1> QED
  BY <1>3, <1>4

LEMMA TurnBackIs ==
    ASSUME ShapeOK, NEW t \in Tasks, NEW result, TurnBack(t, result)
    PROVE  /\ calls'[t].phase = "up" /\ calls'[t].at = calls[t].at
           /\ calls'[t].trace = calls[t].trace /\ calls'[t].operation = calls[t].operation
           /\ calls'[t].result = result
           /\ \A u \in Tasks \ {t} : calls'[u] = calls[u]
<1>1. calls = [u \in Tasks |-> calls[u]] /\ DOMAIN calls[t] = DOMAIN NoCall
  BY DEF ShapeOK
<1>2. PICK new : /\ new = [calls[t] EXCEPT !.phase = "up", !.result = result]
                 /\ calls' = [calls EXCEPT ![t] = new]
  BY <1>1 DEF TurnBack
<1>3. calls'[t] = new /\ \A u \in Tasks \ {t} : calls'[u] = calls[u]
  BY <1>1, <1>2
<1>4. /\ new.phase = "up" /\ new.at = calls[t].at /\ new.trace = calls[t].trace
      /\ new.operation = calls[t].operation /\ new.result = result
  BY <1>1, <1>2 DEF NoCall
<1> QED
  BY <1>3, <1>4

\* A call that is in a middleware, or behind the chain.
LEMMA WhereIs ==
    ASSUME ShapeOK, AnswerInv, NEW t \in Tasks, Inward(calls[t])
    PROVE  /\ calls[t].at \in 1 .. Len(chain) + 1
           /\ calls[t].phase = "auth" => calls[t].at \in 1 .. Len(chain)
           /\ calls[t].at \in DOMAIN chain <=> calls[t].at \in 1 .. Len(chain)
<1>1. TraceOK(calls[t], Len(chain))
  BY DEF AnswerInv, Standing, TaskOK
<1>2. Len(chain) \in Nat /\ DOMAIN chain = 1 .. Len(chain)
  BY ChainIs
<1>3. /\ calls[t].at \in 0 .. Len(chain) + 1 /\ calls[t].at # 0
      /\ calls[t].phase = "auth" => calls[t].at # Len(chain) + 1
  BY <1>1 DEF TraceOK, Inward
<1> QED
  BY <1>2, <1>3

\* The call of t goes one middleware further.
LEMMA GoOnAnswers ==
    ASSUME ShapeOK, AnswerInv, NEW t \in Tasks, Inward(calls[t]),
           calls[t].at \in 1 .. Len(chain), NEW call, DOMAIN call = DOMAIN NoCall,
           call.at = calls[t].at, call.trace = calls[t].trace,
           call.operation = calls[t].operation, call.input.max = calls[t].input.max,
           GoOn(t, call), UNCHANGED <<tasks, chain, log, drained, effects>>
    PROVE  AnswerInv'
<1>1. /\ calls'[t].phase = "down" /\ calls'[t].at = calls[t].at + 1
      /\ calls'[t].trace = calls[t].trace /\ calls'[t].operation = calls[t].operation
      /\ calls'[t].input.max = calls[t].input.max
      /\ \A u \in Tasks \ {t} : calls'[u] = calls[u]
  BY GoOnIs
<1>2. Len(chain) \in Nat /\ calls'[t].at \in 1 .. Len(chain) + 1
  BY <1>1, ChainIs
<1>3. TaskOK(tasks[t], calls[t], DoneFor(t), effects, log, chain)
  BY DEF AnswerInv, Standing
<1>4. TaskOK(tasks[t], calls'[t], DoneFor(t), effects, log, chain)
  <2> DEFINE new == calls'[t]
  <2>1. Inward(new)
    BY <1>1 DEF Inward
  <2> QED
    BY <1>1, <1>2, <1>3, <2>1, GoneIn
<1> QED
  BY <1>1, <1>4, OneMoves

\* The call of t turns back, and the store has done nothing.
LEMMA TurnBackAnswers ==
    ASSUME ShapeOK, AnswerInv, NEW t \in Tasks, Inward(calls[t]), NEW result,
           \/ result = Raises \/ result = Returns("internal_error", <<>>)
           \/ \E code \in {"validation_error", "hook_denied", "identity_failure"} :
                  result = Denies(code),
           TurnBack(t, result), UNCHANGED <<tasks, chain, log, drained, effects>>
    PROVE  AnswerInv'
<1>1. /\ calls'[t].phase = "up" /\ calls'[t].at = calls[t].at
      /\ calls'[t].trace = calls[t].trace /\ calls'[t].operation = calls[t].operation
      /\ calls'[t].result = result
      /\ \A u \in Tasks \ {t} : calls'[u] = calls[u]
  BY TurnBackIs
<1>2. TaskOK(tasks[t], calls[t], DoneFor(t), effects, log, chain)
  BY DEF AnswerInv, Standing
<1>3. /\ result.messages = <<>> /\ ~result.over
      /\ \/ /\ result.how = "denies"
            /\ result.code \in {"validation_error", "hook_denied", "identity_failure"}
         \/ result.how = "raises"
         \/ result.how = "returns" /\ result.code = "internal_error"
  BY DEF Raises, Returns, Denies, Result
<1>4. Len(chain) \in Nat
  BY ChainIs
<1>5. TaskOK(tasks[t], calls'[t], DoneFor(t), effects, log, chain)
  <2> DEFINE new == calls'[t]
  <2> QED
    BY <1>1, <1>2, <1>3, <1>4, TurnedBack
<1> QED
  BY <1>1, <1>5, OneMoves

\* The steps between the middlewares that are not the verification and not the store.
LEMMA MovesAnswer ==
    ASSUME ShapeOK, AnswerInv, NEW t \in Tasks, UNCHANGED tasks,
           \/ SchemaStrict(t) \/ PreHooks(t) \/ EnterLog(t) \/ PassAuth(t)
           \/ MissCredential(t) \/ StoreUnsupported(t) \/ StoreRaises(t)
    PROVE  AnswerInv'
<1>1. UNCHANGED <<tasks, chain, log, drained, effects>>
  BY DEF SchemaStrict, PreHooks, EnterLog, PassAuth, MissCredential, StoreUnsupported,
         StoreRaises, CallsOnly
<1>2. calls[t].phase = "down" /\ Inward(calls[t])
  BY DEF SchemaStrict, PreHooks, EnterLog, PassAuth, MissCredential, StoreUnsupported,
         StoreRaises, Entering, AtStore, Inward
<1>3. DOMAIN calls[t] = DOMAIN NoCall
  BY DEF ShapeOK
<1>4. ASSUME GoOn(t, calls[t]), calls[t].at \in DOMAIN chain
      PROVE  AnswerInv'
  <2>1. calls[t].at \in 1 .. Len(chain)
    BY <1>2, <1>4, WhereIs
  <2> QED
    BY <1>1, <1>2, <1>3, <1>4, <2>1, GoOnAnswers
<1>5. ASSUME NEW result, TurnBack(t, result),
             \/ result = Raises \/ result = Returns("internal_error", <<>>)
             \/ \E code \in {"validation_error", "hook_denied", "identity_failure"} :
                    result = Denies(code)
      PROVE  AnswerInv'
  BY <1>1, <1>2, <1>5, TurnBackAnswers
<1>6. CASE SchemaStrict(t)
  BY <1>4, <1>5, <1>6 DEF SchemaStrict, Entering
<1>7. CASE PreHooks(t)
  BY <1>4, <1>5, <1>7 DEF PreHooks, Entering
<1>8. CASE EnterLog(t) \/ PassAuth(t)
  BY <1>4, <1>8 DEF EnterLog, PassAuth, Entering
<1>9. CASE MissCredential(t)
  BY <1>5, <1>9 DEF MissCredential
<1>10. CASE StoreUnsupported(t)
  BY <1>5, <1>10 DEF StoreUnsupported
<1>11. CASE StoreRaises(t)
  BY <1>5, <1>11 DEF StoreRaises
<1> QED
  BY <1>6, <1>7, <1>8, <1>9, <1>10, <1>11

LEMMA LeaveAnswers ==
    ASSUME ShapeOK, AnswerInv, NEW t \in Tasks, UNCHANGED tasks, Leave(t)
    PROVE  AnswerInv'
<1> DEFINE at == calls[t].at
           trace(result) == IF at \in DOMAIN chain
                            THEN [calls[t].trace EXCEPT ![at] = Verdict(result)]
                            ELSE calls[t].trace
           left(result) == [calls[t] EXCEPT !.at = at - 1, !.result = result,
                                            !.phase = IF at <= 1 THEN "returned" ELSE "up",
                                            !.trace = trace(result)]
<1>1. /\ calls[t].phase = "up" /\ UNCHANGED <<tasks, chain, log, drained, effects>>
      /\ calls = [u \in Tasks |-> calls[u]] /\ DOMAIN calls[t] = DOMAIN NoCall
  BY DEF Leave, ShapeOK
<1>2. PICK result : /\ calls' = [calls EXCEPT ![t] = left(result)]
                    /\ \/ result = calls[t].result
                       \/ /\ result = Raises /\ at \in DOMAIN chain
                          /\ chain[at] \in {"hook_dispatcher", "middleware_log"}
  BY DEF Leave
<1>3. calls'[t] = left(result) /\ \A u \in Tasks \ {t} : calls'[u] = calls[u]
  BY <1>1, <1>2
<1>4. /\ calls'[t].phase = IF at <= 1 THEN "returned" ELSE "up"
      /\ calls'[t].at = at - 1 /\ calls'[t].result = result
      /\ calls'[t].trace = trace(result) /\ calls'[t].operation = calls[t].operation
  <2> HIDE DEF trace
  <2> QED
    BY <1>1, <1>3 DEF NoCall
<1>5. TaskOK(tasks[t], calls[t], DoneFor(t), effects, log, chain)
  BY DEF AnswerInv, Standing
<1>6. Len(chain) \in Nat /\ DOMAIN chain = 1 .. Len(chain)
  BY ChainIs
<1>7. TaskOK(tasks[t], calls'[t], DoneFor(t), effects, log, chain)
  <2> DEFINE new == calls'[t]
             c == calls[t]
  <2>1. LeavesFor(c, new, chain)
    BY <1>1, <1>2, <1>4 DEF LeavesFor
  <2> HIDE DEF trace, left
  <2> QED
    BY <1>5, <1>6, <2>1, Left
<1> QED
  BY <1>1, <1>3, <1>7, OneMoves

\* The verification, from the credential to the identity that is bound.
LEMMA VerifyAnswers ==
    ASSUME ShapeOK, AnswerInv, NEW t \in Tasks, UNCHANGED tasks,
           BeginAuth(t) \/ VerifyRecord(t) \/ VerifyNonce(t) \/ EndAuth(t)
    PROVE  AnswerInv'
<1>1. UNCHANGED <<tasks, chain, log, drained, effects>>
  BY DEF BeginAuth, VerifyRecord, VerifyNonce, EndAuth, pipelineVars
<1>2. calls = [u \in Tasks |-> calls[u]] /\ DOMAIN calls[t] = DOMAIN NoCall
  BY DEF ShapeOK
<1>3. TaskOK(tasks[t], calls[t], DoneFor(t), effects, log, chain)
  BY DEF AnswerInv, Standing
<1>4. CASE VerifyRecord(t) \/ VerifyNonce(t)
  <2>1. calls' = calls
    BY <1>4 DEF VerifyRecord, VerifyNonce, pipelineVars
  <2> QED
    BY <1>1, <1>3, <2>1, OneMoves
<1>5. CASE BeginAuth(t)
  <2>1. calls[t].phase = "down" /\ Inward(calls[t]) /\ calls[t].at \in DOMAIN chain
    BY <1>5 DEF BeginAuth, Entering, Inward
  <2>2. DOMAIN calls[t].input = DOMAIN NoInput
    BY <2>1 DEF ShapeOK, Live
  <2>3. PICK input : /\ input.max = calls[t].input.max
                     /\ calls' = [calls EXCEPT ![t].phase = "auth", ![t].input = input]
    <3>1. PICK signed : calls' = [calls EXCEPT ![t].phase = "auth",
                                               ![t].input.signed_request = signed]
      BY <1>5 DEF BeginAuth
    <3> DEFINE input == [calls[t].input EXCEPT !.signed_request = signed]
    <3>2. input.max = calls[t].input.max
      BY <2>2 DEF NoInput
    <3>3. calls' = [calls EXCEPT ![t].phase = "auth", ![t].input = input]
      BY <1>2, <3>1 DEF NoCall
    <3> HIDE DEF input
    <3> QED
      BY <3>2, <3>3
  <2>4. /\ calls'[t].phase = "auth" /\ calls'[t].at = calls[t].at
        /\ calls'[t].trace = calls[t].trace /\ calls'[t].operation = calls[t].operation
        /\ calls'[t].input = input
        /\ \A u \in Tasks \ {t} : calls'[u] = calls[u]
    BY <1>2, <2>3 DEF NoCall
  <2>5. calls'[t].at \in 1 .. Len(chain) + 1 /\ calls'[t].at # Len(chain) + 1
    BY <2>1, <2>4, ChainIs, WhereIs
  <2>6. TaskOK(tasks[t], calls'[t], DoneFor(t), effects, log, chain)
    <3> DEFINE new == calls'[t]
    <3>1. Inward(new)
      BY <2>4 DEF Inward
    <3> QED
      BY <1>3, <2>1, <2>3, <2>4, <2>5, <3>1, GoneIn
  <2> QED
    BY <1>1, <2>4, <2>6, OneMoves
<1>6. CASE EndAuth(t)
  <2>1. calls[t].phase = "auth" /\ Inward(calls[t])
    BY <1>6 DEF EndAuth, Inward
  <2>2. calls[t].at \in 1 .. Len(chain)
    BY <2>1, WhereIs
  <2>3. CASE \/ TurnBack(t, Denies("identity_failure"))
             \/ TurnBack(t, Raises)
    BY <1>1, <2>1, <2>3, TurnBackAnswers
  <2>4. CASE GoOn(t, BindForSend(calls[t], verifying[t].request.agent))
    <3> DEFINE agent == verifying[t].request.agent
               call == BindForSend(calls[t], agent)
    <3>1. DOMAIN calls[t].input = DOMAIN NoInput
      BY <2>1 DEF ShapeOK, Live
    <3>2. /\ DOMAIN call = DOMAIN NoCall /\ call.at = calls[t].at
          /\ call.trace = calls[t].trace /\ call.operation = calls[t].operation
          /\ call.input.max = calls[t].input.max
      <4>1. CASE calls[t].operation = "send"
        <5> DEFINE input == [calls[t].input EXCEPT !.sender = agent]
        <5>1. call = [calls[t] EXCEPT !.input = input, !.agent = agent]
          BY <1>2, <4>1 DEF BindForSend, NoCall
        <5>2. input.max = calls[t].input.max
          BY <3>1 DEF NoInput
        <5> HIDE DEF input, agent, call
        <5> QED
          BY <1>2, <5>1, <5>2 DEF NoCall
      <4>2. CASE calls[t].operation # "send"
        <5>1. call = [calls[t] EXCEPT !.agent = agent]
          BY <4>2 DEF BindForSend
        <5> HIDE DEF agent, call
        <5> QED
          BY <1>2, <5>1 DEF NoCall
      <4> QED
        BY <4>1, <4>2
    <3>3. GoOn(t, call)
      BY <2>4
    <3> HIDE DEF call
    <3> QED
      BY <1>1, <2>1, <2>2, <3>2, <3>3, GoOnAnswers
  <2> QED
    BY <1>6, <2>3, <2>4 DEF EndAuth
<1> QED
  BY <1>4, <1>5, <1>6

\* The store acts for the call of t.
LEMMA StoreAnswers ==
    ASSUME ShapeOK, AnswerInv, NEW t \in Tasks, Inward(calls[t]), NEW agent, NEW result,
           Performed(t, agent, result), UNCHANGED <<tasks, chain>>,
           log' = log \/ \E m : log' = Append(log, m),
           drained' = [a \in Agents |-> drained'[a]],
           \A a \in Agents : drained[a] \subseteq drained'[a] /\ drained'[a] \subseteq DOMAIN log',
           calls[t].operation \in {"recv", "channels_collect"} =>
               agent \in Agents /\ Range(result.messages) \subseteq drained'[agent],
           result.how = "returns", result.code = None,
           result.over => calls[t].operation = "send",
           calls[t].operation = "group_invite" => result.messages = <<>>,
           Polled(tasks[t]) /\ tasks[t].round # 1 =>
               /\ EachOnce(result.messages, log')
               /\ Range(result.messages) \cap Range(tasks[t].collected) = {}
               /\ Len(result.messages) <= calls[t].input.max
    PROVE  AnswerInv'
<1> DEFINE i == Len(effects) + 1
<1>1. PICK S : effects \in Seq(S)
  BY DEF ShapeOK
<1>2. PICK e : /\ effects' = Append(effects, e)
               /\ e.task = t /\ e.operation = calls[t].operation /\ e.agent = agent
               /\ e.messages = result.messages
  BY DEF Performed
<1>3. /\ DOMAIN effects = 1 .. Len(effects) /\ Len(effects) \in Nat
      /\ DOMAIN effects' = 1 .. Len(effects) + 1
      /\ \A j \in DOMAIN effects : effects'[j] = effects[j]
      /\ effects'[i] = e
  BY <1>1, <1>2, AppendIs
<1>4. i \in DOMAIN effects' /\ i \notin DOMAIN effects /\ DOMAIN effects' = DOMAIN effects \cup {i}
  BY <1>3
<1>5. DOMAIN log \subseteq DOMAIN log' /\ \A n \in DOMAIN log : log'[n] = log[n]
  <2>1. CASE log' = log
    BY <2>1
  <2>2. ASSUME NEW m, log' = Append(log, m)
        PROVE  DOMAIN log \subseteq DOMAIN log' /\ \A n \in DOMAIN log : log'[n] = log[n]
    <3>1. PICK L : log \in Seq(L)
      BY DEF ShapeOK
    <3>2. /\ DOMAIN log = 1 .. Len(log) /\ Len(log) \in Nat
          /\ DOMAIN log' = 1 .. Len(log) + 1
          /\ \A n \in 1 .. Len(log) : log'[n] = log[n]
      BY <2>2, <3>1, AppendIs
    <3> QED
      BY <3>2
  <2> QED
    BY <2>1, <2>2
<1> HIDE DEF i
<1>6. Grows(effects, effects', log, log')
  BY <1>3, <1>4, <1>5 DEF Grows
<1>7. /\ calls'[t].phase = "up" /\ calls'[t].at = calls[t].at
      /\ calls'[t].trace = calls[t].trace /\ calls'[t].operation = calls[t].operation
      /\ calls'[t].result = result
      /\ \A u \in Tasks \ {t} : calls'[u] = calls[u]
  BY TurnBackIs DEF Performed
<1>8. DoneFor(t)' = DoneFor(t) \cup {i}
  BY <1>2, <1>3, <1>4 DEF DoneFor
<1>9. \A u \in Tasks \ {t} : DoneFor(u)' = DoneFor(u)
  BY <1>2, <1>3, <1>4 DEF DoneFor
<1>10. Standing(t)'
  <2>1. TaskOK(tasks[t], calls[t], DoneFor(t), effects, log, chain)
    BY DEF AnswerInv, Standing
  <2>2. Len(chain) \in Nat
    BY ChainIs
  <2>3. DoneFor(t) \subseteq DOMAIN effects
    BY DEF DoneFor
  <2>4. effects'[i].operation = calls[t].operation /\ effects'[i].messages = result.messages
    BY <1>2, <1>3 DEF i
  <2>5. TaskOK(tasks[t], calls'[t], DoneFor(t) \cup {i}, effects', log', chain)
    <3> DEFINE new == calls'[t]
               done == DoneFor(t)
               fx2 == effects'
               lg2 == log'
    <3> QED
      BY <1>4, <1>6, <1>7, <2>1, <2>2, <2>3, <2>4, StoreDid
  <2> QED
    BY <1>8, <2>5 DEF Standing
<1>11. ASSUME NEW u \in Tasks \ {t}
       PROVE  Standing(u)'
  <2>1. TaskOK(tasks[u], calls[u], DoneFor(u), effects, log, chain)
    BY DEF AnswerInv, Standing
  <2>2. DoneFor(u) \subseteq DOMAIN effects
    BY DEF DoneFor
  <2>3. TaskOK(tasks[u], calls[u], DoneFor(u), effects', log', chain)
    BY <1>6, <2>1, <2>2, StaysOK
  <2> QED
    BY <1>7, <1>9, <2>3 DEF Standing
<1>12. DrainedOK'
  <2>1. ASSUME NEW j \in DOMAIN effects', effects'[j].operation \in {"recv", "channels_collect"}
        PROVE  /\ effects'[j].agent \in Agents
               /\ Range(effects'[j].messages) \subseteq drained'[effects'[j].agent]
    <3>1. CASE j \in DOMAIN effects
      <4>1. /\ effects[j].agent \in Agents
            /\ Range(effects[j].messages) \subseteq drained[effects[j].agent]
        BY <1>3, <2>1, <3>1 DEF AnswerInv, DrainedOK
      <4> QED
        BY <1>3, <3>1, <4>1
    <3>2. CASE j = i
      BY <1>2, <1>3, <2>1, <3>2 DEF i
    <3> QED
      BY <1>4, <3>1, <3>2
  <2> QED
    BY <2>1 DEF DrainedOK
<1> QED
  BY <1>10, <1>11, <1>12 DEF AnswerInv

\* What a recv of the loop of channels_collect gets it has not collected before: that was
\* drained for the same agent.
LEMMA CollectedIsDrained ==
    ASSUME CertInv, AnswerInv, NEW t \in Tasks, AtStore(t), Polled(tasks[t])
    PROVE  /\ Actor(calls[t]) = tasks[t].request.token
           /\ Actor(calls[t]) \in Agents =>
                  Range(tasks[t].collected) \subseteq drained[Actor(calls[t])]
<1> DEFINE r == tasks[t].request
           agent == Actor(calls[t])
<1>1. agent = r.token
  BY ActorIs DEF Polled, CallerIs
<1> HIDE DEF agent
<1>2. /\ \A i \in DoneFor(t) : effects[i].operation \in {"recv", "channels_collect"}
      /\ Range(tasks[t].collected) \subseteq Handed(DoneFor(t), effects)
  BY DEF AnswerInv, Standing, TaskOK, CollectOK
<1>3. ASSUME NEW i \in DoneFor(t)
      PROVE  Range(effects[i].messages) \subseteq drained[agent]
  <2>1. i \in DOMAIN effects /\ effects[i].task = t
    BY DEF DoneFor
  <2>2. EffectOK(effects[i])
    BY <2>1 DEF CertInv
  <2>3. effects[i].agent = agent
    BY <1>1, <2>1, <2>2 DEF EffectOK, Polled, CallerIs
  <2> QED
    BY <1>2, <2>1, <2>3 DEF AnswerInv, DrainedOK
<1>4. Handed(DoneFor(t), effects) \subseteq drained[agent]
  BY <1>3 DEF Handed
<1> QED
  BY <1>1, <1>2, <1>4 DEF agent

LEMMA SendAnswers ==
    ASSUME CertInv, AnswerInv, NEW t \in Tasks, UNCHANGED tasks, StoreSend(t)
    PROVE  AnswerInv'
<1>1. ShapeOK /\ Inward(calls[t]) /\ calls[t].operation = "send" /\ UNCHANGED <<chain, drained>>
  BY DEF CertInv, StoreSend, AtStore, Inward
<1>2. PICK result, m : /\ Performed(t, Actor(calls[t]), result) /\ log' = Append(log, m)
                       /\ result.how = "returns" /\ result.code = None
  <2> DEFINE result == Result("returns", None, <<Len(log) + 1>>,
                              OverLimit(calls[t].input.channel))
             m == [sender |-> Actor(calls[t]), channel |-> calls[t].input.channel,
                   about |-> calls[t].input.about]
  <2>1. Performed(t, Actor(calls[t]), result) /\ log' = Append(log, m)
    BY DEF StoreSend
  <2>2. result.how = "returns" /\ result.code = None
    BY DEF Result
  <2> HIDE DEF result, m
  <2> QED
    BY <2>1, <2>2
<1>3. PICK L : log \in Seq(L)
  BY <1>1 DEF ShapeOK
<1>4. DOMAIN log \subseteq DOMAIN log'
  <2>1. /\ DOMAIN log = 1 .. Len(log) /\ Len(log) \in Nat /\ DOMAIN log' = 1 .. Len(log) + 1
    BY <1>2, <1>3, AppendIs
  <2> QED
    BY <2>1
<1>5. /\ drained' = [a \in Agents |-> drained'[a]]
      /\ \A a \in Agents : drained[a] \subseteq drained'[a] /\ drained'[a] \subseteq DOMAIN log'
  BY <1>1, <1>4 DEF AnswerInv, DrainedOK
<1>6. ~(Polled(tasks[t]) /\ tasks[t].round # 1)
  <2>1. TaskOK(tasks[t], calls[t], DoneFor(t), effects, log, chain)
    BY DEF AnswerInv, Standing
  <2>2. tasks[t].phase = "dispatch"
    BY <1>1, <2>1, OnItsWay DEF TaskOK
  <2> QED
    BY <1>1, <2>1, <2>2 DEF TaskOK, CollectOK
<1> QED
  BY <1>1, <1>2, <1>5, <1>6, StoreAnswers

LEMMA OtherAnswers ==
    ASSUME CertInv, AnswerInv, NEW t \in Tasks, UNCHANGED tasks, StoreOther(t)
    PROVE  AnswerInv'
<1>1. /\ ShapeOK /\ Inward(calls[t]) /\ UNCHANGED <<chain, drained, log>>
      /\ calls[t].operation \notin {"send", "recv", "channels_collect", "unknown"}
  BY DEF CertInv, StoreOther, AtStore, Inward
<1>2. PICK result : /\ Performed(t, Actor(calls[t]), result) /\ result = Returns(None, <<>>)
  BY DEF StoreOther
<1>3. /\ result.how = "returns" /\ result.code = None /\ result.messages = <<>> /\ ~result.over
  BY <1>2 DEF Returns, Result
<1>4. /\ drained' = [a \in Agents |-> drained'[a]]
      /\ \A a \in Agents : drained[a] \subseteq drained'[a] /\ drained'[a] \subseteq DOMAIN log'
  BY <1>1 DEF AnswerInv, DrainedOK
<1>5. ~(Polled(tasks[t]) /\ tasks[t].round # 1)
  <2>1. TaskOK(tasks[t], calls[t], DoneFor(t), effects, log, chain)
    BY DEF AnswerInv, Standing
  <2>2. tasks[t].phase = "dispatch"
    BY <1>1, <2>1, OnItsWay DEF TaskOK
  <2> QED
    BY <1>1, <2>1, <2>2 DEF TaskOK, CollectOK
<1> QED
  BY <1>1, <1>2, <1>3, <1>4, <1>5, StoreAnswers

LEMMA RecvAnswers ==
    ASSUME CertInv, AnswerInv, NEW t \in Tasks, UNCHANGED tasks, StoreRecv(t)
    PROVE  AnswerInv'
<1> DEFINE agent == Actor(calls[t])
           pending == Pending(agent, calls[t].input.channels)
           most == calls[t].input.max
<1>1. /\ ShapeOK /\ AtStore(t) /\ Inward(calls[t]) /\ UNCHANGED <<chain, log>>
      /\ calls[t].operation \in {"recv", "channels_collect"} /\ agent \in Agents
  BY DEF CertInv, StoreRecv, AtStore, Inward
<1>2. PICK got \in Oldest(pending, most) :
          /\ drained' = [drained EXCEPT ![agent] = @ \cup Range(got)]
          /\ Performed(t, agent, Returns(None, got))
  BY DEF StoreRecv
<1>3. PICK L : log \in Seq(L)
  BY <1>1 DEF ShapeOK
<1>4. Len(log) \in Nat /\ DOMAIN log = 1 .. Len(log) /\ pending \subseteq DOMAIN log
  BY <1>3 DEF Pending
<1>5. Range(got) \subseteq pending
  BY <1>2 DEF Oldest, Range
<1>6. /\ drained' = [a \in Agents |-> drained'[a]]
      /\ \A a \in Agents : drained[a] \subseteq drained'[a] /\ drained'[a] \subseteq DOMAIN log'
      /\ Range(got) \subseteq drained'[agent]
  <2>1. /\ drained = [a \in Agents |-> drained[a]]
        /\ \A a \in Agents : drained[a] \subseteq DOMAIN log
    BY DEF AnswerInv, DrainedOK
  <2>2. Range(got) \subseteq DOMAIN log /\ log' = log
    BY <1>1, <1>4, <1>5
  <2> HIDE DEF agent, pending, most
  <2> QED
    BY <1>1, <1>2, <2>1, <2>2
<1>7. ASSUME Polled(tasks[t]), tasks[t].round # 1
      PROVE  /\ EachOnce(got, log')
             /\ Range(got) \cap Range(tasks[t].collected) = {}
             /\ Len(got) <= most
  <2>1. TaskOK(tasks[t], calls[t], DoneFor(t), effects, log, chain)
    BY DEF AnswerInv, Standing
  <2>2. tasks[t].phase = "dispatch"
    BY <1>1, <2>1, OnItsWay DEF TaskOK
  <2>3. /\ most = tasks[t].request.wanted - Len(tasks[t].collected)
        /\ Len(tasks[t].collected) < tasks[t].request.wanted
        /\ EachOnce(tasks[t].collected, log)
    BY <1>1, <1>7, <2>1, <2>2 DEF TaskOK, CollectOK
  <2>4. most \in Nat
    <3>1. tasks[t].request.wanted \in Nat /\ Len(tasks[t].collected) \in Nat
      BY <2>1, <2>2, <2>3 DEF TaskOK, PlaceOK, EachOnce
    <3> QED
      BY <2>3, <3>1
  <2>5. got \in Seq(pending) /\ IsInjective(got) /\ Len(got) <= most
    <3>1. pending \in SUBSET (1 .. Len(log))
      BY <1>4
    <3> HIDE DEF pending, most
    <3> QED
      BY <1>2, <1>4, <2>4, <3>1, OldestIs
  <2>6. EachOnce(got, log')
    BY <1>1, <1>4, <2>5, SeqMonotonic DEF EachOnce
  <2>7. Range(tasks[t].collected) \subseteq drained[agent]
    BY <1>1, <1>7, CollectedIsDrained
  <2>8. pending \cap drained[agent] = {}
    BY DEF Pending
  <2> QED
    BY <1>5, <2>5, <2>6, <2>7, <2>8
<1>8. PICK result : /\ Performed(t, agent, result)
                    /\ result.how = "returns" /\ result.code = None /\ ~result.over
                    /\ result.messages = got
  <2> DEFINE result == Returns(None, got)
  <2>1. result.how = "returns" /\ result.code = None /\ ~result.over /\ result.messages = got
    BY DEF Returns, Result
  <2>2. Performed(t, agent, result)
    BY <1>2
  <2> HIDE DEF result
  <2> QED
    BY <2>1, <2>2
<1> HIDE DEF agent, pending
<1> QED
  BY <1>1, <1>6, <1>7, <1>8, StoreAnswers

-----------------------------------------------------------------------------
(* A request on its way, beside its calls.                                 *)

\* The task of t now has these fields, and the others stay.
TaskNow(t, phase, request, round, collected, answer) ==
    /\ \A u \in Tasks \ {t} : tasks'[u] = tasks[u]
    /\ tasks'[t].phase = phase /\ tasks'[t].request = request
    /\ tasks'[t].round = round /\ tasks'[t].collected = collected
    /\ tasks'[t].answer = answer

LEMMA TaskWrites ==
    ASSUME ShapeOK, NEW t \in Tasks
    PROVE  LET k == tasks[t]
           IN  /\ \A r, p : Take(t, r, p)
                      => TaskNow(t, p, r, k.round, k.collected, k.answer)
               /\ \A a : AnswerWith(t, a)
                      => TaskNow(t, "answered", k.request, k.round, k.collected, a)
               /\ \A p : tasks' = [tasks EXCEPT ![t].phase = p]
                      => TaskNow(t, p, k.request, k.round, k.collected, k.answer)
               /\ \A b : tasks' = [tasks EXCEPT ![t].expired = b]
                      => TaskNow(t, k.phase, k.request, k.round, k.collected, k.answer)
               /\ \A p, r, a :
                     tasks' = [tasks EXCEPT ![t].phase = p, ![t].request = r, ![t].answer = a]
                      => TaskNow(t, p, r, k.round, k.collected, a)
               /\ \A p, n : tasks' = [tasks EXCEPT ![t].phase = p, ![t].round = n]
                      => TaskNow(t, p, k.request, n, k.collected, k.answer)
               /\ \A p, r, n :
                     tasks' = [tasks EXCEPT ![t].phase = p, ![t].request = r, ![t].round = n]
                      => TaskNow(t, p, r, n, k.collected, k.answer)
               /\ \A p, s : tasks' = [tasks EXCEPT ![t].phase = p, ![t].collected = s]
                      => TaskNow(t, p, k.request, k.round, s, k.answer)
<1> DEFINE k == tasks[t]
           fields == {"phase", "request", "round", "collected", "expired", "answer"}
<1>1. DOMAIN tasks = Tasks /\ DOMAIN k = fields
  BY DEF ShapeOK, NoTask
<1>2. \A r, p : Take(t, r, p) => TaskNow(t, p, r, k.round, k.collected, k.answer)
  <2> SUFFICES ASSUME NEW r, NEW p, Take(t, r, p)
               PROVE  TaskNow(t, p, r, k.round, k.collected, k.answer)
    OBVIOUS
  <2>1. /\ \A u \in Tasks \ {t} : tasks'[u] = tasks[u]
        /\ tasks'[t] = [[k EXCEPT !.phase = p] EXCEPT !.request = r]
    BY <1>1 DEF Take
  <2> QED
    BY <1>1, <2>1 DEF TaskNow
<1>3. \A a : AnswerWith(t, a) => TaskNow(t, "answered", k.request, k.round, k.collected, a)
  <2> SUFFICES ASSUME NEW a, AnswerWith(t, a)
               PROVE  TaskNow(t, "answered", k.request, k.round, k.collected, a)
    OBVIOUS
  <2>1. /\ \A u \in Tasks \ {t} : tasks'[u] = tasks[u]
        /\ tasks'[t] = [[k EXCEPT !.phase = "answered"] EXCEPT !.answer = a]
    BY <1>1 DEF AnswerWith
  <2> QED
    BY <1>1, <2>1 DEF TaskNow
<1>4. \A p : tasks' = [tasks EXCEPT ![t].phase = p]
             => TaskNow(t, p, k.request, k.round, k.collected, k.answer)
  BY <1>1 DEF TaskNow
<1>5. \A b : tasks' = [tasks EXCEPT ![t].expired = b]
             => TaskNow(t, k.phase, k.request, k.round, k.collected, k.answer)
  BY <1>1 DEF TaskNow
<1>6. \A p, r, a : tasks' = [tasks EXCEPT ![t].phase = p, ![t].request = r, ![t].answer = a]
             => TaskNow(t, p, r, k.round, k.collected, a)
  <2> SUFFICES ASSUME NEW p, NEW r, NEW a,
                      tasks' = [tasks EXCEPT ![t].phase = p, ![t].request = r, ![t].answer = a]
               PROVE  TaskNow(t, p, r, k.round, k.collected, a)
    OBVIOUS
  <2>1. /\ \A u \in Tasks \ {t} : tasks'[u] = tasks[u]
        /\ tasks'[t] = [[[k EXCEPT !.phase = p] EXCEPT !.request = r] EXCEPT !.answer = a]
    BY <1>1
  <2> QED
    BY <1>1, <2>1 DEF TaskNow
<1>7. \A p, n : tasks' = [tasks EXCEPT ![t].phase = p, ![t].round = n]
             => TaskNow(t, p, k.request, n, k.collected, k.answer)
  <2> SUFFICES ASSUME NEW p, NEW n,
                      tasks' = [tasks EXCEPT ![t].phase = p, ![t].round = n]
               PROVE  TaskNow(t, p, k.request, n, k.collected, k.answer)
    OBVIOUS
  <2>1. /\ \A u \in Tasks \ {t} : tasks'[u] = tasks[u]
        /\ tasks'[t] = [[k EXCEPT !.phase = p] EXCEPT !.round = n]
    BY <1>1
  <2> QED
    BY <1>1, <2>1 DEF TaskNow
<1>8. \A p, r, n : tasks' = [tasks EXCEPT ![t].phase = p, ![t].request = r, ![t].round = n]
             => TaskNow(t, p, r, n, k.collected, k.answer)
  <2> SUFFICES ASSUME NEW p, NEW r, NEW n,
                      tasks' = [tasks EXCEPT ![t].phase = p, ![t].request = r, ![t].round = n]
               PROVE  TaskNow(t, p, r, n, k.collected, k.answer)
    OBVIOUS
  <2>1. /\ \A u \in Tasks \ {t} : tasks'[u] = tasks[u]
        /\ tasks'[t] = [[[k EXCEPT !.phase = p] EXCEPT !.request = r] EXCEPT !.round = n]
    BY <1>1
  <2> QED
    BY <1>1, <2>1 DEF TaskNow
<1>9. \A p, s : tasks' = [tasks EXCEPT ![t].phase = p, ![t].collected = s]
             => TaskNow(t, p, k.request, k.round, s, k.answer)
  <2> SUFFICES ASSUME NEW p, NEW s,
                      tasks' = [tasks EXCEPT ![t].phase = p, ![t].collected = s]
               PROVE  TaskNow(t, p, k.request, k.round, s, k.answer)
    OBVIOUS
  <2>1. /\ \A u \in Tasks \ {t} : tasks'[u] = tasks[u]
        /\ tasks'[t] = [[k EXCEPT !.phase = p] EXCEPT !.collected = s]
    BY <1>1
  <2> QED
    BY <1>1, <2>1 DEF TaskNow
<1> QED
  BY <1>2, <1>3, <1>4, <1>5, <1>6, <1>7, <1>8, <1>9

\* A request that has just arrived waits for its turn, or is refused on the spot.
LEMMA Arrived ==
    ASSUME NEW k, NEW c, NEW new, NEW fx, NEW lg, NEW order, NEW done,
           TaskOK(k, c, done, fx, lg, order), k.phase = "idle",
           new.round = k.round, new.collected = k.collected,
           new.request.wanted \in Nat,
           new.request.via = "http" => new.request.operation \in HttpOperations,
           \/ new.phase \in {"look", "sign"}
           \/ /\ new.phase = "answered"
              /\ new.answer.status \in {"400", "401"}
    PROVE  TaskOK(new, c, done, fx, lg, order)
<1>1. k = NoTask /\ c = NoCall
  BY DEF TaskOK, PlaceOK
<1>2. c.phase = "idle" /\ k.round = 0 /\ k.collected = <<>>
  BY <1>1 DEF NoTask, NoCall
<1>3. done = {}
  BY DEF TaskOK, SingleOK, Polled
<1>4. PlaceOK(new, c, MaxPolls)
  <2>1. 0 \in 0 .. MaxPolls /\ 0 < MaxPolls
    BY RequestsAssumption
  <2> QED
    BY <1>2, <2>1 DEF PlaceOK
<1>5. TraceOK(c, Len(order))
  BY DEF TaskOK
<1>6. SingleOK(new, c, done, fx, order)
  BY <1>2, <1>3 DEF SingleOK
<1>7. EachOnce(<<>>, lg) /\ Range(<<>>) = {}
  BY DEF EachOnce, IsInjective, Range
<1>8. CollectOK(new, c, done, fx, lg)
  BY <1>2, <1>3, <1>7 DEF CollectOK
<1>9. AnswerOK(new, c, done, fx, lg, order)
  BY <1>3 DEF AnswerOK
<1> QED
  BY <1>4, <1>5, <1>6, <1>8, <1>9 DEF TaskOK

\* A request waits for something else, or for its next round.
LEMMA Waits ==
    ASSUME NEW k, NEW c, NEW new, NEW fx, NEW lg, NEW order, NEW done,
           TaskOK(k, c, done, fx, lg, order), k.phase \in {"look", "register", "poll"},
           new.phase \in {"look", "register", "sign"}, new.request = k.request,
           new.round = k.round, new.collected = k.collected,
           k.phase = "poll" => k.round < MaxPolls /\ Len(k.collected) < k.request.wanted
    PROVE  TaskOK(new, c, done, fx, lg, order)
<1>1. Polled(new) <=> Polled(k)
  BY DEF Polled
<1>2. k.phase = "poll" => Polled(k)
  BY DEF TaskOK, SingleOK
<1>3. PlaceOK(new, c, MaxPolls)
  BY DEF TaskOK, PlaceOK
<1>4. SingleOK(new, c, done, fx, order)
  BY <1>1, <1>2 DEF TaskOK, SingleOK
<1>5. CollectOK(new, c, done, fx, lg)
  BY <1>1 DEF TaskOK, CollectOK
<1>6. AnswerOK(new, c, done, fx, lg, order)
  BY DEF AnswerOK
<1> QED
  BY <1>3, <1>4, <1>5, <1>6 DEF TaskOK

\* A dispatch has just begun for a request, one of a loop or the only one.
Begun(k, new, call, n) ==
    /\ \/ k.phase = "sign" /\ new.request = k.request
       \/ k.phase = "idle" /\ new.request.via = "host" /\ new.request.wanted \in Nat
    /\ new.phase = "dispatch" /\ new.round = k.round + 1 /\ new.collected = k.collected
    /\ call.phase = "down" /\ call.at = 1 /\ call.trace = [i \in 1 .. n |-> Skipped]
    /\ ~Polled(new) => call.operation = new.request.operation
    /\ Polled(new) =>
           call.operation = IF k.round = 0 THEN "channels_collect" ELSE "recv"
    /\ Polled(new) /\ k.round # 0 =>
           call.input.max = new.request.wanted - Len(new.collected)

LEMMA Dispatched ==
    ASSUME NEW k, NEW c, NEW new, NEW call, NEW fx, NEW lg, NEW order, NEW done,
           TaskOK(k, c, done, fx, lg, order), Len(order) \in Nat,
           Begun(k, new, call, Len(order))
    PROVE  TaskOK(new, call, done, fx, lg, order)
<1> USE DEF Begun
<1>1. k.round \in Nat /\ k.round < MaxPolls
  <2>1. CASE k.phase = "sign"
    BY <2>1, RequestsAssumption DEF TaskOK, PlaceOK
  <2>2. CASE k.phase = "idle"
    <3>1. k.round = 0
      BY <2>2 DEF TaskOK, PlaceOK, NoTask
    <3> QED
      BY <3>1, RequestsAssumption
  <2> QED
    BY <2>1, <2>2
<1>2. PlaceOK(new, call, MaxPolls)
  <2>1. new.round \in 0 .. MaxPolls /\ new.round # 0
    BY <1>1, RequestsAssumption
  <2>2. /\ new.request.wanted \in Nat
        /\ new.request.via = "http" => new.request.operation \in HttpOperations
    BY DEF TaskOK, PlaceOK
  <2> QED
    BY <2>1, <2>2 DEF PlaceOK
<1>3. TraceOK(call, Len(order))
  BY DEF TraceOK, Inward, Outward
<1>4. Inward(call) /\ ~Outward(call)
  BY DEF Inward, Outward
<1>5. SingleOK(new, call, done, fx, order)
  <2>1. ASSUME ~Polled(new)
        PROVE  done = {} /\ new.collected = <<>>
    <3>1. ~Polled(k)
      BY <2>1 DEF Polled
    <3> QED
      BY <3>1 DEF TaskOK, SingleOK
  <2> QED
    BY <1>4, <2>1 DEF SingleOK
<1>6. CollectOK(new, call, done, fx, lg)
  <2>1. ASSUME Polled(new)
        PROVE  Polled(k) /\ k.phase = "sign" /\ new.request = k.request
    BY <2>1 DEF Polled
  <2>2. new.round = 1 <=> k.round = 0
    BY <1>1
  <2>3. new.round # 0
    BY <1>1
  <2> QED
    BY <1>4, <2>1, <2>2, <2>3 DEF TaskOK, CollectOK
<1>7. AnswerOK(new, call, done, fx, lg, order)
  BY DEF AnswerOK
<1> QED
  BY <1>2, <1>3, <1>5, <1>6, <1>7 DEF TaskOK

\* A request is answered after a dispatch that has come back.
LEMMA Answered ==
    ASSUME NEW k, NEW c, NEW new, NEW fx, NEW lg, NEW order, NEW done,
           TaskOK(k, c, done, fx, lg, order), k.phase \in {"dispatch", "poll"},
           c.phase = "returned", new.phase = "answered", new.request = k.request,
           new.round = k.round, new.collected = k.collected,
           AnswerOK(new, c, done, fx, lg, order)
    PROVE  TaskOK(new, c, done, fx, lg, order)
<1>1. Polled(new) <=> Polled(k)
  BY DEF Polled
<1>2. PlaceOK(new, c, MaxPolls)
  BY DEF TaskOK, PlaceOK
<1>3. SingleOK(new, c, done, fx, order)
  BY <1>1 DEF TaskOK, SingleOK
<1>4. CollectOK(new, c, done, fx, lg)
  BY <1>1 DEF TaskOK, CollectOK
<1> QED
  BY <1>2, <1>3, <1>4 DEF TaskOK

\* The outermost entry of the trace of a call that has come back with success.
LEMMA OutermostPassed ==
    ASSUME NEW c, NEW n \in Nat, TraceOK(c, n), c.phase = "returned",
           c.result.how # "raises", c.result.code = None
    PROVE  c.trace = <<>> \/ c.trace[1].verdict = "passed"
<1>1. Outward(c) /\ c.at = 0 /\ c.trace = [i \in 1 .. n |-> c.trace[i]]
  BY DEF TraceOK, Outward
<1>2. PICK reached \in 0 .. n : Climbed(c.trace, c.at, reached, Verdict(c.result), n)
  BY <1>1 DEF TraceOK
<1>3. CASE reached = 0
  <2>1. n = 0
    BY <1>2, <1>3 DEF Climbed
  <2> QED
    BY <1>1, <2>1
<1>4. CASE reached # 0
  <2>1. c.trace[1] = Verdict(c.result)
    BY <1>1, <1>2, <1>4 DEF Climbed
  <2>2. Verdict(c.result).verdict = "passed"
    BY DEF Verdict
  <2> QED
    BY <2>1, <2>2
<1> QED
  BY <1>3, <1>4

\* The code of what a dispatch handed back, an exception being an internal error.
CodeOf(c) == IF c.result.how = "raises" THEN "internal_error" ELSE c.result.code

\* How an answer tells of the result of its one dispatch: with the status of the code; or
\* as a send that went over the limit; or as a membership that is missing.
Tells(answer, c) ==
    \/ /\ answer.status = StatusOf(CodeOf(c))
       /\ answer.messages = c.result.messages
    \/ /\ answer.status = "429"
       /\ CodeOf(c) = None /\ c.result.over
    \/ /\ answer.status = "403"
       /\ CodeOf(c) = "internal_error"

LEMMA NoneIsNoCode ==
    /\ None # "internal_error" /\ None # "validation_error"
    /\ None # "hook_denied" /\ None # "identity_failure"
  BY RequestsAssumption

\* What the code of a result says of the store.
LEMMA CodeTells ==
    ASSUME NEW c, NEW done, NEW fx, NEW order, ResultOK(c, done, fx, order)
    PROVE  /\ CodeOf(c) = None => DidOnce(done, fx, c.operation, c.result.messages)
           /\ CodeOf(c) \in {None, "validation_error", "hook_denied", "identity_failure",
                             "internal_error"}
           /\ CodeOf(c) \in {"validation_error", "hook_denied", "identity_failure"} => done = {}
           /\ CodeOf(c) = "internal_error" => done = {} \/ HookFailed(c, order)
           /\ CodeOf(c) = None /\ c.result.over => c.operation = "send"
<1>1. /\ "internal_error" # None /\ "validation_error" # None /\ "hook_denied" # None
      /\ "identity_failure" # None
  BY NoneIsNoCode
<1>2. CASE c.result.how = "raises"
  BY <1>1, <1>2 DEF ResultOK, CodeOf
<1>3. CASE c.result.how = "denies"
  BY <1>1, <1>3 DEF ResultOK, CodeOf
<1>4. CASE c.result.how = "returns"
  <2>1. CASE c.result.code = None
    BY <1>1, <1>4, <2>1 DEF ResultOK, CodeOf
  <2>2. CASE c.result.code # None
    BY <1>1, <1>4, <2>2 DEF ResultOK, CodeOf
  <2> QED
    BY <2>1, <2>2
<1> QED
  BY <1>2, <1>3, <1>4 DEF ResultOK

LEMMA StatusTells ==
    ASSUME NEW code \in {None, "validation_error", "hook_denied", "identity_failure",
                         "internal_error"}
    PROVE  /\ StatusOf(code) = "200" <=> code = None
           /\ StatusOf(code) \in {"400", "401"} <=>
                  code \in {"validation_error", "hook_denied", "identity_failure"}
           /\ StatusOf(code) = "500" <=> code = "internal_error"
           /\ StatusOf(code) \in {"200", "400", "401", "500"}
<1>1. /\ "internal_error" # None /\ "validation_error" # None /\ "hook_denied" # None
      /\ "identity_failure" # None
  BY NoneIsNoCode
<1>2. CASE code = None
  <2>1. StatusOf(code) = "200"
    BY <1>1, <1>2 DEF StatusOf
  <2> QED
    BY <1>1, <1>2, <2>1
<1>3. CASE code = "internal_error"
  <2>1. StatusOf(code) = "500"
    BY <1>1, <1>3 DEF StatusOf
  <2> QED
    BY <1>1, <1>3, <2>1
<1>4. CASE code = "identity_failure"
  <2>1. StatusOf(code) = "401"
    BY <1>1, <1>4 DEF StatusOf
  <2> QED
    BY <1>1, <1>4, <2>1
<1>5. CASE code \in {"validation_error", "hook_denied"}
  <2>1. StatusOf(code) = "400"
    BY <1>1, <1>5 DEF StatusOf
  <2> QED
    BY <1>1, <1>5, <2>1
<1> QED
  BY <1>2, <1>3, <1>4, <1>5

\* A request of one dispatch is answered with what that returned.
LEMMA SingleAnswered ==
    ASSUME NEW k, NEW c, NEW new, NEW fx, NEW lg, NEW order, NEW done, Len(order) \in Nat,
           TaskOK(k, c, done, fx, lg, order), k.phase = "dispatch", ~Polled(k),
           c.phase = "returned", new.request = k.request, Tells(new.answer, c)
    PROVE  AnswerOK(new, c, done, fx, lg, order)
<1>1. /\ c.operation = k.request.operation
      /\ ResultOK(c, done, fx, order)
  BY DEF TaskOK, SingleOK, Outward
<1> DEFINE code == CodeOf(c)
           answer == new.answer
<1>2. /\ code = None => DidOnce(done, fx, c.operation, c.result.messages)
      /\ code \in {None, "validation_error", "hook_denied", "identity_failure",
                   "internal_error"}
      /\ code \in {"validation_error", "hook_denied", "identity_failure"} => done = {}
      /\ code = "internal_error" => done = {} \/ HookFailed(c, order)
      /\ code = None /\ c.result.over => c.operation = "send"
  BY <1>1, CodeTells
<1>3. code = None => c.result.how # "raises" /\ c.result.code = None
  <2>1. "internal_error" # None
    BY NoneIsNoCode
  <2> QED
    BY <2>1 DEF CodeOf
<1>4. code = None => c.trace = <<>> \/ c.trace[1].verdict = "passed"
  BY <1>3, OutermostPassed DEF TaskOK
<1>5. Tells(answer, c)
  OBVIOUS
<1>6. new.phase = "answered" => ~Polled(new)
  <2>1. ~(k.request.via = "http" /\ k.request.operation = "channels_collect")
    BY DEF Polled
  <2> QED
    BY <2>1 DEF Polled
<1>7. CASE answer.status = StatusOf(code) /\ answer.messages = c.result.messages
  <2>1. /\ answer.status = "200" <=> code = None
        /\ answer.status \in {"400", "401"} <=>
               code \in {"validation_error", "hook_denied", "identity_failure"}
        /\ answer.status = "500" <=> code = "internal_error"
        /\ answer.status \in {"200", "400", "401", "500"}
    BY <1>2, <1>7, StatusTells
  <2> HIDE DEF code
  <2>2. answer.status = "200" => DidOnce(done, fx, new.request.operation, answer.messages)
    BY <1>1, <1>2, <1>7, <2>1
  <2>3. answer.status = "200" => c.trace = <<>> \/ c.trace[1].verdict = "passed"
    BY <1>4, <2>1
  <2>4. answer.status \in {"400", "401"} => done = {}
    BY <1>2, <2>1
  <2>5. answer.status \in {"403", "500"} => done = {} \/ HookFailed(c, order)
    BY <1>2, <2>1
  <2>6. answer.status # "429"
    BY <2>1
  <2> HIDE DEF answer
  <2> QED
    BY <1>6, <2>2, <2>3, <2>4, <2>5, <2>6 DEF AnswerOK, answer
<1>8. CASE answer.status = "429" /\ code = None /\ c.result.over
  <2>1. DidOnce(done, fx, "send", c.result.messages)
    BY <1>2, <1>8
  <2>2. PICK i \in DOMAIN fx : done = {i} /\ fx[i].operation = "send"
    BY <2>1 DEF DidOnce
  <2> HIDE DEF code
  <2> QED
    BY <1>6, <1>8, <2>2 DEF AnswerOK
<1>9. CASE answer.status = "403" /\ code = "internal_error"
  <2>1. done = {} \/ HookFailed(c, order)
    BY <1>2, <1>9
  <2> HIDE DEF code
  <2> QED
    BY <1>6, <1>9, <2>1 DEF AnswerOK
<1> QED
  BY <1>5, <1>7, <1>8, <1>9 DEF Tells

\* A round of channels_collect that failed is answered with its error.
LEMMA CollectRefused ==
    ASSUME NEW k, NEW c, NEW new, NEW fx, NEW lg, NEW order, NEW done,
           Polled(k), new.request = k.request, new.phase # "idle",
           new.answer.status \in {"400", "401", "500"}
    PROVE  AnswerOK(new, c, done, fx, lg, order)
<1>1. Polled(new)
  BY DEF Polled
<1> QED
  BY <1>1 DEF AnswerOK

LEMMA FitsToo ==
    ASSUME NEW a \in Nat, NEW b \in Nat, NEW d \in Nat, NEW w \in Nat
    PROVE  a + b <= w /\ d <= b => a + d <= w
  OBVIOUS

\* A channels_collect holds what a round brought of replies to its topic.
LEMMA Collected ==
    ASSUME NEW k, NEW c, NEW new, NEW fx, NEW lg, NEW order, NEW done,
           TaskOK(k, c, done, fx, lg, order), Polled(k), k.phase = "dispatch",
           c.phase = "returned", c.result.how # "raises", c.result.code = None,
           new.phase = "poll", new.request = k.request, new.round = k.round,
           NEW kept, k.round = 1 => kept = {},
           kept \subseteq DOMAIN c.result.messages,
           \A i \in kept : lg[c.result.messages[i]].about = k.request.topic,
           NEW at \in Oldest(kept, Cardinality(kept)),
           new.collected = k.collected \o [i \in DOMAIN at |-> c.result.messages[at[i]]]
    PROVE  TaskOK(new, c, done, fx, lg, order)
<1> DEFINE messages == c.result.messages
           picked == [i \in DOMAIN at |-> messages[at[i]]]
           wanted == k.request.wanted
<1>1. Polled(new)
  BY DEF Polled
<1>2. PlaceOK(new, c, MaxPolls) /\ wanted \in Nat
  BY DEF TaskOK, PlaceOK, Polled
<1>3. SingleOK(new, c, done, fx, order) /\ AnswerOK(new, c, done, fx, lg, order)
  BY <1>1 DEF SingleOK, AnswerOK
<1>4. /\ \A i \in done : fx[i].operation \in {"recv", "channels_collect"}
      /\ EachOnce(k.collected, lg) /\ Range(k.collected) \subseteq Handed(done, fx)
      /\ \A n \in Range(k.collected) : lg[n].about = k.request.topic
      /\ k.collected # <<>> => Len(k.collected) <= wanted
  BY DEF TaskOK, CollectOK
<1>5. new.round # 0
  BY DEF TaskOK, PlaceOK
<1>6. ASSUME EachOnce(new.collected, lg), Range(new.collected) \subseteq Handed(done, fx),
             \A n \in Range(new.collected) : lg[n].about = k.request.topic,
             new.collected # <<>> => Len(new.collected) <= wanted
      PROVE  CollectOK(new, c, done, fx, lg)
  BY <1>4, <1>5, <1>6 DEF CollectOK
<1>7. CASE k.round = 1
  <2>1. kept = {} /\ 0 \in Nat /\ {} \in SUBSET (1 .. 0)
    BY <1>7
  <2>2. Cardinality(kept) = 0
    BY <2>1, FS_EmptySet
  <2>3. at = <<>>
    <3>1. at \in Oldest({}, 0)
      BY <2>1, <2>2
    <3> QED
      BY <2>1, <3>1, OldestIs
  <2>4. picked = <<>>
    BY <2>3
  <2>5. new.collected = k.collected
    <3>1. k.collected \in Seq(DOMAIN lg)
      BY <1>4 DEF EachOnce
    <3> HIDE DEF picked
    <3>2. k.collected \o <<>> = k.collected
      BY <3>1
    <3> QED
      BY <2>4, <3>2 DEF picked
  <2> QED
    BY <1>2, <1>3, <1>4, <1>6, <2>5 DEF TaskOK
<1>8. CASE k.round # 1
  <2>1. GotOK(k, messages, done, fx, lg)
    BY <1>8 DEF TaskOK, CollectOK, Outward
  <2>2. /\ messages \in Seq(DOMAIN lg) /\ IsInjective(messages)
        /\ Range(messages) \subseteq Handed(done, fx)
        /\ Range(messages) \cap Range(k.collected) = {}
        /\ Len(k.collected) + Len(messages) <= wanted
    BY <2>1 DEF GotOK, EachOnce
  <2>3. /\ picked \in Seq(DOMAIN lg) /\ IsInjective(picked) /\ Len(picked) <= Len(messages)
        /\ \A x \in Range(picked) : \E i \in kept : x = messages[i]
    BY <2>2, PickedIs
  <2> HIDE DEF picked
  <2>4. Range(picked) \subseteq Range(messages)
    BY <2>3 DEF Range
  <2>5. /\ new.collected \in Seq(DOMAIN lg) /\ IsInjective(new.collected)
        /\ Len(new.collected) = Len(k.collected) + Len(picked)
        /\ Range(new.collected) \subseteq Range(k.collected) \cup Range(picked)
    <3>1. k.collected \in Seq(DOMAIN lg) /\ IsInjective(k.collected)
      BY <1>4 DEF EachOnce
    <3>2. Range(k.collected) \cap Range(picked) = {}
      BY <2>2, <2>4
    <3>3. new.collected = k.collected \o picked
      BY DEF picked
    <3>4. LET joined == k.collected \o picked
          IN  /\ joined \in Seq(DOMAIN lg) /\ IsInjective(joined)
              /\ Len(joined) = Len(k.collected) + Len(picked)
              /\ Range(joined) \subseteq Range(k.collected) \cup Range(picked)
      <4> HIDE DEF messages
      <4> QED
        BY <2>3, <3>1, <3>2, JoinedIs
    <3> QED
      BY <3>3, <3>4
  <2>6. Len(new.collected) <= wanted
    <3>1. Len(k.collected) \in Nat /\ Len(picked) \in Nat /\ Len(messages) \in Nat
      BY <1>4, <2>2, <2>3 DEF EachOnce
    <3> HIDE DEF messages
    <3> QED
      BY <1>2, <2>2, <2>3, <2>5, <3>1, FitsToo
  <2>7. \A n \in Range(new.collected) : lg[n].about = k.request.topic
    BY <1>4, <2>3, <2>5
  <2>8. Range(new.collected) \subseteq Handed(done, fx)
    BY <1>4, <2>2, <2>4, <2>5
  <2>9. EachOnce(new.collected, lg)
    BY <2>5 DEF EachOnce
  <2> QED
    BY <1>2, <1>3, <1>6, <2>6, <2>7, <2>8, <2>9 DEF TaskOK
<1> QED
  BY <1>7, <1>8

-----------------------------------------------------------------------------

\* A step of a task beside its call.
LEMMA TaskMoves ==
    ASSUME AnswerInv, NEW t \in Tasks, NEW phase, NEW request, NEW round, NEW collected,
           NEW answer, TaskNow(t, phase, request, round, collected, answer),
           UNCHANGED <<calls, chain, log, drained, effects>>,
           TaskOK(tasks'[t], calls[t], DoneFor(t), effects, log, chain)
    PROVE  AnswerInv'
  BY OneMoves DEF TaskNow

LEMMA StandsOK ==
    ASSUME ShapeOK, AnswerInv, NEW t \in Tasks
    PROVE  TaskOK(tasks[t], calls[t], DoneFor(t), effects, log, chain) /\ Len(chain) \in Nat
  BY ChainIs DEF AnswerInv, Standing

\* What a scenario asks.
LEMMA AskedFor ==
    ASSUME ShapeOK, NEW t \in DOMAIN scenario.requests, NEW r \in scenario.requests[t]
    PROVE  /\ t \in Tasks /\ r.wanted \in Nat
           /\ r.via = "http" => r.operation \in HttpOperations
  BY RequestsAssumption DEF ShapeOK

LEMMA ArriveAnswers ==
    ASSUME ShapeOK, AnswerInv, NEW t \in DOMAIN scenario.requests,
           HttpRefuse(t) \/ HttpArrive(t) \/ McpArrive(t)
    PROVE  AnswerInv'
<1>1. tasks[t].phase = "idle" /\ UNCHANGED <<calls, chain, log, drained, effects>>
  BY DEF HttpRefuse, HttpArrive, McpArrive, pipelineVars
<1>2. PICK r \in scenario.requests[t] :
          \/ \E phase \in {"look", "sign"} : Take(t, r, phase)
          \/ \E code : \E status \in {"400", "401"} :
                 tasks' = [tasks EXCEPT ![t].phase = "answered", ![t].request = r,
                        ![t].answer = Answer(status, code, <<>>, FALSE)]
  BY DEF HttpRefuse, HttpArrive, McpArrive
<1>3. t \in Tasks /\ r.wanted \in Nat /\ (r.via = "http" => r.operation \in HttpOperations)
  BY AskedFor
<1>4. \E phase, answer :
          /\ TaskNow(t, phase, r, tasks[t].round, tasks[t].collected, answer)
          /\ \/ phase \in {"look", "sign"}
             \/ phase = "answered" /\ answer.status \in {"400", "401"}
  <2>1. ASSUME NEW phase \in {"look", "sign"}, Take(t, r, phase)
        PROVE  TaskNow(t, phase, r, tasks[t].round, tasks[t].collected, tasks[t].answer)
    BY <1>3, <2>1, TaskWrites
  <2>2. ASSUME NEW status \in {"400", "401"}, NEW code,
               tasks' = [tasks EXCEPT ![t].phase = "answered", ![t].request = r,
                        ![t].answer = Answer(status, code, <<>>, FALSE)]
        PROVE  \E answer :
                  /\ TaskNow(t, "answered", r, tasks[t].round, tasks[t].collected, answer)
                  /\ answer.status \in {"400", "401"}
    <3> DEFINE answer == Answer(status, code, <<>>, FALSE)
    <3>1. answer.status \in {"400", "401"}
      BY DEF Answer
    <3>2. tasks' = [tasks EXCEPT ![t].phase = "answered", ![t].request = r,
                                 ![t].answer = answer]
      BY <2>2
    <3> HIDE DEF answer
    <3>3. TaskNow(t, "answered", r, tasks[t].round, tasks[t].collected, answer)
      BY <1>3, <3>2, TaskWrites
    <3> QED
      BY <3>1, <3>3
  <2> QED
    BY <1>2, <2>1, <2>2
<1>5. PICK phase, answer :
          /\ TaskNow(t, phase, r, tasks[t].round, tasks[t].collected, answer)
          /\ \/ phase \in {"look", "sign"}
             \/ phase = "answered" /\ answer.status \in {"400", "401"}
  BY <1>4
<1>6. TaskOK(tasks'[t], calls[t], DoneFor(t), effects, log, chain)
  <2> DEFINE new == tasks'[t]
  <2>1. /\ new.phase = phase /\ new.request = r /\ new.round = tasks[t].round
        /\ new.collected = tasks[t].collected /\ new.answer = answer
    BY <1>5 DEF TaskNow
  <2> QED
    BY <1>1, <1>3, <1>5, <2>1, Arrived, StandsOK
<1> QED
  BY <1>1, <1>3, <1>5, <1>6, TaskMoves

LEMMA WaitAnswers ==
    ASSUME ShapeOK, AnswerInv, NEW t \in Tasks, UNCHANGED <<calls, chain, log, drained, effects>>,
           tasks[t].phase \in {"look", "register", "poll"},
           tasks[t].phase = "poll" => /\ tasks[t].round < MaxPolls
                                      /\ Len(tasks[t].collected) < tasks[t].request.wanted,
           NEW phase \in {"look", "register", "sign"},
           tasks' = [tasks EXCEPT ![t].phase = phase]
    PROVE  AnswerInv'
<1> DEFINE k == tasks[t]
<1>1. TaskNow(t, phase, k.request, k.round, k.collected, k.answer)
  BY TaskWrites
<1>2. TaskOK(tasks'[t], calls[t], DoneFor(t), effects, log, chain)
  <2> DEFINE new == tasks'[t]
  <2>1. /\ new.phase = phase /\ new.request = k.request /\ new.round = k.round
        /\ new.collected = k.collected
    BY <1>1 DEF TaskNow
  <2> QED
    BY <2>1, Waits, StandsOK
<1> QED
  BY <1>1, <1>2, TaskMoves

\* A dispatch begins.
LEMMA DispatchIs ==
    ASSUME ShapeOK, NEW t \in Tasks, NEW operation, NEW input, NEW credential, NEW hint,
           Dispatch(t, operation, input, credential, hint)
    PROVE  /\ calls'[t].phase = "down" /\ calls'[t].at = 1
           /\ calls'[t].operation = operation /\ calls'[t].input = input
           /\ calls'[t].trace = [i \in 1 .. Len(chain) |-> Skipped]
           /\ \A u \in Tasks \ {t} : calls'[u] = calls[u]
           /\ UNCHANGED <<chain, log, drained, effects>>
<1>1. DOMAIN calls = Tasks /\ DOMAIN chain = 1 .. Len(chain)
  BY ChainIs DEF ShapeOK
<1> QED
  BY <1>1 DEF Dispatch

LEMMA DispatchAnswers ==
    ASSUME ShapeOK, AnswerInv, NEW t \in Tasks, NEW r, NEW operation, NEW input,
           NEW credential, NEW hint, Dispatch(t, operation, input, credential, hint),
           TaskNow(t, "dispatch", r, tasks[t].round + 1, tasks[t].collected, tasks[t].answer),
           \/ tasks[t].phase = "sign" /\ r = tasks[t].request
           \/ tasks[t].phase = "idle" /\ r.via = "host" /\ r.wanted \in Nat,
           r.via = "http" /\ r.operation = "channels_collect" =>
               /\ operation = IF tasks[t].round = 0 THEN "channels_collect" ELSE "recv"
               /\ tasks[t].round # 0 => input.max = r.wanted - Len(tasks[t].collected),
           r.via # "http" \/ r.operation # "channels_collect" => operation = r.operation
    PROVE  AnswerInv'
<1> DEFINE new == tasks'[t]
           call == calls'[t]
<1>1. /\ call.phase = "down" /\ call.at = 1
      /\ call.operation = operation /\ call.input = input
      /\ call.trace = [i \in 1 .. Len(chain) |-> Skipped]
      /\ \A u \in Tasks \ {t} : calls'[u] = calls[u]
      /\ UNCHANGED <<chain, log, drained, effects>>
  BY DispatchIs
<1>2. /\ new.phase = "dispatch" /\ new.request = r /\ new.round = tasks[t].round + 1
      /\ new.collected = tasks[t].collected
      /\ \A u \in Tasks \ {t} : tasks'[u] = tasks[u]
  BY DEF TaskNow
<1>3. Polled(new) <=> r.via = "http" /\ r.operation = "channels_collect"
  BY <1>2 DEF Polled
<1>4. TaskOK(new, call, DoneFor(t), effects, log, chain)
  <2> HIDE DEF new, call
  <2>1. ~Polled(new) => call.operation = new.request.operation
    BY <1>1, <1>2, <1>3
  <2>2. Polled(new) =>
            call.operation = IF tasks[t].round = 0 THEN "channels_collect" ELSE "recv"
    BY <1>1, <1>2, <1>3
  <2>3. Polled(new) /\ tasks[t].round # 0 =>
            call.input.max = new.request.wanted - Len(new.collected)
    BY <1>1, <1>2, <1>3
  <2>4. \/ tasks[t].phase = "sign" /\ new.request = tasks[t].request
        \/ tasks[t].phase = "idle" /\ new.request.via = "host" /\ new.request.wanted \in Nat
    BY <1>2
  <2>5. TaskOK(tasks[t], calls[t], DoneFor(t), effects, log, chain) /\ Len(chain) \in Nat
    BY StandsOK
  <2>6. /\ new.phase = "dispatch" /\ new.round = tasks[t].round + 1
        /\ new.collected = tasks[t].collected
        /\ call.phase = "down" /\ call.at = 1
        /\ call.trace = [i \in 1 .. Len(chain) |-> Skipped]
    BY <1>1, <1>2
  <2>7. Begun(tasks[t], new, call, Len(chain))
    BY <2>1, <2>2, <2>3, <2>4, <2>6 DEF Begun
  <2> QED
    BY <2>5, <2>7, Dispatched
<1> QED
  BY <1>1, <1>2, <1>4, OneMoves

LEMMA SignAnswers ==
    ASSUME ShapeOK, AnswerInv, NEW t \in Tasks,
           \/ HttpSign(t) \/ McpSign(t)
           \/ (t \in DOMAIN scenario.requests /\ HostArrive(t))
    PROVE  AnswerInv'
<1> DEFINE k == tasks[t]
<1>1. CASE HttpSign(t)
  <2>1. /\ k.phase = "sign" /\ k.request.via = "http"
        /\ \E credential, hint :
               Dispatch(t, HttpOperation(t), HttpInput(t), credential, hint)
        /\ tasks' = [tasks EXCEPT ![t].phase = "dispatch", ![t].round = k.round + 1]
    <3>1. tasks' = [tasks EXCEPT ![t].phase = "dispatch", ![t].round = @ + 1]
      BY <1>1 DEF HttpSign
    <3> QED
      BY <1>1, <3>1 DEF HttpSign, ShapeOK, NoTask
  <2>2. TaskNow(t, "dispatch", k.request, k.round + 1, k.collected, k.answer)
    BY <2>1, TaskWrites
  <2>3. k.request.operation = "channels_collect" =>
            HttpOperation(t) = IF k.round = 0 THEN "channels_collect" ELSE "recv"
    BY DEF HttpOperation
  <2>4. k.round # 0 => HttpInput(t).max = k.request.wanted - Len(k.collected)
    BY DEF HttpInput, NoInput
  <2>5. k.request.operation # "channels_collect" => HttpOperation(t) = k.request.operation
    <3>1. k.request.operation # "channels_collect" => k.round = 0
      BY <2>1, StandsOK DEF TaskOK, SingleOK, Polled
    <3> QED
      BY <3>1 DEF HttpOperation
  <2> QED
    BY <2>1, <2>2, <2>3, <2>4, <2>5, DispatchAnswers
<1>2. CASE McpSign(t)
  <2>1. /\ k.phase = "sign" /\ k.request.via = "mcp"
        /\ \E input, credential, hint :
               Dispatch(t, k.request.operation, input, credential, hint)
        /\ tasks' = [tasks EXCEPT ![t].phase = "dispatch", ![t].round = k.round + 1]
    <3>1. tasks' = [tasks EXCEPT ![t].phase = "dispatch", ![t].round = @ + 1]
      BY <1>2 DEF McpSign
    <3> QED
      BY <1>2, <3>1 DEF McpSign, ShapeOK, NoTask
  <2>2. TaskNow(t, "dispatch", k.request, k.round + 1, k.collected, k.answer)
    BY <2>1, TaskWrites
  <2> QED
    BY <2>1, <2>2, DispatchAnswers
<1>3. CASE t \in DOMAIN scenario.requests /\ HostArrive(t)
  <2>1. k.phase = "idle"
    BY <1>3 DEF HostArrive
  <2>2. PICK r \in scenario.requests[t] :
            /\ r.via = "host"
            /\ \E input, credential : Dispatch(t, r.operation, input, credential, None)
            /\ tasks' = [tasks EXCEPT ![t].phase = "dispatch", ![t].request = r,
                                      ![t].round = 1]
    BY <1>3 DEF HostArrive
  <2>3. r.wanted \in Nat
    BY <1>3, AskedFor
  <2>4. k.round = 0
    BY <2>1, StandsOK DEF TaskOK, PlaceOK, NoTask
  <2>5. TaskNow(t, "dispatch", r, k.round + 1, k.collected, k.answer)
    <3>1. TaskNow(t, "dispatch", r, 1, k.collected, k.answer)
      BY <2>2, TaskWrites
    <3> QED
      BY <2>4, <3>1
  <2> QED
    BY <2>1, <2>2, <2>3, <2>5, DispatchAnswers
<1> QED
  BY <1>1, <1>2, <1>3

\* An answer is given after a dispatch.
LEMMA AnswersWith ==
    ASSUME ShapeOK, AnswerInv, NEW t \in Tasks, UNCHANGED <<calls, chain, log, drained, effects>>,
           tasks[t].phase \in {"dispatch", "poll"}, calls[t].phase = "returned",
           NEW answer, AnswerWith(t, answer),
           \A new : new.phase = "answered" /\ new.answer = answer
                    /\ new.request = tasks[t].request /\ new.round = tasks[t].round
                    /\ new.collected = tasks[t].collected
                    => AnswerOK(new, calls[t], DoneFor(t), effects, log, chain)
    PROVE  AnswerInv'
<1> DEFINE k == tasks[t]
<1>1. TaskNow(t, "answered", k.request, k.round, k.collected, answer)
  BY TaskWrites
<1>2. TaskOK(tasks'[t], calls[t], DoneFor(t), effects, log, chain)
  <2> DEFINE new == tasks'[t]
  <2>1. /\ new.phase = "answered" /\ new.request = k.request /\ new.round = k.round
        /\ new.collected = k.collected /\ new.answer = answer
    BY <1>1 DEF TaskNow
  <2> HIDE DEF new
  <2>2. AnswerOK(new, calls[t], DoneFor(t), effects, log, chain)
    BY <2>1
  <2>3. TaskOK(new, calls[t], DoneFor(t), effects, log, chain)
    BY <2>1, <2>2, Answered, StandsOK
  <2> QED
    BY <2>3 DEF new
<1> QED
  BY <1>1, <1>2, TaskMoves

\* A request of one dispatch is told the result of that.
LEMMA ReturnAnswers ==
    ASSUME ShapeOK, AnswerInv, NEW t \in Tasks, HttpReturn(t) \/ McpReturn(t) \/ HostReturn(t)
    PROVE  AnswerInv'
<1> DEFINE k == tasks[t]
           c == calls[t]
           code == ErrorCode(t)
<1>1. /\ k.phase = "dispatch" /\ c.phase = "returned"
      /\ UNCHANGED <<calls, chain, log, drained, effects>>
  BY DEF HttpReturn, McpReturn, HostReturn, Returned, pipelineVars
<1>2. TaskOK(k, c, DoneFor(t), effects, log, chain) /\ Len(chain) \in Nat
  BY StandsOK
<1>3. code = CodeOf(c)
  BY DEF ErrorCode, CodeOf
<1>4. ASSUME NEW answer, AnswerWith(t, answer), Tells(answer, c), ~Polled(k)
      PROVE  AnswerInv'
  <2>1. \A new : new.phase = "answered" /\ new.answer = answer /\ new.request = k.request
                 => AnswerOK(new, c, DoneFor(t), effects, log, chain)
    BY <1>1, <1>2, <1>4, SingleAnswered
  <2> QED
    BY <1>1, <1>4, <2>1, AnswersWith
<1>5. ASSUME NEW messages, NEW complete
      PROVE  /\ Answer(StatusOf(code), code, messages, complete).status = StatusOf(CodeOf(c))
             /\ Answer(StatusOf(code), code, messages, complete).messages = messages
  BY <1>3 DEF Answer
<1>6. CASE McpReturn(t) \/ HostReturn(t)
  <2>1. ~Polled(k)
    BY <1>6 DEF McpReturn, HostReturn, Returned, Polled
  <2>2. PICK complete :
            AnswerWith(t, Answer(StatusOf(code), code, c.result.messages, complete))
    BY <1>6 DEF McpReturn, HostReturn
  <2>3. Tells(Answer(StatusOf(code), code, c.result.messages, complete), c)
    BY <1>5 DEF Tells
  <2> QED
    BY <1>4, <2>1, <2>2, <2>3
<1>7. CASE HttpReturn(t)
  <2>1. /\ k.request.via = "http"
        /\ k.request.operation # "channels_collect" \/ code # None
        /\ AnswerWith(t, HttpAnswer(t))
    BY <1>7 DEF HttpReturn, Returned
  <2>2. k.request.operation \in HttpOperations
    BY <1>1, <1>2, <2>1 DEF TaskOK, PlaceOK
  <2>3. CASE Polled(k)
    <3>1. c.operation \in {"recv", "channels_collect"}
      BY <1>1, <1>2, <2>3 DEF TaskOK, CollectOK
    <3>2. code # None
      BY <2>1, <2>3 DEF Polled
    <3>3. \A x : x # None => StatusOf(x) \in {"400", "401", "500"}
      BY DEF StatusOf
    <3>4. StatusOf(code) \in {"400", "401", "500"}
      BY <3>2, <3>3
    <3>5. HttpAnswer(t) = Answer(StatusOf(code), code, c.result.messages, code = None)
      BY <3>1 DEF HttpAnswer, PlainRoutes
    <3>6. HttpAnswer(t).status \in {"400", "401", "500"}
      BY <3>4, <3>5 DEF Answer
    <3>7. \A new : new.phase = "answered" /\ new.answer = HttpAnswer(t)
                   /\ new.request = k.request
                   => AnswerOK(new, c, DoneFor(t), effects, log, chain)
      BY <2>3, <3>6, CollectRefused
    <3> QED
      BY <1>1, <2>1, <3>7, AnswersWith
  <2>4. CASE ~Polled(k)
    <3>1. c.operation = k.request.operation
      BY <1>1, <1>2, <2>4 DEF TaskOK, SingleOK
    <3>2. Tells(HttpAnswer(t), c)
      <4>1. CASE c.operation = "send"
        <5>1. HttpAnswer(t) = SendAnswer(t)
          BY <4>1 DEF HttpAnswer, PlainRoutes
        <5>2. CASE code = None /\ c.result.over
          BY <1>3, <5>1, <5>2 DEF SendAnswer, Answer, Tells
        <5>3. CASE ~(code = None /\ c.result.over)
          <6>1. HttpAnswer(t) = Answer(StatusOf(code), code, c.result.messages, code = None)
            BY <5>1, <5>3 DEF SendAnswer
          <6> QED
            BY <1>5, <6>1 DEF Tells
        <5> QED
          BY <5>2, <5>3
      <4>2. CASE c.operation = "group_invite"
        <5>1. HttpAnswer(t) = InviteAnswer(t)
          BY <4>2 DEF HttpAnswer, PlainRoutes
        <5>2. CASE code = "internal_error"
          BY <1>3, <5>1, <5>2 DEF InviteAnswer, Answer, Tells
        <5>3. CASE code # "internal_error"
          <6>1. HttpAnswer(t) = Answer(StatusOf(code), code, <<>>, code = None)
            BY <5>1, <5>3 DEF InviteAnswer
          <6>2. c.result.messages = <<>>
            BY <1>1, <1>2, <2>4, <4>2 DEF TaskOK, SingleOK, ResultOK, Outward
          <6> QED
            BY <1>5, <6>1, <6>2 DEF Tells
        <5> QED
          BY <5>2, <5>3
      <4>3. CASE c.operation \in PlainRoutes
        <5>1. HttpAnswer(t) = Answer(StatusOf(code), code, c.result.messages, code = None)
          BY <4>3 DEF HttpAnswer, PlainRoutes
        <5> QED
          BY <1>5, <5>1 DEF Tells
      <4> QED
        BY <2>2, <3>1, <4>1, <4>2, <4>3 DEF HttpOperations
    <3> QED
      BY <1>4, <2>1, <2>4, <3>2
  <2> QED
    BY <2>3, <2>4
<1> QED
  BY <1>6, <1>7

\* A channels_collect takes what its round has brought.
LEMMA CollectAnswers ==
    ASSUME ShapeOK, AnswerInv, NEW t \in Tasks, HttpCollected(t)
    PROVE  AnswerInv'
<1> DEFINE k == tasks[t]
           c == calls[t]
           messages == c.result.messages
           kept == {i \in DOMAIN messages : /\ k.round > 1 /\ ~k.request.filtered
                                            /\ log[messages[i]].about = k.request.topic}
<1>1. /\ k.phase = "dispatch" /\ c.phase = "returned" /\ Polled(k)
      /\ ErrorCode(t) = None /\ UNCHANGED <<calls, chain, log, drained, effects>>
  BY DEF HttpCollected, Returned, Polled, pipelineVars
<1>2. PICK at \in Oldest(kept, Cardinality(kept)) :
          tasks' = [tasks EXCEPT ![t].phase = "poll",
                       ![t].collected = k.collected \o [i \in DOMAIN at |-> messages[at[i]]]]
  <2>1. PICK at \in Oldest(kept, Cardinality(kept)) :
          tasks' = [tasks EXCEPT ![t].phase = "poll",
                       ![t].collected = @ \o [i \in DOMAIN at |-> messages[at[i]]]]
    BY DEF HttpCollected
  <2> DEFINE picked == [i \in DOMAIN at |-> messages[at[i]]]
  <2>2. tasks' = [tasks EXCEPT ![t].phase = "poll", ![t].collected = @ \o picked]
    BY <2>1
  <2>3. tasks' = [tasks EXCEPT ![t].phase = "poll", ![t].collected = k.collected \o picked]
    <3> HIDE DEF picked
    <3> QED
      BY <2>2 DEF ShapeOK, NoTask
  <2> QED
    BY <2>3
<1> DEFINE collected == k.collected \o [i \in DOMAIN at |-> messages[at[i]]]
<1>3. TaskNow(t, "poll", k.request, k.round, collected, k.answer)
  <2>1. tasks' = [tasks EXCEPT ![t].phase = "poll", ![t].collected = collected]
    BY <1>2
  <2> HIDE DEF collected
  <2> QED
    BY <2>1, TaskWrites
<1>4. TaskOK(tasks'[t], calls[t], DoneFor(t), effects, log, chain)
  <2> DEFINE new == tasks'[t]
  <2>1. /\ new.phase = "poll" /\ new.request = k.request /\ new.round = k.round
        /\ new.collected = collected
    BY <1>3 DEF TaskNow
  <2>2. c.result.how # "raises" /\ c.result.code = None
    BY <1>1, NoneIsNoCode DEF ErrorCode
  <2>3. k.round = 1 => kept = {}
    OBVIOUS
  <2>4. /\ kept \subseteq DOMAIN messages
        /\ \A i \in kept : log[messages[i]].about = k.request.topic
    OBVIOUS
  <2>5. TaskOK(k, c, DoneFor(t), effects, log, chain)
    BY StandsOK
  <2> HIDE DEF kept, new
  <2>6. TaskOK(new, c, DoneFor(t), effects, log, chain)
    BY <1>1, <1>2, <2>1, <2>2, <2>3, <2>4, <2>5, Collected
  <2> QED
    BY <2>6 DEF new
<1> HIDE DEF collected
<1> QED
  BY <1>1, <1>3, <1>4, TaskMoves

\* A channels_collect asks once more, or answers with what it has.
LEMMA PollAnswers ==
    ASSUME ShapeOK, AnswerInv, NEW t \in Tasks, HttpPoll(t)
    PROVE  AnswerInv'
<1> DEFINE k == tasks[t]
           c == calls[t]
<1>1. k.phase = "poll" /\ UNCHANGED <<calls, chain, log, drained, effects>>
  BY DEF HttpPoll, pipelineVars
<1>2. TaskOK(k, c, DoneFor(t), effects, log, chain) /\ Len(chain) \in Nat
  BY StandsOK
<1>3. CASE StillWaiting(t) /\ k.round < MaxPolls
  <2>1. \E phase \in {"look", "register", "sign"} : tasks' = [tasks EXCEPT ![t].phase = phase]
    BY <1>3 DEF HttpPoll
  <2> QED
    BY <1>1, <1>3, <2>1, WaitAnswers DEF StillWaiting
<1>4. CASE /\ ~StillWaiting(t)
           /\ AnswerWith(t, Answer("200", None, k.collected,
                                   Len(k.collected) = k.request.wanted))
  <2> DEFINE answer == Answer("200", None, k.collected, Len(k.collected) = k.request.wanted)
  <2>1. Polled(k)
    BY <1>1, <1>2 DEF TaskOK, SingleOK
  <2>2. c.phase = "returned" /\ c.result.how # "raises" /\ c.result.code = None
    BY <1>1, <1>2, <2>1 DEF TaskOK, CollectOK
  <2>3. c.trace = <<>> \/ c.trace[1].verdict = "passed"
    BY <1>2, <2>2, OutermostPassed DEF TaskOK
  <2>4. /\ answer.status = "200" /\ answer.messages = k.collected
        /\ answer.complete <=> Len(k.collected) = k.request.wanted
    BY DEF Answer
  <2>5. ASSUME NEW new, new.phase = "answered", new.answer = answer,
               new.request = k.request, new.collected = k.collected
        PROVE  AnswerOK(new, c, DoneFor(t), effects, log, chain)
    <3>1. Polled(new)
      BY <2>1, <2>5 DEF Polled
    <3> HIDE DEF answer
    <3> QED
      BY <2>3, <2>4, <2>5, <3>1 DEF AnswerOK
  <2>6. AnswerWith(t, answer)
    BY <1>4
  <2> HIDE DEF answer
  <2> QED
    BY <1>1, <2>2, <2>5, <2>6, AnswersWith
<1> QED
  BY <1>3, <1>4 DEF HttpPoll

\* The deadline is not in the invariant.
LEMMA ExpireAnswers ==
    ASSUME ShapeOK, AnswerInv, NEW t \in Tasks, Expire(t)
    PROVE  AnswerInv'
<1> DEFINE k == tasks[t]
<1>1. UNCHANGED <<calls, chain, log, drained, effects>> /\ k.phase # "idle"
  <2>1. k.phase # "idle"
    BY StandsOK DEF Expire, TaskOK, PlaceOK, NoTask
  <2> QED
    BY <2>1 DEF Expire, pipelineVars
<1>2. TaskNow(t, k.phase, k.request, k.round, k.collected, k.answer)
  BY TaskWrites DEF Expire
<1>3. TaskOK(tasks'[t], calls[t], DoneFor(t), effects, log, chain)
  <2> DEFINE new == tasks'[t]
  <2>1. /\ new.phase = k.phase /\ new.request = k.request /\ new.round = k.round
        /\ new.collected = k.collected /\ new.answer = k.answer
    BY <1>2 DEF TaskNow
  <2>2. Polled(new) <=> Polled(k)
    BY <2>1 DEF Polled
  <2>3. TaskOK(k, calls[t], DoneFor(t), effects, log, chain)
    BY StandsOK
  <2> HIDE DEF new
  <2>4. PlaceOK(new, calls[t], MaxPolls)
    BY <1>1, <2>1, <2>3 DEF TaskOK, PlaceOK
  <2>5. SingleOK(new, calls[t], DoneFor(t), effects, chain)
    BY <2>1, <2>2, <2>3 DEF TaskOK, SingleOK
  <2>6. CollectOK(new, calls[t], DoneFor(t), effects, log)
    BY <2>1, <2>2, <2>3 DEF TaskOK, CollectOK, GotOK
  <2>7. AnswerOK(new, calls[t], DoneFor(t), effects, log, chain)
    BY <2>1, <2>2, <2>3 DEF TaskOK, AnswerOK
  <2>8. TaskOK(new, calls[t], DoneFor(t), effects, log, chain)
    BY <2>3, <2>4, <2>5, <2>6, <2>7 DEF TaskOK
  <2> QED
    BY <2>8 DEF new
<1> QED
  BY <1>1, <1>2, <1>3, TaskMoves

-----------------------------------------------------------------------------

\* Every step keeps the invariant.
LEMMA AnswerInvStep ==
    ASSUME CertInv, AnswerInv, [Next]_vars
    PROVE  AnswerInv'
<1>1. ShapeOK
  BY DEF CertInv
<1>2. ASSUME UNCHANGED <<tasks, calls, chain, log, drained, effects>>
      PROVE  AnswerInv'
  <2>1. DrainedOK'
    BY <1>2 DEF AnswerInv, DrainedOK
  <2>2. ASSUME NEW t \in Tasks
        PROVE  Standing(t)'
    <3>1. DoneFor(t)' = DoneFor(t)
      BY <1>2 DEF DoneFor
    <3>2. Standing(t)
      BY DEF AnswerInv
    <3> QED
      BY <1>2, <3>1, <3>2 DEF Standing
  <2> QED
    BY <2>1, <2>2 DEF AnswerInv
<1>3. CASE UNCHANGED vars \/ Host
  BY <1>2, <1>3 DEF vars, pipelineVars, Host
<1>4. ASSUME NEW t \in DOMAIN scenario.requests, Arrive(t)
      PROVE  AnswerInv'
  <2>1. t \in Tasks
    BY <1>1, RequestsAssumption DEF ShapeOK
  <2> QED
    BY <1>1, <1>4, <2>1, ArriveAnswers, SignAnswers DEF Arrive
<1>5. ASSUME NEW t \in Tasks, Serve(t)
      PROVE  AnswerInv'
  <2>1. CASE HttpLook(t)
    <3>1. \E phase \in {"look", "register", "sign"} :
              tasks' = [tasks EXCEPT ![t].phase = phase]
      BY <2>1 DEF HttpLook
    <3> QED
      BY <1>1, <2>1, <3>1, WaitAnswers DEF HttpLook, pipelineVars
  <2>2. CASE HttpRegister(t)
    BY <1>1, <2>2, WaitAnswers DEF HttpRegister, pipelineVars
  <2>3. CASE HttpSign(t) \/ McpSign(t)
    BY <1>1, <2>3, SignAnswers
  <2>4. CASE HttpReturn(t) \/ McpReturn(t) \/ HostReturn(t)
    BY <1>1, <2>4, ReturnAnswers
  <2>5. CASE HttpCollected(t) \/ HttpPoll(t)
    BY <1>1, <2>5, CollectAnswers, PollAnswers
  <2>6. CASE PipelineStep(t) /\ UNCHANGED <<tasks, scenario>>
    BY <1>1, <2>6, MovesAnswer, LeaveAnswers, VerifyAnswers, SendAnswers, RecvAnswers,
       OtherAnswers DEF PipelineStep
  <2> QED
    BY <1>5, <2>1, <2>2, <2>3, <2>4, <2>5, <2>6 DEF Serve
<1>6. ASSUME NEW t \in Tasks, Expire(t)
      PROVE  AnswerInv'
  BY <1>1, <1>6, ExpireAnswers
<1> QED
  BY <1>3, <1>4, <1>5, <1>6 DEF Next

\* At the start nobody asks and nothing is done.
LEMMA AnswerInvInit ==
    ASSUME Init
    PROVE  AnswerInv
<1>1. DrainedOK
  BY DEF Init, DrainedOK
<1>2. ASSUME NEW t \in Tasks
      PROVE  Standing(t)
  <2>1. tasks[t] = NoTask /\ calls[t] = NoCall /\ DoneFor(t) = {}
    BY DEF Init, DoneFor
  <2>2. PlaceOK(NoTask, NoCall, MaxPolls)
    BY RequestsAssumption DEF PlaceOK, NoTask, NoCall
  <2>3. TraceOK(NoCall, Len(chain))
    BY DEF TraceOK, NoCall
  <2>4. SingleOK(NoTask, NoCall, {}, effects, chain) /\ CollectOK(NoTask, NoCall, {}, effects, log)
        /\ AnswerOK(NoTask, NoCall, {}, effects, log, chain)
    BY DEF SingleOK, CollectOK, AnswerOK, Polled, NoTask, NoCall
  <2> QED
    BY <2>1, <2>2, <2>3, <2>4 DEF Standing, TaskOK
<1> QED
  BY <1>1, <1>2 DEF AnswerInv

\* The trace of a call that has come back is one in which the result has climbed all the way.
LEMMA ClimbedTells ==
    ASSUME NEW c, NEW n \in Nat, TraceOK(c, n), c.phase = "returned"
    PROVE  TraceTells(c.trace) /\ DOMAIN c.trace = 1 .. n
<1> DEFINE trace == c.trace
<1>1. Outward(c) /\ c.at = 0 /\ trace = [i \in 1 .. n |-> trace[i]]
  BY DEF TraceOK, Outward
<1>2. PICK reached \in 0 .. n : Climbed(trace, 0, reached, Verdict(c.result), n)
  BY <1>1 DEF TraceOK
<1>3. DOMAIN trace = 1 .. n /\ Len(trace) = n
  <2>1. DOMAIN trace = 1 .. n
    BY <1>1
  <2>2. trace \in Seq(Range(trace))
    <3>1. \A i \in 1 .. n : trace[i] \in Range(trace)
      BY <2>1 DEF Range
    <3> HIDE DEF trace
    <3>2. trace \in [1 .. n -> Range(trace)]
      BY <1>1, <3>1
    <3> QED
      BY <3>2
  <2> HIDE DEF trace
  <2> QED
    BY <2>1, <2>2, LenProperties
<1>4. /\ \A i \in 1 .. n : trace[i].verdict = "skipped" <=> i > reached
      /\ \A i, j \in 1 .. reached : i < j =>
             /\ trace[i].verdict = "passed" => trace[j].verdict = "passed"
             /\ trace[i].verdict = "rejected" => trace[j] = trace[i]
  BY <1>2 DEF Climbed
<1> HIDE DEF trace
<1>5. TraceTells(trace)
  BY <1>3, <1>4 DEF TraceTells
<1> QED
  BY <1>3, <1>5 DEF trace

\* What the invariant says of an answer is what the property asks.
LEMMA AnswersTell ==
    ASSUME ShapeOK, AnswerInv
    PROVE  AnswersAreTrue
<1> SUFFICES ASSUME NEW t \in Tasks, tasks[t].phase = "answered"
             PROVE  AnswerIsTrue(t)
  BY DEF AnswersAreTrue
<1> DEFINE k == tasks[t]
           c == calls[t]
           answer == k.answer
           done == DoneFor(t)
<1>1. TaskOK(k, c, done, effects, log, chain) /\ Len(chain) \in Nat
  BY StandsOK
<1>2. AnswerOK(k, c, done, effects, log, chain)
  BY <1>1 DEF TaskOK
<1>3. c.phase = "returned" => TraceTells(c.trace) /\ DOMAIN c.trace = DOMAIN chain
  BY <1>1, ClimbedTells, ChainIs DEF TaskOK
<1>4. Polled(k) <=> k.request.via = "http" /\ k.request.operation = "channels_collect"
  BY DEF Polled
<1>5. c.phase = "returned" =>
          /\ TraceTells(c.trace)
          /\ answer.status = "200" => c.trace = <<>> \/ c.trace[1].verdict = "passed"
  BY <1>2, <1>3 DEF AnswerOK
<1>6. ~Polled(k) =>
          /\ answer.status = "200" =>
                 \E i \in DOMAIN effects : /\ done = {i}
                                           /\ effects[i].operation = k.request.operation
                                           /\ answer.messages = effects[i].messages
          /\ answer.status \in {"400", "401"} => done = {}
          /\ answer.status \in {"403", "500"} =>
                 \/ done = {}
                 \/ \E i \in DOMAIN c.trace :
                        /\ c.trace[i].verdict = "errored"
                        /\ chain[i] \in {"hook_dispatcher", "middleware_log"}
  BY <1>2, <1>3 DEF AnswerOK, DidOnce, HookFailed
<1>7. answer.status = "429" =>
          \E i \in DOMAIN effects : done = {i} /\ effects[i].operation = "send"
  BY <1>2 DEF AnswerOK
<1>8. Polled(k) /\ answer.status = "200" =>
          /\ Range(answer.messages) \subseteq UNION {Range(effects[i].messages) : i \in done}
          /\ \A n \in Range(answer.messages) : log[n].about = k.request.topic
          /\ IsInjective(answer.messages)
          /\ answer.complete <=> Len(answer.messages) = k.request.wanted
  BY <1>1, <1>2 DEF TaskOK, CollectOK, AnswerOK, EachOnce, Handed
<1> QED
  BY <1>4, <1>5, <1>6, <1>7, <1>8 DEF AnswerIsTrue

\* An answer tells what was done: success, that the store performed the operation once and
\* with these messages; a refusal, that it did nothing; an internal error, nothing unless a
\* hook or the log failed behind it; and the trace says the same (Pipeline.dispatch() in
\* core/middleware/pipeline.py, _dispatch() and op_channels_collect() of
\* adapters/transports/http/routes.py), for every chain in which auth stands before the
\* store, and whatever other requests do in between.
THEOREM AnswersAreTrueAlways == Spec => []AnswersAreTrue
<1>1. Init => CertInv /\ AnswerInv
  BY CertInvInit, AnswerInvInit
<1>2. CertInv /\ AnswerInv /\ [Next]_vars => (CertInv /\ AnswerInv)'
  BY CertInvStep, AnswerInvStep
<1>3. CertInv /\ AnswerInv => AnswersAreTrue
  BY AnswersTell DEF CertInv
<1> QED
  BY <1>1, <1>2, <1>3, PTL DEF Spec

-----------------------------------------------------------------------------
(* The variables have their types.                                         *)

ChannelOrNone == Channels \cup {None}

\* What RequestsTypeOK needs of the identity: the tables are tables of the agents and of
\* the tasks.
IdentityTyped ==
    /\ IdentityTypeOK
    /\ records = [a \in Agents |-> records[a]]
    /\ authority = [t \in Tasks |-> authority[t]]

\* And of the calls: a call on its way names a channel or none, which a send puts into the
\* log, and where no call has been there is no place in the chain.
CallTyped(c) ==
    /\ c.phase \in {"down", "auth", "up"} => c.input.channel \in ChannelOrNone
    /\ c.phase = "idle" => c.at = 0

CallsTyped ==
    /\ \A n \in DOMAIN log : log[n].channel \in ChannelOrNone
    /\ \A t \in Tasks : CallTyped(calls[t])

TypeInv == IdentityTyped /\ CallsTyped

VerifyPhases == {"none", "lookup", "nonce", "verified", "refused", "broken"}

\* A failure is counted up to the bound.
LEMMA FaultCounted ==
    ASSUME IdentityTyped, UNCHANGED faults \/ (faults < MaxFaults /\ faults' = faults + 1)
    PROVE  faults' \in 0 .. MaxFaults
<1>1. faults \in 0 .. MaxFaults /\ MaxFaults \in Nat
  BY IdentityAssumption DEF IdentityTyped, IdentityTypeOK
<1> QED
  BY <1>1

\* A step of verify(), as far as the types see it.
LEMMA VerifyTyped ==
    ASSUME NonceInv, NonceInv', IdentityTyped, NEW t \in Tasks,
           UNCHANGED <<clock, records, admin>>,
           UNCHANGED faults \/ (faults < MaxFaults /\ faults' = faults + 1),
           \A entry \in seenNonces' : entry \in seenNonces \/ entry.at = verifying[t].now,
           UNCHANGED authority \/ authority' = [authority EXCEPT ![t] = GoodNow(records)],
           verifying' = [verifying EXCEPT ![t] = verifying'[t]],
           verifying'[t].phase \in VerifyPhases
    PROVE  IdentityTyped'
<1>1. VerifyingOK /\ VerifyingOK'
  BY DEF NonceInv
<1>2. faults' \in 0 .. MaxFaults
  BY FaultCounted
<1>3. \A entry \in seenNonces' : entry.at \in 0 .. clock
  BY <1>1 DEF VerifyingOK, IdentityTyped, IdentityTypeOK
<1>4. GoodNow(records) \subseteq Agents \X Keys
  BY DEF GoodNow, IdentityTyped, IdentityTypeOK
<1>5. /\ authority' = [u \in Tasks |-> authority'[u]]
      /\ \A u \in Tasks : authority'[u] \subseteq Agents \X Keys
  BY <1>4 DEF IdentityTyped, IdentityTypeOK
<1>6. \A u \in Tasks : verifying'[u].phase \in VerifyPhases
  <2>1. \A u \in Tasks \ {t} : verifying'[u] = verifying[u]
    BY <1>1 DEF VerifyingOK
  <2> QED
    BY <2>1 DEF IdentityTyped, IdentityTypeOK, VerifyPhases
<1>7. \A u \in Tasks : verifying'[u].now \in 0 .. clock
  BY <1>1 DEF VerifyingOK
<1> QED
  BY <1>2, <1>3, <1>5, <1>6, <1>7 DEF IdentityTyped, IdentityTypeOK, VerifyPhases

\* However verify() fails, one failure more is counted at most.
LEMMA FailTyped ==
    ASSUME VerifyingOK, NEW t \in Tasks, NEW call, NEW reason, Fail(t, call, reason),
           call = [phase |-> call.phase, request |-> call.request,
                   now |-> call.now, reason |-> call.reason]
    PROVE  /\ UNCHANGED faults \/ (faults < MaxFaults /\ faults' = faults + 1)
           /\ verifying' = [verifying EXCEPT ![t] = verifying'[t]]
           /\ verifying'[t].phase \in VerifyPhases
<1>1. PICK phase \in {"refused", "broken"} :
          verifying' = [verifying EXCEPT
              ![t] = [phase |-> phase, request |-> call.request,
                      now |-> call.now, reason |-> reason]]
  BY FailKeeps
<1>2. DOMAIN verifying = Tasks
  BY DEF VerifyingOK
<1> QED
  BY <1>1, <1>2 DEF Fail, VerifyPhases

LEMMA VerifyStepTyped ==
    ASSUME NonceInv, NonceInv', IdentityTyped, NEW t \in Tasks,
           \/ \E request : BeginVerify(t, request)
           \/ CheckRecord(t) \/ SpendNonce(t)
    PROVE  IdentityTyped'
<1>1. VerifyingOK /\ DOMAIN verifying = Tasks
  BY DEF NonceInv, VerifyingOK
<1>2. verifying[t] = [phase |-> verifying[t].phase, request |-> verifying[t].request,
                      now |-> verifying[t].now, reason |-> verifying[t].reason]
  BY <1>1 DEF VerifyingOK
<1>3. ASSUME NEW phase \in VerifyPhases, verifying' = [verifying EXCEPT ![t].phase = phase]
      PROVE  /\ verifying' = [verifying EXCEPT ![t] = verifying'[t]]
             /\ verifying'[t].phase \in VerifyPhases
  <2>1. DOMAIN verifying[t] = {"phase", "request", "now", "reason"}
    BY <1>2
  <2> QED
    BY <1>1, <1>3, <2>1
<1>4. ASSUME NEW request, BeginVerify(t, request)
      PROVE  IdentityTyped'
  <2> DEFINE call == [phase |-> "lookup", request |-> request, now |-> clock,
                      reason |-> None]
  <2>1. /\ UNCHANGED <<clock, records, admin, seenNonces>>
        /\ authority' = [authority EXCEPT ![t] = GoodNow(records)]
    BY <1>4 DEF BeginVerify
  <2>2. /\ UNCHANGED faults \/ (faults < MaxFaults /\ faults' = faults + 1)
        /\ verifying' = [verifying EXCEPT ![t] = verifying'[t]]
        /\ verifying'[t].phase \in VerifyPhases
    <3>1. CASE Fail(t, call, "malformed")
      BY <1>1, <3>1, FailTyped
    <3>2. CASE verifying' = [verifying EXCEPT ![t] = call] /\ UNCHANGED faults
      BY <1>1, <3>2 DEF VerifyPhases
    <3> QED
      BY <1>4, <3>1, <3>2 DEF BeginVerify
  <2> QED
    BY <2>1, <2>2, VerifyTyped
<1>5. CASE CheckRecord(t)
  <2>1. UNCHANGED <<clock, records, admin, seenNonces, authority>>
    BY <1>5 DEF CheckRecord
  <2>2. /\ UNCHANGED faults \/ (faults < MaxFaults /\ faults' = faults + 1)
        /\ verifying' = [verifying EXCEPT ![t] = verifying'[t]]
        /\ verifying'[t].phase \in VerifyPhases
    <3>1. CASE \E reason : Fail(t, verifying[t], reason)
      BY <1>1, <1>2, <3>1, FailTyped
    <3>2. CASE verifying' = [verifying EXCEPT ![t].phase = "nonce"] /\ UNCHANGED faults
      BY <1>3, <3>2 DEF VerifyPhases
    <3> QED
      BY <1>5, <3>1, <3>2 DEF CheckRecord
  <2> QED
    BY <2>1, <2>2, VerifyTyped
<1>6. CASE SpendNonce(t)
  <2>1. UNCHANGED <<clock, records, admin, authority>>
    BY <1>6 DEF SpendNonce
  <2>2. /\ UNCHANGED faults \/ (faults < MaxFaults /\ faults' = faults + 1)
        /\ verifying' = [verifying EXCEPT ![t] = verifying'[t]]
        /\ verifying'[t].phase \in VerifyPhases
    <3>1. CASE Fail(t, verifying[t], "replay")
      BY <1>1, <1>2, <3>1, FailTyped
    <3>2. CASE verifying' = [verifying EXCEPT ![t].phase = "verified"] /\ UNCHANGED faults
      BY <1>3, <3>2 DEF VerifyPhases
    <3> QED
      BY <1>6, <3>1, <3>2 DEF SpendNonce
  <2>3. \A entry \in seenNonces' : entry \in seenNonces \/ entry.at = verifying[t].now
    BY <1>6 DEF SpendNonce, PruneReplayCache
  <2> QED
    BY <2>1, <2>2, <2>3, VerifyTyped
<1> QED
  BY <1>4, <1>5, <1>6

\* A record changes.
LEMMA RecordsTyped ==
    ASSUME NonceInv', IdentityTyped, NEW table, SetRecords(table),
           table = [a \in Agents |-> table[a]],
           \A a \in Agents : table[a] = None \/ table[a] \in [key : Keys, revoked : BOOLEAN],
           UNCHANGED <<clock, seenNonces, verifying, faults>>, admin' \in 0 .. MaxAdmin
    PROVE  IdentityTyped'
<1>1. GoodNow(table) \subseteq Agents \X Keys
  BY DEF GoodNow
<1>2. /\ authority' = [u \in Tasks |-> authority'[u]]
      /\ \A u \in Tasks : authority'[u] \subseteq Agents \X Keys
  BY <1>1 DEF IdentityTyped, IdentityTypeOK, SetRecords
<1> QED
  BY <1>2 DEF IdentityTyped, IdentityTypeOK, SetRecords

LEMMA RecordWritten ==
    ASSUME IdentityTyped, NEW agent, NEW key \in Keys
    PROVE  LET table == WithRecord(agent, key)
           IN  /\ table = [a \in Agents |-> table[a]]
               /\ \A a \in Agents : \/ table[a] = None
                                   \/ table[a] \in [key : Keys, revoked : BOOLEAN]
  BY DEF IdentityTyped, IdentityTypeOK, WithRecord

LEMMA IdentityStep ==
    ASSUME NonceInv, NonceInv', IdentityTyped, [Next]_vars
    PROVE  IdentityTyped'
<1>1. ASSUME UNCHANGED identityVars
      PROVE  IdentityTyped'
  BY <1>1 DEF IdentityTyped, IdentityTypeOK, identityVars
<1>2. CASE UNCHANGED vars
  BY <1>1, <1>2 DEF vars
<1>3. CASE Host
  <2>1. MaxAdmin \in Nat /\ admin \in 0 .. MaxAdmin
    BY IdentityAssumption DEF IdentityTyped, IdentityTypeOK
  <2>2. CASE Tick
    <3>1. clock \in 0 .. MaxClock /\ MaxClock \in Nat
      BY IdentityAssumption DEF IdentityTyped, IdentityTypeOK
    <3>2. clock' \in 0 .. MaxClock /\ 0 .. clock \subseteq 0 .. clock'
      BY <2>2, <3>1 DEF Tick
    <3> QED
      BY <2>2, <3>2 DEF Tick, IdentityTyped, IdentityTypeOK
  <2>3. ASSUME NEW a \in Agents, AdminRevoke(a)
        PROVE  IdentityTyped'
    <3> DEFINE table == [records EXCEPT ![a].revoked = TRUE]
    <3>1. SetRecords(table) /\ UNCHANGED <<clock, seenNonces, verifying, faults>>
      BY <2>3 DEF AdminRevoke
    <3>2. admin' \in 0 .. MaxAdmin
      BY <2>1, <2>3 DEF AdminRevoke
    <3>3. /\ table = [b \in Agents |-> table[b]]
          /\ \A b \in Agents : table[b] = None \/ table[b] \in [key : Keys, revoked : BOOLEAN]
      <4>1. records[a] \in [key : Keys, revoked : BOOLEAN]
        BY <2>3 DEF AdminRevoke, IdentityTyped, IdentityTypeOK
      <4>2. [records[a] EXCEPT !.revoked = TRUE] \in [key : Keys, revoked : BOOLEAN]
        BY <4>1
      <4>3. table = [records EXCEPT ![a] = [records[a] EXCEPT !.revoked = TRUE]]
        BY DEF IdentityTyped
      <4> QED
        BY <4>2, <4>3 DEF IdentityTyped, IdentityTypeOK
    <3> HIDE DEF table
    <3> QED
      BY <3>1, <3>2, <3>3, RecordsTyped
  <2>4. ASSUME NEW a \in Agents, NEW key \in Keys, AdminRegister(a, key)
        PROVE  IdentityTyped'
    <3>1. admin' \in 0 .. MaxAdmin
      BY <2>1, <2>4 DEF AdminRegister
    <3> QED
      BY <2>4, <3>1, RecordWritten, RecordsTyped DEF AdminRegister
  <2> QED
    BY <1>3, <2>2, <2>3, <2>4 DEF Host
<1>4. ASSUME NEW t \in DOMAIN scenario.requests, Arrive(t)
      PROVE  IdentityTyped'
  <2>1. UNCHANGED identityVars
    BY <1>4 DEF Arrive, HttpRefuse, HttpArrive, McpArrive, HostArrive
  <2> QED
    BY <1>1, <2>1
<1>5. ASSUME NEW t \in Tasks, Expire(t)
      PROVE  IdentityTyped'
  <2>1. UNCHANGED identityVars
    BY <1>5 DEF Expire
  <2> QED
    BY <1>1, <2>1
<1>6. ASSUME NEW t \in Tasks, Serve(t)
      PROVE  IdentityTyped'
  <2>1. CASE \/ HttpLook(t) \/ HttpSign(t) \/ HttpReturn(t) \/ HttpCollected(t)
             \/ HttpPoll(t) \/ McpSign(t) \/ McpReturn(t) \/ HostReturn(t)
    <3>1. UNCHANGED identityVars
      BY <2>1 DEF HttpLook, HttpSign, HttpReturn, HttpCollected, HttpPoll, McpSign,
                  McpReturn, HostReturn
    <3> QED
      BY <1>1, <3>1
  <2>2. CASE HttpRegister(t)
    <3>1. admin \in 0 .. MaxAdmin
      BY DEF IdentityTyped, IdentityTypeOK
    <3>2. ServerKey \in Keys
      BY RequestsAssumption
    <3> DEFINE agent == tasks[t].request.token
               table == WithRecord(agent, ServerKey)
    <3>3. /\ table = [a \in Agents |-> table[a]]
          /\ \A a \in Agents : table[a] = None \/ table[a] \in [key : Keys, revoked : BOOLEAN]
      BY <3>2, RecordWritten
    <3>4. /\ SetRecords(table) /\ UNCHANGED <<clock, seenNonces, verifying, faults>>
          /\ admin' = admin
      BY <2>2 DEF HttpRegister
    <3> HIDE DEF table
    <3> QED
      BY <3>1, <3>3, <3>4, RecordsTyped
  <2>3. CASE \/ SchemaStrict(t) \/ EnterLog(t) \/ PassAuth(t) \/ MissCredential(t)
             \/ StoreUnsupported(t) \/ StoreSend(t) \/ StoreRecv(t) \/ StoreOther(t)
    <3>1. UNCHANGED identityVars
      BY <2>3 DEF SchemaStrict, EnterLog, PassAuth, MissCredential, StoreUnsupported,
                  StoreSend, StoreRecv, StoreOther, CallsOnly
    <3> QED
      BY <1>1, <3>1
  <2>4. CASE PreHooks(t) \/ StoreRaises(t) \/ Leave(t)
    <3>1. /\ UNCHANGED <<clock, records, seenNonces, verifying, admin, authority>>
          /\ UNCHANGED faults \/ (faults < MaxFaults /\ faults' = faults + 1)
      BY <2>4 DEF PreHooks, StoreRaises, Leave
    <3>2. faults' \in 0 .. MaxFaults
      BY <3>1, FaultCounted
    <3> QED
      BY <3>1, <3>2 DEF IdentityTyped, IdentityTypeOK
  <2>5. CASE BeginAuth(t) \/ VerifyRecord(t) \/ VerifyNonce(t)
    BY <2>5, VerifyStepTyped DEF BeginAuth, VerifyRecord, VerifyNonce
  <2>6. CASE EndAuth(t)
    <3>1. /\ UNCHANGED <<clock, records, seenNonces, admin, faults, authority>>
          /\ verifying' = [verifying EXCEPT ![t] = NoVerify]
      BY <2>6 DEF EndAuth
    <3>2. /\ verifying' = [verifying EXCEPT ![t] = verifying'[t]]
          /\ verifying'[t].phase \in VerifyPhases
      BY <3>1 DEF NonceInv, VerifyingOK, NoVerify, VerifyPhases
    <3> QED
      BY <3>1, <3>2, VerifyTyped
  <2> QED
    BY <1>6, <2>1, <2>2, <2>3, <2>4, <2>5, <2>6 DEF Serve, PipelineStep
<1> QED
  BY <1>2, <1>3, <1>4, <1>5, <1>6 DEF Next

\* A call moves, and the log stays.
LEMMA OneCallTyped ==
    ASSUME CallsTyped, NEW t \in Tasks, UNCHANGED log, CallTyped(calls'[t]),
           \A u \in Tasks \ {t} : calls'[u] = calls[u]
    PROVE  CallsTyped'
  BY DEF CallsTyped

LEMMA CallGoesTyped ==
    ASSUME ShapeOK, CallsTyped, NEW t \in Tasks, UNCHANGED log, NEW new, CallGoes(t, new),
           new.phase # "idle",
           new.phase \in {"down", "auth", "up"} => new.input.channel \in ChannelOrNone
    PROVE  CallsTyped'
<1>1. calls'[t] = new /\ \A u \in Tasks \ {t} : calls'[u] = calls[u]
  BY DEF CallGoes, ShapeOK
<1>2. CallTyped(new)
  BY DEF CallTyped
<1> QED
  BY <1>1, <1>2, OneCallTyped

LEMMA GoOnTyped ==
    ASSUME ShapeOK, CallsTyped, NEW t \in Tasks, UNCHANGED log, NEW call,
           DOMAIN call = DOMAIN NoCall, call.input.channel \in ChannelOrNone, GoOn(t, call)
    PROVE  CallsTyped'
<1>1. PICK new : CallGoes(t, new) /\ SameCall(call, new) /\ new.phase = "down"
  BY GoOnCall
<1> QED
  BY <1>1, CallGoesTyped DEF SameCall

LEMMA TurnBackTyped ==
    ASSUME ShapeOK, CallsTyped, NEW t \in Tasks, UNCHANGED log, NEW result,
           calls[t].input.channel \in ChannelOrNone, TurnBack(t, result)
    PROVE  CallsTyped'
<1>1. PICK new : CallGoes(t, new) /\ SameCall(calls[t], new) /\ new.phase = "up"
  BY TurnBackCall
<1> QED
  BY <1>1, CallGoesTyped DEF SameCall

\* The channel a dispatch begins with is the client's, or none.
LEMMA InputTyped ==
    ASSUME NEW t \in Tasks
    PROVE  /\ \A input \in ClientInputs : input.channel \in ChannelOrNone
           /\ NoInput.channel \in ChannelOrNone
           /\ tasks[t].request.input \in ClientInputs => HttpInput(t).channel \in ChannelOrNone
           /\ \A r : r.input \in ClientInputs => McpInput(r).channel \in ChannelOrNone
<1>1. \A input \in ClientInputs : input.channel \in ChannelOrNone /\ DOMAIN input = DOMAIN NoInput
  BY DEF ClientInputs, NoInput, ChannelOrNone
<1>2. NoInput.channel \in ChannelOrNone
  BY DEF NoInput, ChannelOrNone
<1>3. ASSUME tasks[t].request.input \in ClientInputs
      PROVE  HttpInput(t).channel \in ChannelOrNone
  <2>1. CASE tasks[t].round = 0
    BY <1>1, <1>3, <2>1 DEF HttpInput
  <2>2. CASE tasks[t].round # 0
    BY <1>2, <2>2 DEF HttpInput, NoInput
  <2> QED
    BY <2>1, <2>2
<1>4. ASSUME NEW r, r.input \in ClientInputs
      PROVE  McpInput(r).channel \in ChannelOrNone
  <2>1. DOMAIN r.input = DOMAIN NoInput /\ r.input.channel \in ChannelOrNone
    BY <1>1, <1>4
  <2>2. DOMAIN McpGroupInput(r) = DOMAIN NoInput /\ McpGroupInput(r).channel \in ChannelOrNone
    BY <2>1 DEF McpGroupInput, NoInput
  <2>3. DOMAIN McpCollectInput(r) = DOMAIN NoInput /\ McpCollectInput(r).channel \in ChannelOrNone
    BY <2>1 DEF McpCollectInput, NoInput
  <2>4. CASE r.operation \in {"send", "list_channels", "replay"}
    BY <2>1, <2>4 DEF McpInput
  <2>5. CASE r.operation = "channels_collect"
    BY <2>3, <2>5 DEF McpInput, NoInput
  <2>6. CASE r.operation \notin {"send", "list_channels", "replay", "channels_collect"}
    BY <2>2, <2>6 DEF McpInput, NoInput
  <2> QED
    BY <2>4, <2>5, <2>6
<1> QED
  BY <1>1, <1>2, <1>3, <1>4

LEMMA DispatchTyped ==
    ASSUME CertInv, CallsTyped, NEW t \in Tasks,
           \/ HttpSign(t) \/ McpSign(t)
           \/ (t \in DOMAIN scenario.requests /\ HostArrive(t))
    PROVE  CallsTyped'
<1>1. ASSUME NEW operation, NEW input, NEW credential, NEW hint,
             Dispatch(t, operation, input, credential, hint), input.channel \in ChannelOrNone
      PROVE  CallsTyped'
  <2>1. /\ calls'[t].phase = "down" /\ calls'[t].input = input /\ UNCHANGED log
        /\ \A u \in Tasks \ {t} : calls'[u] = calls[u]
    BY <1>1, DispatchIs DEF CertInv
  <2>2. CallTyped(calls'[t])
    <3> DEFINE new == calls'[t]
    <3>1. new.phase = "down" /\ new.input = input
      BY <2>1
    <3> HIDE DEF new
    <3>2. CallTyped(new)
      BY <1>1, <3>1 DEF CallTyped
    <3> QED
      BY <3>2 DEF new
  <2> QED
    BY <2>1, <2>2, OneCallTyped
<1>2. CASE HttpSign(t) \/ McpSign(t)
  <2>1. tasks[t].request.input \in ClientInputs
    BY <1>2 DEF CertInv, AskedOK, HttpSign, McpSign
  <2>2. HttpInput(t).channel \in ChannelOrNone /\ McpInput(tasks[t].request).channel \in ChannelOrNone
    BY <2>1, InputTyped
  <2> QED
    BY <1>1, <1>2, <2>2 DEF HttpSign, McpSign
<1>3. CASE t \in DOMAIN scenario.requests /\ HostArrive(t)
  <2>1. PICK r \in scenario.requests[t] :
            \/ Dispatch(t, r.operation, r.input, r.signed, None)
            \/ Dispatch(t, r.operation, [r.input EXCEPT !.signed_request = r.signed],
                        None, None)
    BY <1>3 DEF HostArrive
  <2>2. r.input \in ClientInputs
    BY <1>3, RequestsAsked
  <2>3. /\ r.input.channel \in ChannelOrNone
        /\ [r.input EXCEPT !.signed_request = r.signed].channel \in ChannelOrNone
    <3>1. DOMAIN r.input = DOMAIN NoInput /\ r.input.channel \in ChannelOrNone
      BY <2>2, InputTyped, ClientInputIs
    <3> QED
      BY <3>1 DEF NoInput
  <2> QED
    BY <1>1, <2>1, <2>3
<1> QED
  BY <1>2, <1>3

LEMMA PipelineTyped ==
    ASSUME CertInv, CallsTyped, NEW t \in Tasks, PipelineStep(t)
    PROVE  CallsTyped'
<1> DEFINE c == calls[t]
<1>1. ShapeOK /\ DOMAIN calls = Tasks /\ DOMAIN c = DOMAIN NoCall
  BY DEF CertInv, ShapeOK
<1>2. c.phase \in {"down", "auth", "up"} => c.input.channel \in ChannelOrNone
  BY DEF CallsTyped, CallTyped
<1>3. ASSUME c.phase \in {"down", "auth"}, UNCHANGED log,
             GoOn(t, c) \/ \E result : TurnBack(t, result)
      PROVE  CallsTyped'
  BY <1>1, <1>2, <1>3, GoOnTyped, TurnBackTyped
<1>4. CASE \/ SchemaStrict(t) \/ PreHooks(t) \/ EnterLog(t) \/ PassAuth(t)
           \/ MissCredential(t)
  BY <1>3, <1>4 DEF SchemaStrict, PreHooks, EnterLog, PassAuth, MissCredential, Entering,
                    CallsOnly
<1>5. CASE StoreRecv(t) \/ StoreOther(t) \/ StoreUnsupported(t) \/ StoreRaises(t)
  BY <1>3, <1>5 DEF StoreRecv, StoreOther, StoreUnsupported, StoreRaises, AtStore,
                    Performed, CallsOnly
<1>6. CASE VerifyRecord(t) \/ VerifyNonce(t)
  BY <1>6 DEF VerifyRecord, VerifyNonce, pipelineVars, CallsTyped
<1>7. CASE BeginAuth(t)
  <2>1. c.phase = "down" /\ UNCHANGED log
    BY <1>7 DEF BeginAuth, Entering
  <2>2. DOMAIN c.input = DOMAIN NoInput
    BY <2>1 DEF CertInv, ShapeOK, Live
  <2>3. PICK signed : calls' = [calls EXCEPT ![t].phase = "auth",
                                             ![t].input.signed_request = signed]
    BY <1>7 DEF BeginAuth
  <2> DEFINE input == [c.input EXCEPT !.signed_request = signed]
             new == [c EXCEPT !.phase = "auth", !.input = input]
  <2>4. input.channel \in ChannelOrNone
    BY <1>2, <2>1, <2>2 DEF NoInput
  <2>5. calls' = [calls EXCEPT ![t] = new]
    BY <1>1, <2>3 DEF NoCall
  <2> HIDE DEF input
  <2>6. DOMAIN new = DOMAIN NoCall /\ new.phase = "auth" /\ new.input = input
    BY <1>1 DEF NoCall
  <2> HIDE DEF new
  <2> QED
    BY <1>1, <2>1, <2>4, <2>5, <2>6, CallGoesTyped DEF CallGoes
<1>8. CASE EndAuth(t)
  <2>1. c.phase = "auth" /\ UNCHANGED log
    BY <1>8 DEF EndAuth
  <2>2. CASE \E result : TurnBack(t, result)
    BY <1>3, <2>1, <2>2
  <2>3. CASE GoOn(t, BindForSend(c, verifying[t].request.agent))
    <3> DEFINE agent == verifying[t].request.agent
               call == BindForSend(c, agent)
    <3>1. DOMAIN c.input = DOMAIN NoInput
      BY <2>1 DEF CertInv, ShapeOK, Live
    <3>2. DOMAIN call = DOMAIN NoCall /\ call.input.channel \in ChannelOrNone
      <4>1. CASE c.operation = "send"
        <5> DEFINE input == [c.input EXCEPT !.sender = agent]
        <5>1. call = [c EXCEPT !.input = input, !.agent = agent]
          BY <1>1, <4>1 DEF BindForSend, NoCall
        <5>2. input.channel \in ChannelOrNone
          BY <1>2, <2>1, <3>1 DEF NoInput
        <5> HIDE DEF input, agent, call
        <5> QED
          BY <1>1, <5>1, <5>2 DEF NoCall
      <4>2. CASE c.operation # "send"
        <5>1. call = [c EXCEPT !.agent = agent]
          BY <4>2 DEF BindForSend
        <5> HIDE DEF agent, call
        <5> QED
          BY <1>1, <1>2, <2>1, <5>1 DEF NoCall
      <4> QED
        BY <4>1, <4>2
    <3> HIDE DEF call
    <3> QED
      BY <1>1, <2>1, <2>3, <3>2, GoOnTyped DEF call
  <2> QED
    BY <1>8, <2>2, <2>3 DEF EndAuth
<1>9. CASE StoreSend(t)
  <2>1. /\ c.phase = "down" /\ \E result : TurnBack(t, result)
        /\ log' = Append(log, [sender |-> Actor(c), channel |-> c.input.channel,
                               about |-> c.input.about])
    BY <1>9 DEF StoreSend, AtStore, Performed
  <2>2. PICK m : log' = Append(log, m) /\ m.channel = c.input.channel
    BY <2>1
  <2>3. PICK L : log \in Seq(L)
    BY <1>1 DEF ShapeOK
  <2>4. \A n \in DOMAIN log' : log'[n].channel \in ChannelOrNone
    <3>1. /\ DOMAIN log = 1 .. Len(log) /\ Len(log) \in Nat
          /\ DOMAIN log' = 1 .. Len(log) + 1
          /\ \A n \in 1 .. Len(log) : log'[n] = log[n]
          /\ log'[Len(log) + 1] = m
      BY <2>2, <2>3, AppendIs
    <3> QED
      BY <1>2, <2>1, <2>2, <3>1 DEF CallsTyped
  <2>5. PICK new : CallGoes(t, new) /\ SameCall(c, new) /\ new.phase = "up"
    BY <1>1, <2>1, TurnBackCall
  <2>6. calls'[t] = new /\ \A u \in Tasks \ {t} : calls'[u] = calls[u]
    BY <1>1, <2>5 DEF CallGoes
  <2>7. CallTyped(new)
    BY <1>2, <2>1, <2>5 DEF CallTyped, SameCall
  <2> QED
    BY <2>4, <2>6, <2>7 DEF CallsTyped
<1>10. CASE Leave(t)
  <2>1. c.phase = "up" /\ UNCHANGED log
    BY <1>10 DEF Leave
  <2> DEFINE at == c.at
             phase == IF at <= 1 THEN "returned" ELSE "up"
             trace(result) == IF at \in DOMAIN chain
                              THEN [c.trace EXCEPT ![at] = Verdict(result)]
                              ELSE c.trace
             left(result) == [c EXCEPT !.at = at - 1, !.result = result,
                                       !.phase = phase, !.trace = trace(result)]
  <2>2. PICK result : calls' = [calls EXCEPT ![t] = left(result)]
    BY <1>10 DEF Leave
  <2>3. phase # "idle"
    OBVIOUS
  <2> HIDE DEF trace, phase
  <2> DEFINE new == left(result)
  <2>4. DOMAIN new = DOMAIN NoCall /\ new.input = c.input /\ new.phase = phase
    BY <1>1 DEF NoCall
  <2>5. CallGoes(t, new)
    BY <2>2, <2>4 DEF CallGoes
  <2> HIDE DEF new
  <2> QED
    BY <1>1, <1>2, <2>1, <2>3, <2>4, <2>5, CallGoesTyped
<1> QED
  BY <1>4, <1>5, <1>6, <1>7, <1>8, <1>9, <1>10 DEF PipelineStep

LEMMA CallsStep ==
    ASSUME CertInv, CallsTyped, [Next]_vars
    PROVE  CallsTyped'
<1>1. ASSUME UNCHANGED <<calls, log>>
      PROVE  CallsTyped'
  BY <1>1 DEF CallsTyped
<1>2. CASE UNCHANGED vars \/ Host
  BY <1>1, <1>2 DEF vars, Host, pipelineVars
<1>3. ASSUME NEW t \in DOMAIN scenario.requests, Arrive(t)
      PROVE  CallsTyped'
  <2>1. t \in Tasks
    BY RequestsAssumption DEF CertInv, ShapeOK
  <2>2. CASE HostArrive(t)
    BY <2>1, <2>2, DispatchTyped
  <2>3. CASE HttpRefuse(t) \/ HttpArrive(t) \/ McpArrive(t)
    BY <1>1, <2>3 DEF HttpRefuse, HttpArrive, McpArrive, pipelineVars
  <2> QED
    BY <1>3, <2>2, <2>3 DEF Arrive
<1>4. ASSUME NEW t \in Tasks, Expire(t)
      PROVE  CallsTyped'
  BY <1>1, <1>4 DEF Expire, pipelineVars
<1>5. ASSUME NEW t \in Tasks, Serve(t)
      PROVE  CallsTyped'
  <2>1. CASE \/ HttpLook(t) \/ HttpRegister(t) \/ HttpReturn(t) \/ HttpCollected(t)
             \/ HttpPoll(t) \/ McpReturn(t) \/ HostReturn(t)
    BY <1>1, <2>1 DEF HttpLook, HttpRegister, HttpReturn, HttpCollected, HttpPoll,
                      McpReturn, HostReturn, pipelineVars
  <2>2. CASE HttpSign(t) \/ McpSign(t)
    BY <2>2, DispatchTyped
  <2>3. CASE PipelineStep(t)
    BY <2>3, PipelineTyped
  <2> QED
    BY <1>5, <2>1, <2>2, <2>3 DEF Serve
<1> QED
  BY <1>2, <1>3, <1>4, <1>5 DEF Next

LEMMA TypeInvInit ==
    ASSUME Init
    PROVE  TypeInv
<1>1. IdentityTyped
  <2>1. \A a \in Agents : \/ scenario.records[a] = None
                         \/ scenario.records[a] \in [key : Keys, revoked : BOOLEAN]
    BY RequestsAssumption DEF Init
  <2>2. 0 \in 0 .. MaxClock /\ 0 \in 0 .. MaxAdmin /\ 0 \in 0 .. MaxFaults /\ 0 \in 0 .. 0
    BY IdentityAssumption
  <2>3. \A t \in Tasks : verifying[t].phase = "none" /\ verifying[t].now = 0 /\ authority[t] = {}
    BY DEF Init, NoVerify
  <2> QED
    BY <2>1, <2>2, <2>3 DEF Init, IdentityTyped, IdentityTypeOK
<1>2. CallsTyped
  <2> DEFINE M == [sender : Agents \cup {None}, channel : ChannelOrNone, about : Topics \cup {None}]
  <2>1. log \in Seq(M) /\ \A m \in M : m.channel \in ChannelOrNone
    BY RequestsAssumption DEF Init, ChannelOrNone
  <2>2. \A n \in DOMAIN log : log[n].channel \in ChannelOrNone
    <3> HIDE DEF M
    <3>1. \A n \in DOMAIN log : log[n] \in M
      BY <2>1
    <3> QED
      BY <2>1, <3>1
  <2>3. \A t \in Tasks : CallTyped(calls[t])
    BY DEF Init, CallTyped, NoCall
  <2> QED
    BY <2>2, <2>3 DEF CallsTyped
<1> QED
  BY <1>1, <1>2 DEF TypeInv

LEMMA TypeInvTypes ==
    ASSUME CertInv, AnswerInv, TypeInv
    PROVE  RequestsTypeOK
<1>1. IdentityTypeOK /\ \A n \in DOMAIN log : log[n].channel \in Channels \cup {None}
  BY DEF TypeInv, IdentityTyped, CallsTyped, ChannelOrNone
<1>2. \A a \in Agents : drained[a] \subseteq DOMAIN log
  BY DEF AnswerInv, DrainedOK
<1>3. \A i \in DOMAIN effects : effects[i].task \in Tasks
  BY DEF CertInv, EffectOK
<1>4. ASSUME NEW t \in Tasks
      PROVE  /\ calls[t].phase \in {"idle", "down", "auth", "up", "returned"}
             /\ calls[t].at \in 0..Len(chain) + 1
             /\ tasks[t].phase \in
                    {"idle", "look", "register", "sign", "dispatch", "poll", "answered"}
             /\ tasks[t].round \in 0..MaxPolls
             /\ tasks[t].collected # <<>> => Len(tasks[t].collected) <= tasks[t].request.wanted
  <2>1. TaskOK(tasks[t], calls[t], DoneFor(t), effects, log, chain) /\ Len(chain) \in Nat
    BY StandsOK DEF CertInv
  <2>2. PlaceOK(tasks[t], calls[t], MaxPolls) /\ TraceOK(calls[t], Len(chain))
    BY <2>1 DEF TaskOK
  <2>3. calls[t].at \in 0..Len(chain) + 1
    <3>1. CASE calls[t].phase = "idle"
      <4>1. calls[t].at = 0
        BY <3>1 DEF TypeInv, CallsTyped, CallTyped
      <4> QED
        BY <2>1, <4>1
    <3>2. CASE calls[t].phase # "idle"
      BY <2>2, <3>2 DEF TraceOK
    <3> QED
      BY <3>1, <3>2
  <2>4. tasks[t].collected # <<>> => Len(tasks[t].collected) <= tasks[t].request.wanted
    <3>1. CASE Polled(tasks[t])
      BY <2>1, <3>1 DEF TaskOK, CollectOK
    <3>2. CASE ~Polled(tasks[t])
      BY <2>1, <3>2 DEF TaskOK, SingleOK
    <3> QED
      BY <3>1, <3>2
  <2> QED
    BY <2>2, <2>3, <2>4 DEF PlaceOK
<1> QED
  BY <1>1, <1>2, <1>3, <1>4 DEF RequestsTypeOK

\* The variables have their types, and op_channels_collect() never keeps more than it was
\* asked for, because each recv asks for what is still missing (routes.py).
THEOREM RequestsTypeCorrect == Spec => []RequestsTypeOK
<1>1. Init => CertInv /\ AnswerInv /\ TypeInv
  BY CertInvInit, AnswerInvInit, TypeInvInit
<1>2. CertInv /\ AnswerInv /\ TypeInv /\ [Next]_vars => (CertInv /\ AnswerInv /\ TypeInv)'
  <2> SUFFICES ASSUME CertInv, AnswerInv, TypeInv, [Next]_vars
               PROVE  CertInv' /\ AnswerInv' /\ TypeInv'
    OBVIOUS
  <2>1. CertInv' /\ AnswerInv'
    BY CertInvStep, AnswerInvStep
  <2>2. NonceInv /\ NonceInv'
    BY <2>1 DEF CertInv
  <2>3. IdentityTyped'
    BY <2>2, IdentityStep DEF TypeInv
  <2>4. CallsTyped'
    BY CallsStep DEF TypeInv
  <2> QED
    BY <2>1, <2>3, <2>4 DEF TypeInv
<1>3. CertInv /\ AnswerInv /\ TypeInv => RequestsTypeOK
  BY TypeInvTypes
<1> QED
  BY <1>1, <1>2, <1>3, PTL DEF Spec

=============================================================================
