------------------------------ MODULE Identity ------------------------------
(***************************************************************************)
(* The identity stack (core/identity): the credential registry, the cache  *)
(* of nonces, the audit log, and verify(), which tasks of one event loop   *)
(* run side by side.                                                       *)
(*                                                                         *)
(* verify() reads the clock once, awaits the registry, and then awaits the *)
(* lock of the nonce cache: it is three steps, between which other tasks   *)
(* verify, the host registers or revokes, and time passes.  (The registry  *)
(* of the package never waits in lookup(); the port allows one that does.) *)
(* What runs under a lock, and the audit log's write, is one step.         *)
(*                                                                         *)
(* Abstractions: a key stands for a key pair, and a signature is the key   *)
(* it was made with, good for exactly the fields it was made over; a       *)
(* request signed by one key over changed fields is one signed by no key.  *)
(***************************************************************************)
EXTENDS Naturals, FiniteSets

CONSTANTS
    Agents,        \* agent ids
    Keys,          \* key pairs
    None,          \* Python's None
    Tasks,         \* tasks of the event loop that serve a request, by number
    ReplayWindow,  \* the replay window, in ticks of the clock
    MaxClock,      \* bound: ticks of the clock
    MaxAdmin,      \* bound: registrations and revocations made by the host
    MaxFaults      \* bound: what fails (a log that cannot be written, a store that raises)

ASSUME IdentityAssumption ==
    /\ None \notin Agents \cup Keys
    /\ Tasks \subseteq Nat
    /\ ReplayWindow \in Nat
    /\ MaxClock \in Nat
    /\ MaxAdmin \in Nat
    /\ MaxFaults \in Nat

VARIABLES
    clock,      \* time.time(), in ticks
    records,    \* _records: per agent, the key and whether it is revoked, or None
    seenNonces, \* _seen_nonces: the nonces kept, each with the time it is kept under
    audit,      \* identity-failures.jsonl: what was refused, per task, and why
    verifying,  \* per task, the local variables of verify()
    admin,      \* registrations and revocations so far
    faults,     \* failures so far
    authority,  \* history: the agents' keys that were good since the task began to verify
    accepted    \* history: the requests verify() accepted, when each was read and when spent

identityVars == <<clock, records, seenNonces, audit, verifying, admin, faults,
                  authority, accepted>>

NoVerify == [phase |-> "none", request |-> None, now |-> 0, reason |-> None]

\* SignedRequest: what a caller presents with an operation; it is signed with key.
SignedRequest(agent, nonce, timestamp, key) ==
    [agent |-> agent, nonce |-> nonce, timestamp |-> timestamp, key |-> key]

\* verify_signature() over canonical_payload().
SignedBy(request, key) == request.key = key

\* InMemoryCredentialRegistry.register(): a new record, good, over any older one.
WithRecord(agent, key) == [records EXCEPT ![agent] = [key |-> key, revoked |-> FALSE]]

\* InMemoryCredentialRegistry.lookup().
Lookup(agent) == IF agent \in Agents THEN records[agent] ELSE None

\* CredentialRecord.is_revoked and the check against it.
Good(record, request) == record # None /\ ~record.revoked /\ SignedBy(request, record.key)

\* The agents and keys that would pass now.
GoodNow(table) ==
    {<<a, table[a].key>> : a \in {b \in Agents : table[b] # None /\ ~table[b].revoked}}

\* Mutant: the boundary of the window is pruned.
PruneReplayCacheEarly(kept, now) == {entry \in kept : entry.at + ReplayWindow > now}

\* _prune_replay_cache(): what was kept under a time before the window goes.
PruneReplayCache(kept, now) == {entry \in kept : entry.at + ReplayWindow >= now}

\* A request whose time stamp is too far from now, either way, or without name or nonce.
Stale(request, now) ==
    \/ request.timestamp + ReplayWindow < now
    \/ now + ReplayWindow < request.timestamp

Incomplete(request) == request.agent = None \/ request.nonce = None

\* AuditLogWriter.record_failure(): one more line, for this task.
RecordFailure(t, reason) == audit' = audit \cup {<<t, reason>>}

\* _fail(): the audit line is written before the error is raised.  Where the file
\* cannot be written the OSError comes out of verify() in the error's place.
Fail(t, call, reason) ==
    \/ /\ RecordFailure(t, reason)
       /\ verifying' = [verifying EXCEPT ![t] =
              [call EXCEPT !.phase = "refused", !.reason = reason]]
       /\ UNCHANGED faults
    \/ /\ faults < MaxFaults
       /\ faults' = faults + 1
       /\ verifying' = [verifying EXCEPT ![t] =
              [call EXCEPT !.phase = "broken", !.reason = reason]]
       /\ UNCHANGED audit

\* verify(), up to the registry: the clock is read, the form and the time stamp checked.
BeginVerify(t, request) ==
    LET call == [phase |-> "lookup", request |-> request, now |-> clock, reason |-> None]
        malformed == Incomplete(request) \/ Stale(request, clock)
    IN  /\ authority' = [authority EXCEPT ![t] = GoodNow(records)]
        /\ \/ malformed /\ Fail(t, call, "malformed")
           \/ /\ ~malformed
              /\ verifying' = [verifying EXCEPT ![t] = call]
              /\ UNCHANGED <<audit, faults>>
        /\ UNCHANGED <<clock, records, seenNonces, admin, accepted>>

\* The record, its revocation and the signature under its key.
CheckRecord(t) ==
    LET call == verifying[t]
        record == Lookup(call.request.agent)
    IN  /\ call.phase = "lookup"
        /\ \/ record = None /\ Fail(t, call, "unknown")
           \/ record # None /\ record.revoked /\ Fail(t, call, "revoked")
           \/ /\ record # None /\ ~record.revoked /\ ~SignedBy(call.request, record.key)
              /\ Fail(t, call, "signature")
           \/ /\ Good(record, call.request)
              /\ verifying' = [verifying EXCEPT ![t].phase = "nonce"]
              /\ UNCHANGED <<audit, faults>>
        /\ UNCHANGED <<clock, records, seenNonces, admin, authority, accepted>>

\* _check_and_insert_nonce(), under the lock: prune, look, keep.  The nonce is pruned
\* and kept by the time verify() began.
SpendNonce(t) ==
    LET call == verifying[t]
        kept == PruneReplayCache(seenNonces, call.now)
        replayed == \E entry \in kept : entry.nonce = call.request.nonce
    IN  /\ call.phase = "nonce"
        /\ \/ /\ replayed
              /\ seenNonces' = kept
              /\ Fail(t, call, "replay")
              /\ UNCHANGED accepted
           \/ /\ ~replayed
              /\ seenNonces' = kept \cup {[nonce |-> call.request.nonce, at |-> call.now]}
              /\ verifying' = [verifying EXCEPT ![t].phase = "verified"]
              /\ accepted' = accepted \cup
                     {[task |-> t, request |-> call.request, read |-> call.now,
                       spent |-> clock]}
              /\ UNCHANGED <<audit, faults>>
        /\ UNCHANGED <<clock, records, admin, authority>>

\* A record changes while requests are verified.
SetRecords(table) ==
    /\ records' = table
    /\ authority' = [t \in Tasks |-> authority[t] \cup GoodNow(table)]

\* The host registers an agent, perhaps anew with another key, or revokes one.
AdminRegister(agent, key) ==
    /\ admin < MaxAdmin
    /\ admin' = admin + 1
    /\ SetRecords(WithRecord(agent, key))
    /\ UNCHANGED <<clock, seenNonces, audit, verifying, faults, accepted>>

AdminRevoke(agent) ==
    /\ admin < MaxAdmin
    /\ records[agent] # None
    /\ admin' = admin + 1
    /\ SetRecords([records EXCEPT ![agent].revoked = TRUE])
    /\ UNCHANGED <<clock, seenNonces, audit, verifying, faults, accepted>>

Tick ==
    /\ clock < MaxClock
    /\ clock' = clock + 1
    /\ UNCHANGED <<records, seenNonces, audit, verifying, admin, faults, authority, accepted>>

-----------------------------------------------------------------------------

IdentityTypeOK ==
    /\ clock \in 0..MaxClock
    /\ \A a \in Agents : records[a] = None \/ records[a] \in [key : Keys, revoked : BOOLEAN]
    /\ \A entry \in seenNonces : entry.at \in 0..clock
    /\ \A t \in Tasks :
           /\ verifying[t].phase \in {"none", "lookup", "nonce", "verified", "refused", "broken"}
           /\ verifying[t].now \in 0..clock
           /\ authority[t] \subseteq Agents \X Keys
    /\ admin \in 0..MaxAdmin
    /\ faults \in 0..MaxFaults

\* A nonce buys one request for as long as the window lasts: when the same nonce was
\* accepted twice, the clock had passed the time read for one acceptance by more than
\* the window when the other was made.
NoncesBuyOneRequest ==
    \A x \in accepted, y \in accepted :
        (x # y /\ x.request.nonce = y.request.nonce) =>
            \/ y.spent > x.read + ReplayWindow
            \/ x.spent > y.read + ReplayWindow

=============================================================================
