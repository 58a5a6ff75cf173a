--------------------------- MODULE Mailbox_proofs ---------------------------
(***************************************************************************)
(* What an agent reads from its server, proved about Mailbox for any       *)
(* channels, filters, limits and number of messages and restarts: while    *)
(* watch() does not fail nothing is returned twice, and nothing out of     *)
(* order unless a filtered drain put messages back; and whatever reached   *)
(* the buffer is in it, in an answer being made, or returned.              *)
(***************************************************************************)
EXTENDS Mailbox, TLAPS, FiniteSetTheorems, SequenceTheorems, WellFoundedInduction

Calls == [kept : Seq(Nat), channels : Filters, max_messages : Limits]

TypeInv ==
    /\ messages \in Seq(Channels)
    /\ settled \subseteq DOMAIN messages
    /\ last_seen_id \in Nat
    /\ queue \in Seq(Nat)
    /\ received \in Seq(Nat)
    /\ call \in {None} \cup Calls
    /\ watching \in BOOLEAN
    /\ erred \in BOOLEAN
    /\ requeued \in BOOLEAN

\* What travels was sent.
StoredInv == Range(Pipeline) \subseteq DOMAIN messages

\* The cursor of a watch() that never failed has passed all it ever yielded.
CursorInv ==
    ~erred => watching /\ \A i \in Range(Pipeline) : i <= last_seen_id

-----------------------------------------------------------------------------
(* Sequences whose earlier and later members are related.                  *)

Pairs(s, Q) == \A x, y \in DOMAIN s : x < y => <<s[x], s[y]>> \in Q

Apart == {p \in Nat \X Nat : p[1] # p[2]}

InOrder(m) == {p \in Nat \X Nat : m[p[1]] = m[p[2]] => p[1] < p[2]}

\* RecvReturnsOnce and RecvKeepsOrder in these terms.
OnceInv == ~erred => Pairs(Pipeline, Apart)

OrderInv == (~erred /\ ~requeued) => Pairs(Pipeline, InOrder(messages))

Inv ==
    /\ TypeInv
    /\ StoredInv
    /\ CursorInv
    /\ OnceInv
    /\ OrderInv
    /\ BufferKeepsMessages

LEMMA RangeConcat ==
    ASSUME NEW s \in Seq(Nat), NEW t \in Seq(Nat)
    PROVE  Range(s \o t) = Range(s) \cup Range(t)
<1>1. /\ s \o t \in Seq(Nat)
      /\ Len(s \o t) = Len(s) + Len(t)
      /\ \A i \in 1 .. Len(s) + Len(t) :
            (s \o t)[i] = IF i <= Len(s) THEN s[i] ELSE t[i - Len(s)]
  BY ConcatProperties
<1>2. /\ DOMAIN s = 1 .. Len(s) /\ Len(s) \in Nat
      /\ DOMAIN t = 1 .. Len(t) /\ Len(t) \in Nat
      /\ DOMAIN (s \o t) = 1 .. Len(s) + Len(t)
  BY <1>1, LenProperties
<1>3. ASSUME NEW e \in Range(s \o t) PROVE e \in Range(s) \cup Range(t)
  <2>1. PICK i \in 1 .. Len(s) + Len(t) : e = (s \o t)[i]
    BY <1>2, <1>3 DEF Range
  <2>2. CASE i <= Len(s)
    <3>1. i \in DOMAIN s /\ e = s[i]
      BY <1>1, <1>2, <2>1, <2>2
    <3> QED BY <3>1 DEF Range
  <2>3. CASE i > Len(s)
    <3>1. i - Len(s) \in DOMAIN t /\ e = t[i - Len(s)]
      BY <1>1, <1>2, <2>1, <2>3
    <3> QED BY <3>1 DEF Range
  <2> QED BY <1>2, <2>2, <2>3
<1>4. ASSUME NEW i \in DOMAIN s PROVE s[i] \in Range(s \o t)
  <2>1. i \in DOMAIN (s \o t) /\ (s \o t)[i] = s[i]
    BY <1>1, <1>2
  <2> QED BY <2>1 DEF Range
<1>5. ASSUME NEW i \in DOMAIN t PROVE t[i] \in Range(s \o t)
  <2>1. i + Len(s) \in 1 .. Len(s) + Len(t) /\ ~(i + Len(s) <= Len(s))
    BY <1>2
  <2>2. (i + Len(s)) - Len(s) = i
    BY <1>2
  <2>3. i + Len(s) \in DOMAIN (s \o t) /\ (s \o t)[i + Len(s)] = t[i]
    BY <1>1, <1>2, <2>1, <2>2
  <2> QED BY <2>3 DEF Range
<1> QED BY <1>3, <1>4, <1>5 DEF Range

LEMMA PairsConcat ==
    ASSUME NEW s \in Seq(Nat), NEW t \in Seq(Nat), NEW Q
    PROVE  Pairs(s \o t, Q) <=>
               Pairs(s, Q) /\ Pairs(t, Q) /\ Range(s) \X Range(t) \subseteq Q
<1>1. /\ s \o t \in Seq(Nat)
      /\ Len(s \o t) = Len(s) + Len(t)
      /\ \A i \in 1 .. Len(s) + Len(t) :
            (s \o t)[i] = IF i <= Len(s) THEN s[i] ELSE t[i - Len(s)]
  BY ConcatProperties
<1>2. /\ DOMAIN s = 1 .. Len(s) /\ Len(s) \in Nat
      /\ DOMAIN t = 1 .. Len(t) /\ Len(t) \in Nat
      /\ DOMAIN (s \o t) = 1 .. Len(s) + Len(t)
  BY <1>1, LenProperties
<1>3. \A i \in DOMAIN s : i \in DOMAIN (s \o t) /\ (s \o t)[i] = s[i]
  BY <1>1, <1>2
<1>4. \A i \in DOMAIN t :
         /\ i + Len(s) \in DOMAIN (s \o t)
         /\ (s \o t)[i + Len(s)] = t[i]
  <2> TAKE i \in DOMAIN t
  <2>1. i + Len(s) \in 1 .. Len(s) + Len(t) /\ ~(i + Len(s) <= Len(s))
    BY <1>2
  <2>2. (i + Len(s)) - Len(s) = i
    BY <1>2
  <2> QED BY <1>1, <1>2, <2>1, <2>2
<1>5. ASSUME Pairs(s \o t, Q)
      PROVE  Pairs(s, Q) /\ Pairs(t, Q) /\ Range(s) \X Range(t) \subseteq Q
  <2>1. Pairs(s, Q)
    BY <1>3, <1>5 DEF Pairs
  <2>2. ASSUME NEW x \in DOMAIN t, NEW y \in DOMAIN t, x < y
        PROVE  <<t[x], t[y]>> \in Q
    <3>1. x + Len(s) < y + Len(s)
      BY <1>2, <2>2
    <3> QED BY <1>4, <1>5, <3>1 DEF Pairs
  <2>3. ASSUME NEW x \in DOMAIN s, NEW y \in DOMAIN t
        PROVE  <<s[x], t[y]>> \in Q
    <3>1. x < y + Len(s)
      BY <1>2
    <3> QED BY <1>3, <1>4, <1>5, <3>1 DEF Pairs
  <2>4. Range(s) \X Range(t) \subseteq Q
    BY <2>3 DEF Range
  <2> QED BY <2>1, <2>2, <2>4 DEF Pairs
<1>6. ASSUME Pairs(s, Q), Pairs(t, Q), Range(s) \X Range(t) \subseteq Q
      PROVE  Pairs(s \o t, Q)
  <2> SUFFICES ASSUME NEW x \in 1 .. Len(s) + Len(t), NEW y \in 1 .. Len(s) + Len(t),
                      x < y
               PROVE  <<(s \o t)[x], (s \o t)[y]>> \in Q
    BY <1>2 DEF Pairs
  <2>1. CASE y <= Len(s)
    <3>1. x \in DOMAIN s /\ y \in DOMAIN s
      BY <1>2, <2>1
    <3> QED BY <1>3, <1>6, <3>1 DEF Pairs
  <2>2. CASE x > Len(s)
    <3>1. /\ x - Len(s) \in DOMAIN t /\ y - Len(s) \in DOMAIN t
          /\ x - Len(s) < y - Len(s)
      BY <1>2, <2>2
    <3>2. (s \o t)[x] = t[x - Len(s)] /\ (s \o t)[y] = t[y - Len(s)]
      BY <1>1, <1>2, <2>2
    <3> QED BY <1>6, <3>1, <3>2 DEF Pairs
  <2>3. CASE x <= Len(s) /\ y > Len(s)
    <3>1. x \in DOMAIN s /\ y - Len(s) \in DOMAIN t
      BY <1>2, <2>3
    <3>2. (s \o t)[x] = s[x] /\ (s \o t)[y] = t[y - Len(s)]
      BY <1>1, <1>2, <2>3
    <3>3. <<s[x], t[y - Len(s)]>> \in Range(s) \X Range(t)
      BY <3>1 DEF Range
    <3> QED BY <1>6, <3>2, <3>3
  <2>4. y <= Len(s) \/ x > Len(s) \/ (x <= Len(s) /\ y > Len(s))
    BY <1>2
  <2> QED BY <2>1, <2>2, <2>3, <2>4
<1> QED BY <1>5, <1>6

LEMMA MaxIs ==
    ASSUME NEW n \in Nat, NEW S \in SUBSET (0 .. n), S # {}
    PROVE  Max(S) \in S /\ \A y \in S : y <= Max(S)
<1> DEFINE bounds == {u \in Nat : \A y \in S : y <= u}
<1>1. n \in bounds
  OBVIOUS
<1>2. PICK u \in bounds : \A v \in bounds : ~ (<<v, u>> \in OpToRel(<, Nat))
  <2>1. bounds \subseteq Nat /\ bounds # {}
    BY <1>1
  <2> HIDE DEF bounds
  <2> QED BY <2>1, NatLessThanWellFounded, WFMin
<1>3. \A v \in bounds : ~ (v < u)
  BY <1>2 DEF OpToRel
<1>4. u \in S
  <2> SUFFICES ASSUME u \notin S PROVE FALSE
    OBVIOUS
  <2>1. PICK y \in S : TRUE
    OBVIOUS
  <2>2. u # 0
    BY <2>1
  <2>3. u - 1 \in bounds /\ u - 1 < u
    BY <2>2
  <2> QED BY <1>3, <2>3
<1>5. \E x \in S : \A y \in S : x >= y
  BY <1>4
<1> QED BY <1>5 DEF Max

LEMMA MinIs ==
    ASSUME NEW a \in Nat, NEW b \in Nat
    PROVE  Min({a, b}) \in Nat /\ Min({a, b}) <= b
<1>1. \E x \in {a, b} : \A y \in {a, b} : x <= y
  OBVIOUS
<1>2. Min({a, b}) \in {a, b} /\ \A y \in {a, b} : Min({a, b}) <= y
  BY <1>1 DEF Min
<1> QED BY <1>2

-----------------------------------------------------------------------------
(* Listings and the two halves of a drain.                                 *)

LEMMA FunctionIsSeq ==
    ASSUME NEW n \in Nat, NEW g \in [1 .. n -> Nat]
    PROVE  g \in Seq(Nat)
OBVIOUS

\* Messages read at positions listed first to last keep their order.
LEMMA FirstFirstIs ==
    ASSUME queue \in Seq(Nat), NEW S \in SUBSET DOMAIN queue, NEW Q,
           NEW l \in Listings(S, FirstFirst)
    PROVE  /\ QueueAt(l) \in Seq(Nat)
           /\ Range(QueueAt(l)) = {queue[x] : x \in S}
           /\ Pairs(queue, Q) => Pairs(QueueAt(l), Q)
<1>1. IsFiniteSet(S) /\ Cardinality(S) \in Nat
  <2>1. DOMAIN queue = 1 .. Len(queue) /\ Len(queue) \in Nat
    BY LenProperties
  <2>2. IsFiniteSet(DOMAIN queue)
    BY <2>1, FS_Interval
  <2> QED BY <2>2, FS_Subset, FS_CardinalityType
<1>2. /\ l \in [1 .. Cardinality(S) -> S]
      /\ S \subseteq Range(l)
      /\ \A x, y \in DOMAIN l : x < y => l[x] < l[y]
  BY DEF Listings, FirstFirst
<1>3. \A x \in DOMAIN queue : queue[x] \in Nat
  BY LenProperties, ElementOfSeq
<1>4. QueueAt(l) \in [1 .. Cardinality(S) -> Nat]
  BY <1>2, <1>3 DEF QueueAt
<1>5. QueueAt(l) \in Seq(Nat)
  BY <1>1, <1>4, FunctionIsSeq
<1>6. Range(QueueAt(l)) = {queue[x] : x \in S}
  BY <1>2 DEF Range, QueueAt
<1>7. ASSUME Pairs(queue, Q) PROVE Pairs(QueueAt(l), Q)
  <2> SUFFICES ASSUME NEW x \in DOMAIN l, NEW y \in DOMAIN l, x < y
               PROVE  <<queue[l[x]], queue[l[y]]>> \in Q
    BY DEF Pairs, QueueAt
  <2>1. l[x] \in DOMAIN queue /\ l[y] \in DOMAIN queue /\ l[x] < l[y]
    BY <1>2
  <2> QED BY <1>7, <2>1 DEF Pairs
<1> QED BY <1>5, <1>6, <1>7

\* Messages read at positions listed last to first are still different ones.
LEMMA LastFirstIs ==
    ASSUME queue \in Seq(Nat), NEW S \in SUBSET DOMAIN queue,
           NEW l \in Listings(S, LastFirst)
    PROVE  /\ QueueAt(l) \in Seq(Nat)
           /\ Range(QueueAt(l)) = {queue[x] : x \in S}
           /\ S = {} => QueueAt(l) = <<>>
           /\ Pairs(queue, Apart) => Pairs(QueueAt(l), Apart)
<1>1. IsFiniteSet(S) /\ Cardinality(S) \in Nat /\ DOMAIN queue \subseteq Nat
  <2>1. DOMAIN queue = 1 .. Len(queue) /\ Len(queue) \in Nat
    BY LenProperties
  <2>2. IsFiniteSet(DOMAIN queue)
    BY <2>1, FS_Interval
  <2> QED BY <2>1, <2>2, FS_Subset, FS_CardinalityType
<1>2. /\ l \in [1 .. Cardinality(S) -> S]
      /\ S \subseteq Range(l)
      /\ \A x, y \in DOMAIN l : x < y => l[x] > l[y]
  BY DEF Listings, LastFirst
<1>3. \A x \in DOMAIN queue : queue[x] \in Nat
  BY LenProperties, ElementOfSeq
<1>4. QueueAt(l) \in [1 .. Cardinality(S) -> Nat]
  BY <1>2, <1>3 DEF QueueAt
<1>5. QueueAt(l) \in Seq(Nat)
  BY <1>1, <1>4, FunctionIsSeq
<1>6. Range(QueueAt(l)) = {queue[x] : x \in S}
  BY <1>2 DEF Range, QueueAt
<1>7. ASSUME S = {} PROVE QueueAt(l) = <<>>
  <2>1. Cardinality(S) = 0
    BY <1>7, FS_EmptySet
  <2>2. DOMAIN QueueAt(l) = 1 .. 0
    BY <1>4, <2>1
  <2>3. Len(QueueAt(l)) = 0
    BY <1>5, <2>2, LenProperties
  <2> QED BY <1>5, <2>3, EmptySeq
<1>8. ASSUME Pairs(queue, Apart) PROVE Pairs(QueueAt(l), Apart)
  <2> SUFFICES ASSUME NEW x \in DOMAIN l, NEW y \in DOMAIN l, x < y
               PROVE  <<queue[l[x]], queue[l[y]]>> \in Apart
    BY DEF Pairs, QueueAt
  <2>1. l[x] \in DOMAIN queue /\ l[y] \in DOMAIN queue /\ l[y] < l[x]
    BY <1>1, <1>2
  <2>2. <<queue[l[y]], queue[l[x]]>> \in Apart
    BY <1>8, <2>1 DEF Pairs
  <2> QED BY <2>2 DEF Apart
<1> QED BY <1>5, <1>6, <1>7, <1>8

\* A round of watch() lists new messages, each once, by channel and age.
LEMMA YieldedIs ==
    ASSUME MailboxAssumption, messages \in Seq(Channels),
           NEW l \in Listings(NewIds, WatchOrder)
    PROVE  /\ l \in Seq(Nat)
           /\ Range(l) = NewIds
           /\ Pairs(l, Apart)
           /\ Pairs(l, InOrder(messages))
<1>1. /\ DOMAIN messages = 1 .. Len(messages)
      /\ Len(messages) \in Nat
      /\ NewIds \subseteq 1 .. Len(messages)
      /\ NewIds \subseteq Nat
  BY LenProperties DEF NewIds
<1>2. Cardinality(NewIds) \in Nat
  <2>1. IsFiniteSet(1 .. Len(messages))
    BY <1>1, FS_Interval
  <2> QED BY <1>1, <2>1, FS_Subset, FS_CardinalityType
<1>3. /\ l \in [1 .. Cardinality(NewIds) -> NewIds]
      /\ NewIds \subseteq Range(l)
      /\ \A x, y \in DOMAIN l : x < y => WatchOrder(l[x], l[y])
  BY DEF Listings
<1>4. l \in Seq(Nat)
  <2>1. l \in [1 .. Cardinality(NewIds) -> Nat]
    BY <1>1, <1>3
  <2> QED BY <1>2, <2>1, FunctionIsSeq
<1>5. Range(l) = NewIds
  BY <1>3 DEF Range
<1>6. ASSUME NEW i \in NewIds, NEW j \in NewIds, WatchOrder(i, j)
      PROVE  i # j /\ (messages[i] = messages[j] => i < j)
  <2>1. /\ i \in Nat /\ j \in Nat
        /\ messages[i] \in Channels /\ messages[j] \in Channels
    BY <1>1, ElementOfSeq
  <2>2. Rank[messages[i]] \in Nat /\ Rank[messages[j]] \in Nat
    BY <2>1 DEF MailboxAssumption
  <2>3. \/ Rank[messages[i]] < Rank[messages[j]]
        \/ messages[i] = messages[j] /\ i < j
    BY <1>6 DEF WatchOrder
  <2>4. CASE Rank[messages[i]] < Rank[messages[j]]
    <3>1. messages[i] # messages[j]
      BY <2>2, <2>4
    <3> QED BY <3>1
  <2>5. CASE messages[i] = messages[j] /\ i < j
    BY <2>1, <2>5
  <2> QED BY <2>3, <2>4, <2>5
<1>7. ASSUME NEW x \in DOMAIN l, NEW y \in DOMAIN l, x < y
      PROVE  <<l[x], l[y]>> \in Apart /\ <<l[x], l[y]>> \in InOrder(messages)
  <2>1. l[x] \in NewIds /\ l[y] \in NewIds /\ WatchOrder(l[x], l[y])
    BY <1>3, <1>7
  <2>2. l[x] # l[y] /\ (messages[l[x]] = messages[l[y]] => l[x] < l[y])
    BY <1>6, <2>1
  <2>3. l[x] \in Nat /\ l[y] \in Nat
    BY <1>1, <2>1
  <2> QED BY <2>2, <2>3 DEF Apart, InOrder
<1> QED BY <1>4, <1>5, <1>7 DEF Pairs

-----------------------------------------------------------------------------
(* Types.                                                                  *)

LEMMA RecvIdsStored ==
    ASSUME NEW f, NEW k
    PROVE  RecvIds(f, k) \subseteq DOMAIN messages
BY DEF RecvIds

\* A drain of n positions that keeps those listed first to last in kept and puts
\* back those listed last to first in rejected.
DrainTakes(f, k, n, kept, rejected) ==
    /\ call = None
    /\ call' = [kept |-> QueueAt(kept), channels |-> f, max_messages |-> k]
    /\ queue' = SubSeq(queue, n + 1, Len(queue)) \o QueueAt(rejected)

LEMMA DrainIs ==
    ASSUME MailboxAssumption, TypeInv, NEW f \in Filters, NEW k \in Limits, Drain(f, k)
    PROVE  \E n \in 0 .. Len(queue) : \E K \in SUBSET (1 .. n) :
              /\ \E kept \in Listings(K, FirstFirst) :
                 \E rejected \in Listings((1 .. n) \ K, LastFirst) :
                    DrainTakes(f, k, n, kept, rejected)
              /\ requeued' = (requeued \/ (1 .. n) \ K # {})
<1>1. Len(queue) \in Nat /\ k \in Nat
  BY LenProperties DEF TypeInv, MailboxAssumption
<1>2. PopCount(k) \in 0 .. Len(queue)
  BY <1>1, MinIs DEF PopCount
<1>3. KeptOf(Popped(k), f) \in SUBSET (1 .. PopCount(k))
  BY DEF KeptOf, Popped
<1>4. /\ call = None
      /\ \E kept \in Listings(KeptOf(Popped(k), f), FirstFirst) :
            call' = [kept |-> QueueAt(kept), channels |-> f, max_messages |-> k]
      /\ \E rejected \in Listings(Popped(k) \ KeptOf(Popped(k), f), LastFirst) :
            queue' = Rest(k) \o QueueAt(rejected)
      /\ requeued' = (requeued \/ Popped(k) \ KeptOf(Popped(k), f) # {})
  BY DEF Drain
<1>5. PICK kept \in Listings(KeptOf(Popped(k), f), FirstFirst) :
          call' = [kept |-> QueueAt(kept), channels |-> f, max_messages |-> k]
  BY <1>4
<1>6. PICK rejected \in Listings(Popped(k) \ KeptOf(Popped(k), f), LastFirst) :
          queue' = Rest(k) \o QueueAt(rejected)
  BY <1>4
<1>7. Popped(k) = 1 .. PopCount(k)
  BY DEF Popped
<1>8. Rest(k) = SubSeq(queue, PopCount(k) + 1, Len(queue))
  BY DEF Rest
<1>9. rejected \in Listings((1 .. PopCount(k)) \ KeptOf(Popped(k), f), LastFirst)
  BY <1>6, <1>7
<1>10. requeued' = (requeued \/ (1 .. PopCount(k)) \ KeptOf(Popped(k), f) # {})
  BY <1>4, <1>7
<1>11. queue' = SubSeq(queue, PopCount(k) + 1, Len(queue)) \o QueueAt(rejected)
  BY <1>6, <1>8
<1>12. DrainTakes(f, k, PopCount(k), kept, rejected)
  BY <1>4, <1>5, <1>11 DEF DrainTakes
<1> QED BY <1>2, <1>3, <1>5, <1>9, <1>10, <1>12

\* The messages a drain has not reached.
LEMMA RestIs ==
    ASSUME queue \in Seq(Nat), NEW n \in 0 .. Len(queue), NEW Q
    PROVE  /\ SubSeq(queue, n + 1, Len(queue)) \in Seq(Nat)
           /\ Range(SubSeq(queue, n + 1, Len(queue)))
                = {queue[x] : x \in n + 1 .. Len(queue)}
           /\ Pairs(queue, Q) => Pairs(SubSeq(queue, n + 1, Len(queue)), Q)
<1> DEFINE L == Len(queue)
           rest == SubSeq(queue, n + 1, L)
<1>1. L \in Nat /\ DOMAIN queue = 1 .. L /\ n \in 0 .. L
  BY LenProperties
<1> HIDE DEF L
<1>2. \A i \in n + 1 .. L : queue[i] \in Nat
  BY <1>1, ElementOfSeq
<1>3. /\ rest \in Seq(Nat)
      /\ Len(rest) = IF n + 1 <= L THEN L - (n + 1) + 1 ELSE 0
      /\ \A i \in 1 .. L - (n + 1) + 1 : rest[i] = queue[(n + 1) + i - 1]
  BY <1>1, <1>2, SubSeqProperties
<1>4. DOMAIN rest = 1 .. L - n /\ \A i \in 1 .. L - n : rest[i] = queue[n + i]
  <2>1. DOMAIN rest = 1 .. Len(rest)
    BY <1>3, LenProperties
  <2>2. Len(rest) = L - n
    <3>1. n \in Nat /\ n <= L
      BY <1>1
    <3>2. CASE n + 1 <= L
      <4>1. Len(rest) = L - (n + 1) + 1
        BY <1>3, <3>2
      <4> QED BY <1>1, <3>1, <4>1
    <3>3. CASE n + 1 > L
      <4>1. ~ (n + 1 <= L) /\ n = L
        BY <1>1, <3>1, <3>3
      <4>2. Len(rest) = 0
        BY <1>3, <4>1
      <4> QED BY <1>1, <4>1, <4>2
    <3> QED BY <1>1, <3>1, <3>2, <3>3
  <2>3. \A i \in 1 .. L - n : (n + 1) + i - 1 = n + i
    BY <1>1
  <2>4. L - (n + 1) + 1 = L - n
    BY <1>1
  <2> QED BY <1>3, <2>1, <2>2, <2>3, <2>4
<1> HIDE DEF rest
<1>5. Range(rest) = {queue[x] : x \in n + 1 .. L}
  <2>1. ASSUME NEW x \in n + 1 .. L PROVE queue[x] \in Range(rest)
    <3>1. x - n \in 1 .. L - n /\ n + (x - n) = x
      BY <1>1
    <3>2. rest[x - n] = queue[x]
      BY <1>4, <3>1
    <3> QED BY <1>4, <3>1, <3>2 DEF Range
  <2>2. ASSUME NEW i \in 1 .. L - n
        PROVE  rest[i] \in {queue[x] : x \in n + 1 .. L}
    <3>1. n + i \in n + 1 .. L
      BY <1>1
    <3> QED BY <1>4, <3>1
  <2>3. Range(rest) = {rest[i] : i \in 1 .. L - n}
    BY <1>4 DEF Range
  <2> QED BY <2>1, <2>2, <2>3
<1>6. ASSUME Pairs(queue, Q) PROVE Pairs(rest, Q)
  <2> SUFFICES ASSUME NEW x \in 1 .. L - n, NEW y \in 1 .. L - n, x < y
               PROVE  <<queue[n + x], queue[n + y]>> \in Q
    BY <1>4 DEF Pairs
  <2>1. n + x \in DOMAIN queue /\ n + y \in DOMAIN queue /\ n + x < n + y
    BY <1>1
  <2> QED BY <1>6, <2>1 DEF Pairs
<1> QED BY <1>3, <1>5, <1>6 DEF rest, L

LEMMA TypeInit == Init => TypeInv
<1> SUFFICES ASSUME Init PROVE TypeInv
  OBVIOUS
<1>1. <<>> \in Seq(Channels) /\ <<>> \in Seq(Nat) /\ DOMAIN messages = {}
  BY EmptySeq DEF Init
<1> QED BY <1>1 DEF Init, TypeInv

LEMMA TypeDrain ==
    ASSUME MailboxAssumption, TypeInv, NEW f \in Filters, NEW k \in Limits, Drain(f, k)
    PROVE  queue' \in Seq(Nat) /\ call' \in Calls
<1>0. PICK n \in 0 .. Len(queue) : \E K \in SUBSET (1 .. n) :
         /\ \E kept \in Listings(K, FirstFirst) :
            \E rejected \in Listings((1 .. n) \ K, LastFirst) :
               DrainTakes(f, k, n, kept, rejected)
         /\ requeued' = (requeued \/ (1 .. n) \ K # {})
  BY DrainIs
<1>1. PICK K \in SUBSET (1 .. n) :
         /\ \E kept \in Listings(K, FirstFirst) :
            \E rejected \in Listings((1 .. n) \ K, LastFirst) :
               DrainTakes(f, k, n, kept, rejected)
         /\ requeued' = (requeued \/ (1 .. n) \ K # {})
  BY <1>0
<1>2. PICK kept \in Listings(K, FirstFirst), rejected \in Listings((1 .. n) \ K, LastFirst) :
         DrainTakes(f, k, n, kept, rejected)
  BY <1>1
<1>3. queue \in Seq(Nat) /\ 1 .. n \subseteq DOMAIN queue
  BY LenProperties DEF TypeInv
<1>4. K \in SUBSET DOMAIN queue /\ (1 .. n) \ K \in SUBSET DOMAIN queue
  BY <1>3
<1>5. QueueAt(kept) \in Seq(Nat) /\ QueueAt(rejected) \in Seq(Nat)
  BY <1>3, <1>4, FirstFirstIs, LastFirstIs
<1>6. SubSeq(queue, n + 1, Len(queue)) \in Seq(Nat)
  BY <1>3, RestIs
<1>7. queue' \in Seq(Nat)
  BY <1>2, <1>5, <1>6, ConcatProperties DEF DrainTakes
<1>8. call' \in Calls
  BY <1>2, <1>5 DEF DrainTakes, Calls
<1> QED BY <1>7, <1>8

LEMMA TypeStep ==
    ASSUME MailboxAssumption, TypeInv, [Next]_vars
    PROVE  TypeInv'
<1> USE DEF TypeInv
<1>1. CASE UNCHANGED vars
  BY <1>1 DEF vars
<1>2. ASSUME NEW c \in Channels, Send(c) PROVE TypeInv'
  <2>1. /\ messages' \in Seq(Channels)
        /\ Len(messages') = Len(messages) + 1
    BY <1>2, AppendProperties DEF Send
  <2>2. DOMAIN messages \subseteq DOMAIN messages'
    BY <2>1, LenProperties
  <2> QED BY <1>2, <2>1, <2>2 DEF Send
<1>3. ASSUME NEW c \in Channels, Subscribe(c) PROVE TypeInv'
  BY <1>3 DEF Subscribe, history
<1>4. ASSUME NEW c \in Channels, Unsubscribe(c) PROVE TypeInv'
  BY <1>4 DEF Unsubscribe
<1>5. ASSUME Max(settled \cup {0}) \notin Nat PROVE FALSE
  <2>1. DOMAIN messages = 1 .. Len(messages) /\ Len(messages) \in Nat
    BY LenProperties
  <2>2. settled \cup {0} \in SUBSET (0 .. Len(messages))
    BY <2>1
  <2>3. Max(settled \cup {0}) \in settled \cup {0}
    BY <2>1, <2>2, MaxIs
  <2> QED BY <1>5, <2>1, <2>2, <2>3
<1>6. CASE WatchStart
  BY <1>5, <1>6 DEF WatchStart, history
<1>7. CASE WatchFetch
  <2>1. DOMAIN messages = 1 .. Len(messages) /\ Len(messages) \in Nat
    BY LenProperties
  <2>2. NewIds \in SUBSET (0 .. Len(messages)) /\ NewIds \subseteq Nat
    BY <2>1 DEF NewIds
  <2>3. last_seen_id' \in Nat
    BY <1>7, <2>1, <2>2, MaxIs DEF WatchFetch
  <2>4. PICK l \in Listings(NewIds, WatchOrder) : queue' = queue \o l
    BY <1>7 DEF WatchFetch
  <2>5. queue' \in Seq(Nat)
    BY <2>4, YieldedIs, ConcatProperties
  <2> QED BY <1>7, <2>3, <2>5 DEF WatchFetch
<1>8. CASE WatchError
  BY <1>8 DEF WatchError
<1>9. CASE Restart
  <2>1. <<>> \in Seq(Nat)
    BY EmptySeq
  <2> QED BY <1>5, <1>9, <2>1 DEF Restart, FreshServer
<1>10. ASSUME NEW f \in Filters, NEW k \in Limits, Drain(f, k) PROVE TypeInv'
  <2>1. queue' \in Seq(Nat) /\ call' \in Calls
    BY <1>10, TypeDrain
  <2>2. requeued' \in BOOLEAN
    BY <1>10 DEF Drain
  <2> QED BY <1>10, <2>1, <2>2 DEF Drain
<1>11. ASSUME call # None, received' = received \o call.kept
       PROVE  received' \in Seq(Nat)
  <2>1. call.kept \in Seq(Nat)
    BY <1>11 DEF Calls
  <2> QED BY <1>11, <2>1, ConcatProperties
<1>12. CASE Answer
  <2>1. RecvIds(call.channels, call.max_messages) \subseteq DOMAIN messages
    BY RecvIdsStored
  <2>2. received' \in Seq(Nat)
    BY <1>11, <1>12 DEF Answer
  <2> QED BY <1>12, <2>1, <2>2 DEF Answer
<1>13. CASE AnswerDespiteError
  <2>1. received' \in Seq(Nat)
    BY <1>11, <1>13 DEF AnswerDespiteError
  <2> QED BY <1>13, <2>1 DEF AnswerDespiteError
<1>14. ASSUME NEW c \in Channels, NEW k \in Limits, Collect(c, k) PROVE TypeInv'
  <2>1. RecvIds({c}, k) \subseteq DOMAIN messages
    BY RecvIdsStored
  <2> QED BY <1>14, <2>1 DEF Collect
<1> QED
  BY <1>1, <1>2, <1>3, <1>4, <1>6, <1>7, <1>8, <1>9, <1>10, <1>12, <1>13, <1>14
  DEF Next

-----------------------------------------------------------------------------
(* The pipeline, from its parts.                                           *)

LEMMA Parts ==
    TypeInv => /\ Kept \in Seq(Nat)
               /\ Pipeline \in Seq(Nat)
               /\ Range(Pipeline) = Range(received) \cup Range(Kept) \cup Range(queue)
<1> SUFFICES ASSUME TypeInv
             PROVE  /\ Kept \in Seq(Nat)
                    /\ Pipeline \in Seq(Nat)
                    /\ Range(Pipeline)
                         = Range(received) \cup Range(Kept) \cup Range(queue)
  OBVIOUS
<1>1. received \in Seq(Nat) /\ queue \in Seq(Nat)
  BY DEF TypeInv
<1>2. Kept \in Seq(Nat)
  BY EmptySeq DEF TypeInv, Kept, Calls
<1>3. received \o Kept \in Seq(Nat)
  BY <1>1, <1>2, ConcatProperties
<1>4. Pipeline \in Seq(Nat)
  BY <1>1, <1>3, ConcatProperties DEF Pipeline
<1>5. /\ Range(received \o Kept) = Range(received) \cup Range(Kept)
      /\ Range(Pipeline) = Range(received \o Kept) \cup Range(queue)
  BY <1>1, <1>2, <1>3, RangeConcat DEF Pipeline
<1> QED BY <1>2, <1>4, <1>5

LEMMA PartsNext ==
    (TypeInv => /\ Kept \in Seq(Nat)
                /\ Pipeline \in Seq(Nat)
                /\ Range(Pipeline) = Range(received) \cup Range(Kept) \cup Range(queue))'
BY Parts, PTL

\* Everything read later than something else stands in one of these relations.
AllPairs(r, k, q, Q) ==
    /\ Pairs(r, Q)
    /\ Pairs(k, Q)
    /\ Pairs(q, Q)
    /\ Range(r) \X Range(k) \subseteq Q
    /\ Range(r) \X Range(q) \subseteq Q
    /\ Range(k) \X Range(q) \subseteq Q

LEMMA ThreePairs ==
    ASSUME NEW r \in Seq(Nat), NEW k \in Seq(Nat), NEW q \in Seq(Nat), NEW Q
    PROVE  Pairs((r \o k) \o q, Q) <=> AllPairs(r, k, q, Q)
<1>1. r \o k \in Seq(Nat) /\ Range(r \o k) = Range(r) \cup Range(k)
  BY ConcatProperties, RangeConcat
<1>2. Pairs(r \o k, Q) <=> Pairs(r, Q) /\ Pairs(k, Q) /\ Range(r) \X Range(k) \subseteq Q
  BY PairsConcat
<1>3. Pairs((r \o k) \o q, Q) <=>
         Pairs(r \o k, Q) /\ Pairs(q, Q) /\ Range(r \o k) \X Range(q) \subseteq Q
  BY <1>1, PairsConcat
<1>4. Range(r \o k) \X Range(q) \subseteq Q <=>
         Range(r) \X Range(q) \subseteq Q /\ Range(k) \X Range(q) \subseteq Q
  BY <1>1
<1> QED BY <1>2, <1>3, <1>4 DEF AllPairs

\* A relation may be exchanged for one that agrees with it on what is in the sequence.
LEMMA PairsWiden ==
    ASSUME NEW s, NEW Q, NEW P, Pairs(s, Q),
           \A i, j \in Range(s) : <<i, j>> \in Q => <<i, j>> \in P
    PROVE  Pairs(s, P)
BY DEF Pairs, Range

\* Different positions of a sequence without repetitions hold different members.
LEMMA ApartProduct ==
    ASSUME NEW s \in Seq(Nat), Pairs(s, Apart),
           NEW S \in SUBSET DOMAIN s, NEW T \in SUBSET DOMAIN s, S \cap T = {}
    PROVE  {s[x] : x \in S} \X {s[y] : y \in T} \subseteq Apart
<1> SUFFICES ASSUME NEW x \in S, NEW y \in T
             PROVE  <<s[x], s[y]>> \in Apart
  OBVIOUS
<1>1. x \in Nat /\ y \in Nat /\ x # y
  BY LenProperties
<1>2. s[x] \in Nat /\ s[y] \in Nat
  BY LenProperties, ElementOfSeq
<1>3. CASE x < y
  BY <1>3 DEF Pairs
<1>4. CASE y < x
  <2>1. <<s[y], s[x]>> \in Apart
    BY <1>4 DEF Pairs
  <2> QED BY <1>2, <2>1 DEF Apart
<1> QED BY <1>1, <1>3, <1>4

\* A drain moves messages about: none is lost or doubled, and none changes
\* places with another unless some are put back.
LEMMA DrainKeeps ==
    ASSUME MailboxAssumption, TypeInv, TypeInv',
           NEW f \in Filters, NEW k \in Limits, Drain(f, k)
    PROVE  /\ Range(Pipeline') = Range(Pipeline)
           /\ Pairs(Pipeline, Apart) => Pairs(Pipeline', Apart)
           /\ ~requeued' => ~requeued
           /\ \A Q : ~requeued' /\ Pairs(Pipeline, Q) => Pairs(Pipeline', Q)
<1>0. PICK n \in 0 .. Len(queue) : \E K \in SUBSET (1 .. n) :
         /\ \E kept \in Listings(K, FirstFirst) :
            \E rejected \in Listings((1 .. n) \ K, LastFirst) :
               DrainTakes(f, k, n, kept, rejected)
         /\ requeued' = (requeued \/ (1 .. n) \ K # {})
  BY DrainIs
<1>1. PICK K \in SUBSET (1 .. n) :
         /\ \E kept \in Listings(K, FirstFirst) :
            \E rejected \in Listings((1 .. n) \ K, LastFirst) :
               DrainTakes(f, k, n, kept, rejected)
         /\ requeued' = (requeued \/ (1 .. n) \ K # {})
  BY <1>0
<1>2. PICK kept \in Listings(K, FirstFirst), rejected \in Listings((1 .. n) \ K, LastFirst) :
         DrainTakes(f, k, n, kept, rejected)
  BY <1>1
<1>3. /\ queue \in Seq(Nat) /\ received \in Seq(Nat)
      /\ DOMAIN queue = 1 .. Len(queue) /\ Len(queue) \in Nat
      /\ n \in Nat /\ n <= Len(queue)
  BY LenProperties DEF TypeInv
<1> DEFINE J == (1 .. n) \ K
           T == n + 1 .. Len(queue)
           ks == QueueAt(kept)
           rest == SubSeq(queue, n + 1, Len(queue))
           back == QueueAt(rejected)
<1>4. /\ K \in SUBSET DOMAIN queue
      /\ J \in SUBSET DOMAIN queue
      /\ T \in SUBSET DOMAIN queue
  BY <1>3
<1>5. /\ ks \in Seq(Nat)
      /\ Range(ks) = {queue[x] : x \in K}
      /\ \A Q : Pairs(queue, Q) => Pairs(ks, Q)
  BY <1>3, <1>4, FirstFirstIs
<1>6. /\ back \in Seq(Nat)
      /\ Range(back) = {queue[x] : x \in J}
      /\ J = {} => back = <<>>
      /\ Pairs(queue, Apart) => Pairs(back, Apart)
  BY <1>3, <1>4, LastFirstIs
<1>7. /\ rest \in Seq(Nat)
      /\ Range(rest) = {queue[x] : x \in T}
      /\ \A Q : Pairs(queue, Q) => Pairs(rest, Q)
  BY <1>3, RestIs
<1>8. /\ Kept = <<>> /\ Kept' = ks
      /\ received' = received
      /\ queue' = rest \o back
  <2>1. call = None /\ call' = [kept |-> ks, channels |-> f, max_messages |-> k]
    BY <1>2 DEF DrainTakes
  <2>2. call' # None
    BY <2>1, <1>5 DEF MailboxAssumption
  <2> QED BY <1>2, <2>1, <2>2 DEF DrainTakes, Kept, Drain
<1> HIDE DEF ks, rest, back
<1>9. Range(queue') = Range(rest) \cup Range(back)
  BY <1>6, <1>7, <1>8, RangeConcat
<1>10. DOMAIN queue = K \cup J \cup T
  <2>1. \A L \in Nat : n <= L => 1 .. L = (1 .. n) \cup (n + 1 .. L)
    BY <1>3
  <2>2. DOMAIN queue = (1 .. n) \cup T
    BY <1>3, <2>1
  <2>3. 1 .. n = K \cup J
    OBVIOUS
  <2> QED BY <2>2, <2>3
<1>11. Range(queue) = {queue[x] : x \in K} \cup {queue[x] : x \in J} \cup {queue[x] : x \in T}
  BY <1>10 DEF Range
<1>12. Range(<<>>) = {}
  BY DEF Range
<1>13. Range(Pipeline') = Range(Pipeline)
  BY <1>5, <1>6, <1>7, <1>8, <1>9, <1>11, <1>12, Parts, PartsNext
<1>14. ASSUME NEW Q, Pairs(Pipeline, Q)
       PROVE  /\ Pairs(received, Q)
              /\ Pairs(queue, Q)
              /\ Range(received) \X Range(queue) \subseteq Q
  <2>1. AllPairs(received, Kept, queue, Q)
    BY <1>3, <1>14, Parts, ThreePairs DEF Pipeline
  <2> QED BY <2>1 DEF AllPairs
<1>15. ASSUME NEW Q, Pairs(Pipeline, Q), Pairs(back, Q),
              Range(rest) \X Range(back) \subseteq Q,
              Range(ks) \X Range(queue') \subseteq Q
       PROVE  Pairs(Pipeline', Q)
  <2>1. /\ Pairs(received, Q) /\ Pairs(ks, Q) /\ Pairs(rest, Q)
        /\ Range(received) \X Range(queue) \subseteq Q
    BY <1>5, <1>7, <1>14, <1>15
  <2>2. Pairs(queue', Q)
    BY <1>6, <1>7, <1>8, <1>15, <2>1, PairsConcat
  <2>3. Range(received) \X Range(ks) \subseteq Q
    BY <1>5, <1>11, <2>1
  <2>4. Range(received) \X Range(queue') \subseteq Q
    BY <1>6, <1>7, <1>9, <1>11, <2>1
  <2>5. AllPairs(received, ks, queue', Q)
    BY <1>15, <2>1, <2>2, <2>3, <2>4 DEF AllPairs
  <2>6. queue' \in Seq(Nat)
    BY DEF TypeInv
  <2>7. Pairs((received \o ks) \o queue', Q)
    BY <1>3, <1>5, <2>5, <2>6, ThreePairs
  <2> QED BY <1>8, <2>7 DEF Pipeline
<1>16. ASSUME Pairs(Pipeline, Apart) PROVE Pairs(Pipeline', Apart)
  <2>1. Pairs(queue, Apart)
    BY <1>14, <1>16
  <2>2. Pairs(back, Apart)
    BY <1>6, <2>1
  <2>3. T \cap J = {} /\ K \cap T = {} /\ K \cap J = {}
    BY <1>3
  <2>4. Range(rest) \X Range(back) \subseteq Apart
    BY <1>3, <1>4, <1>6, <1>7, <2>1, <2>3, ApartProduct
  <2>5. Range(ks) \X Range(rest) \subseteq Apart
    BY <1>3, <1>4, <1>5, <1>7, <2>1, <2>3, ApartProduct
  <2>6. Range(ks) \X Range(back) \subseteq Apart
    BY <1>3, <1>4, <1>5, <1>6, <2>1, <2>3, ApartProduct
  <2>7. Range(ks) \X Range(queue') \subseteq Apart
    BY <1>9, <2>5, <2>6
  <2> QED BY <1>15, <1>16, <2>2, <2>4, <2>7
<1>17. ASSUME NEW Q, ~requeued', Pairs(Pipeline, Q) PROVE Pairs(Pipeline', Q)
  <2>1. J = {}
    BY <1>1, <1>17
  <2>2. Range(back) = {} /\ Pairs(back, Q)
    BY <1>6, <2>1 DEF Range, Pairs
  <2>3. Pairs(queue, Q)
    BY <1>14, <1>17
  <2>4. \A x \in K, y \in T : x < y
    BY <1>3
  <2>5. Range(ks) \X Range(rest) \subseteq Q
    <3>1. ASSUME NEW x \in K, NEW y \in T PROVE <<queue[x], queue[y]>> \in Q
      <4>1. x \in DOMAIN queue /\ y \in DOMAIN queue /\ x < y
        BY <1>4, <2>4
      <4> QED BY <2>3, <4>1 DEF Pairs
    <3> QED BY <1>5, <1>7, <3>1
  <2>6. Range(ks) \X Range(queue') \subseteq Q /\ Range(rest) \X Range(back) \subseteq Q
    BY <1>9, <2>2, <2>5
  <2> QED BY <1>15, <1>17, <2>2, <2>6
<1>18. ~requeued' => ~requeued
  BY <1>1
<1> QED BY <1>13, <1>16, <1>17, <1>18

-----------------------------------------------------------------------------
(* The invariant.                                                          *)

LEMMA InvInit == Init => Inv
<1> SUFFICES ASSUME Init PROVE Inv
  OBVIOUS
<1>1. TypeInv
  BY TypeInit
<1>2. Pipeline = <<>>
  BY EmptySeq, ConcatEmptySeq DEF Init, Pipeline, Kept
<1>3. Range(Pipeline) = {} /\ \A Q : Pairs(Pipeline, Q)
  BY <1>2 DEF Range, Pairs
<1>4. StoredInv /\ CursorInv /\ OnceInv /\ OrderInv /\ BufferKeepsMessages
  BY <1>3 DEF StoredInv, CursorInv, OnceInv, OrderInv, BufferKeepsMessages, Init
<1> QED BY <1>1, <1>4 DEF Inv

\* The steps that leave what travels, and the order it is in, alone.
Quiet ==
    /\ UNCHANGED <<messages, requeued, buffered, Pipeline>>
    /\ ~erred' => ~erred
    /\ (watching /\ ~erred') => UNCHANGED <<watching, last_seen_id>>

LEMMA QuietSteps ==
    ASSUME TypeInv, [Next]_vars
    PROVE  \/ Quiet
           \/ \E c \in Channels : Send(c)
           \/ WatchFetch
           \/ Restart
           \/ \E f \in Filters, k \in Limits : Drain(f, k)
<1>1. CASE UNCHANGED vars
  BY <1>1 DEF vars, Quiet, Pipeline, Kept
<1>2. ASSUME NEW c \in Channels, Subscribe(c) \/ Unsubscribe(c) PROVE Quiet
  <2>1. CASE Subscribe(c)
    BY <2>1 DEF Subscribe, history, Quiet, Pipeline, Kept
  <2>2. CASE Unsubscribe(c)
    BY <2>2 DEF Unsubscribe, Quiet, Pipeline, Kept
  <2> QED BY <1>2, <2>1, <2>2
<1>3. CASE WatchStart
  BY <1>3 DEF WatchStart, history, Quiet, Pipeline, Kept
<1>4. CASE WatchError
  BY <1>4 DEF WatchError, Quiet, Pipeline, Kept
<1>5. ASSUME NEW c \in Channels, NEW k \in Limits, Collect(c, k) PROVE Quiet
  BY <1>5 DEF Collect, Quiet, Pipeline, Kept
<1>6. ASSUME call # None, received' = received \o call.kept, call' = None, queue' = queue
      PROVE  Pipeline' = Pipeline
  <2>1. received \in Seq(Nat) /\ call.kept \in Seq(Nat)
    BY <1>6 DEF TypeInv, Calls
  <2>2. received \o call.kept \in Seq(Nat)
    BY <2>1, ConcatProperties
  <2>3. (received \o call.kept) \o <<>> = received \o call.kept
    BY <2>2, ConcatEmptySeq
  <2> QED BY <1>6, <2>3 DEF Pipeline, Kept
<1>7. CASE Answer
  BY <1>6, <1>7 DEF Answer, Quiet
<1>8. CASE AnswerDespiteError
  BY <1>6, <1>8 DEF AnswerDespiteError, Quiet
<1> QED BY <1>1, <1>2, <1>3, <1>4, <1>5, <1>7, <1>8 DEF Next

LEMMA QuietKeeps ==
    ASSUME Inv, Quiet, TypeInv' PROVE Inv'
<1>1. StoredInv'
  BY DEF Inv, Quiet, StoredInv
<1>2. CursorInv'
  BY DEF Inv, Quiet, CursorInv
<1>3. OnceInv' /\ OrderInv'
  BY DEF Inv, Quiet, OnceInv, OrderInv
<1>4. BufferKeepsMessages'
  BY DEF Inv, Quiet, BufferKeepsMessages
<1> QED BY <1>1, <1>2, <1>3, <1>4 DEF Inv

LEMMA SendKeeps ==
    ASSUME Inv, NEW c \in Channels, Send(c), TypeInv' PROVE Inv'
<1>1. Pipeline' = Pipeline
  BY DEF Send, Pipeline, Kept
<1>2. /\ DOMAIN messages \subseteq DOMAIN messages'
      /\ \A i \in DOMAIN messages : messages'[i] = messages[i]
  <2>1. messages \in Seq(Channels) /\ messages' = Append(messages, c)
    BY DEF Inv, TypeInv, Send
  <2>2. /\ messages' \in Seq(Channels)
        /\ Len(messages') = Len(messages) + 1
        /\ \A i \in 1 .. Len(messages) : messages'[i] = messages[i]
    BY <2>1, AppendProperties
  <2> QED BY <2>1, <2>2, LenProperties
<1>3. StoredInv'
  BY <1>1, <1>2 DEF Inv, StoredInv
<1>4. CursorInv' /\ OnceInv' /\ BufferKeepsMessages'
  BY <1>1 DEF Inv, CursorInv, OnceInv, BufferKeepsMessages, Send
<1>5. OrderInv'
  <2> SUFFICES ASSUME ~erred, ~requeued
               PROVE  Pairs(Pipeline, InOrder(messages'))
    BY <1>1 DEF OrderInv, Send
  <2>1. Pairs(Pipeline, InOrder(messages))
    BY DEF Inv, OrderInv
  <2>2. ASSUME NEW i \in Range(Pipeline), NEW j \in Range(Pipeline),
               <<i, j>> \in InOrder(messages)
        PROVE  <<i, j>> \in InOrder(messages')
    <3>1. i \in DOMAIN messages /\ j \in DOMAIN messages
      BY DEF Inv, StoredInv
    <3> QED BY <1>2, <2>2, <3>1 DEF InOrder
  <2> QED BY <2>1, <2>2, PairsWiden
<1> QED BY <1>3, <1>4, <1>5 DEF Inv

LEMMA FetchKeeps ==
    ASSUME MailboxAssumption, Inv, WatchFetch, TypeInv' PROVE Inv'
<1>1. /\ messages \in Seq(Channels) /\ Len(messages) \in Nat
      /\ DOMAIN messages = 1 .. Len(messages)
      /\ received \in Seq(Nat) /\ queue \in Seq(Nat) /\ last_seen_id \in Nat
      /\ TypeInv
  BY LenProperties DEF Inv, TypeInv
<1>2. /\ watching /\ watching' /\ NewIds # {}
      /\ last_seen_id' = Max(NewIds)
      /\ buffered' = buffered \cup NewIds
      /\ UNCHANGED <<messages, call, erred, received, requeued>>
  BY <1>1 DEF WatchFetch, TypeInv
<1>3. PICK l \in Listings(NewIds, WatchOrder) : queue' = queue \o l
  BY DEF WatchFetch
<1>4. /\ l \in Seq(Nat)
      /\ Range(l) = NewIds
      /\ Pairs(l, Apart)
      /\ Pairs(l, InOrder(messages))
  BY <1>1, YieldedIs
<1>5. Kept \in Seq(Nat) /\ Pipeline \in Seq(Nat)
  BY <1>1, Parts
<1>6. Kept' = Kept /\ received' = received /\ queue' \in Seq(Nat)
  BY <1>2 DEF Kept, TypeInv
<1>7. Range(Pipeline') = Range(Pipeline) \cup NewIds
  <2>1. Range(queue') = Range(queue) \cup NewIds
    BY <1>1, <1>3, <1>4, RangeConcat
  <2> QED BY <1>1, <1>6, <2>1, Parts, PartsNext
<1>7a. ASSUME NEW Q, Pairs(Pipeline, Q), Pairs(l, Q), Range(Pipeline) \X Range(l) \subseteq Q
       PROVE  Pairs(Pipeline', Q)
  <2>1. AllPairs(received, Kept, queue, Q)
    BY <1>1, <1>5, <1>7a, ThreePairs DEF Pipeline
  <2>2. /\ Range(queue') = Range(queue) \cup Range(l)
        /\ Range(Pipeline) = Range(received) \cup Range(Kept) \cup Range(queue)
    BY <1>1, <1>3, <1>4, RangeConcat, Parts
  <2>3. Range(queue) \X Range(l) \subseteq Q
    BY <1>7a, <2>2
  <2>4. Pairs(queue', Q)
    BY <1>1, <1>3, <1>4, <1>7a, <2>1, <2>3, PairsConcat DEF AllPairs
  <2>5. /\ Range(received) \X Range(queue') \subseteq Q
        /\ Range(Kept) \X Range(queue') \subseteq Q
    BY <1>7a, <2>1, <2>2 DEF AllPairs
  <2>6. AllPairs(received, Kept, queue', Q)
    BY <2>1, <2>4, <2>5 DEF AllPairs
  <2>7. Pairs((received \o Kept) \o queue', Q)
    BY <1>1, <1>5, <1>6, <2>6, ThreePairs
  <2> QED BY <1>6, <2>7 DEF Pipeline
<1>8. /\ NewIds \subseteq DOMAIN messages
      /\ \A i \in NewIds : i > last_seen_id /\ i \in Nat
  BY <1>1 DEF NewIds
<1>9. StoredInv'
  BY <1>2, <1>7, <1>8 DEF Inv, StoredInv
<1>10. BufferKeepsMessages'
  BY <1>2, <1>7 DEF Inv, BufferKeepsMessages
<1>11. /\ last_seen_id' \in NewIds
       /\ \A i \in NewIds : i <= last_seen_id'
  <2>1. NewIds \in SUBSET (0 .. Len(messages))
    BY <1>1, <1>8
  <2> QED BY <1>1, <1>2, <2>1, MaxIs
<1>12. ASSUME ~erred, NEW i \in Range(Pipeline)
       PROVE  i \in Nat /\ i <= last_seen_id
  <2>1. i \in DOMAIN messages
    BY DEF Inv, StoredInv
  <2> QED BY <1>1, <1>12, <2>1 DEF Inv, CursorInv
<1>13. CursorInv'
  <2> SUFFICES ASSUME ~erred, NEW i \in Range(Pipeline) \cup NewIds
               PROVE  i <= last_seen_id'
    BY <1>2, <1>7 DEF CursorInv
  <2>1. CASE i \in NewIds
    BY <1>11, <2>1
  <2>2. CASE i \in Range(Pipeline)
    <3>1. i \in Nat /\ i <= last_seen_id
      BY <1>12, <2>2
    <3>2. last_seen_id' \in Nat /\ last_seen_id' > last_seen_id
      BY <1>8, <1>11
    <3> QED BY <1>1, <3>1, <3>2
  <2> QED BY <2>1, <2>2
<1>14. ASSUME ~erred, NEW i \in Range(Pipeline), NEW j \in Range(l)
       PROVE  i \in Nat /\ j \in Nat /\ i < j
  <2>1. i \in Nat /\ i <= last_seen_id
    BY <1>12, <1>14
  <2>2. j \in Nat /\ j > last_seen_id
    BY <1>4, <1>8
  <2> QED BY <1>1, <2>1, <2>2
<1>15. OnceInv'
  <2> SUFFICES ASSUME ~erred PROVE Pairs(Pipeline', Apart)
    BY <1>2 DEF OnceInv
  <2>1. Pairs(Pipeline, Apart)
    BY DEF Inv, OnceInv
  <2>2. Range(Pipeline) \X Range(l) \subseteq Apart
    BY <1>14 DEF Apart
  <2> QED BY <1>4, <1>7a, <2>1, <2>2
<1>16. OrderInv'
  <2> SUFFICES ASSUME ~erred, ~requeued PROVE Pairs(Pipeline', InOrder(messages))
    BY <1>2 DEF OrderInv
  <2>1. Pairs(Pipeline, InOrder(messages))
    BY DEF Inv, OrderInv
  <2>2. Range(Pipeline) \X Range(l) \subseteq InOrder(messages)
    BY <1>14 DEF InOrder
  <2> QED BY <1>4, <1>7a, <2>1, <2>2
<1> QED BY <1>9, <1>10, <1>13, <1>15, <1>16 DEF Inv

LEMMA RestartKeeps ==
    ASSUME Restart, TypeInv' PROVE Inv'
<1>1. Pipeline' = <<>> /\ buffered' = {} /\ watching'
  BY EmptySeq, ConcatEmptySeq DEF Restart, FreshServer, Pipeline, Kept
<1>2. Range(Pipeline') = {} /\ \A Q : Pairs(Pipeline', Q)
  BY <1>1 DEF Range, Pairs
<1>3. StoredInv' /\ CursorInv' /\ OnceInv' /\ OrderInv' /\ BufferKeepsMessages'
  BY <1>1, <1>2 DEF StoredInv, CursorInv, OnceInv, OrderInv, BufferKeepsMessages
<1> QED BY <1>3 DEF Inv

LEMMA DrainStep ==
    ASSUME MailboxAssumption, Inv, TypeInv',
           NEW f \in Filters, NEW k \in Limits, Drain(f, k)
    PROVE  Inv'
<1>1. TypeInv
  BY DEF Inv
<1>2. /\ Range(Pipeline') = Range(Pipeline)
      /\ Pairs(Pipeline, Apart) => Pairs(Pipeline', Apart)
      /\ ~requeued' => ~requeued
      /\ \A Q : ~requeued' /\ Pairs(Pipeline, Q) => Pairs(Pipeline', Q)
  BY <1>1, DrainKeeps
<1>3. UNCHANGED <<messages, watching, last_seen_id, erred, buffered>>
  BY DEF Drain
<1>4. StoredInv' /\ CursorInv' /\ BufferKeepsMessages'
  BY <1>2, <1>3 DEF Inv, StoredInv, CursorInv, BufferKeepsMessages
<1>5. OnceInv'
  BY <1>2, <1>3 DEF Inv, OnceInv
<1>6. OrderInv'
  BY <1>2, <1>3 DEF Inv, OrderInv
<1> QED BY <1>4, <1>5, <1>6 DEF Inv

LEMMA InvStep ==
    ASSUME MailboxAssumption, Inv, [Next]_vars PROVE Inv'
<1>1. TypeInv
  BY DEF Inv
<1>2. TypeInv'
  BY <1>1, TypeStep
<1> QED
  BY <1>1, <1>2, QuietSteps, QuietKeeps, SendKeeps, FetchKeeps, RestartKeeps, DrainStep

\* The invariant says what the properties say.
LEMMA InvImplies ==
    Inv => RecvReturnsOnce /\ RecvKeepsOrder /\ BufferKeepsMessages
<1> SUFFICES ASSUME Inv PROVE RecvReturnsOnce /\ RecvKeepsOrder
  BY DEF Inv
<1>1. DOMAIN Pipeline \subseteq Nat
  BY Parts, LenProperties DEF Inv
<1>2. ASSUME ~erred, NEW x \in DOMAIN Pipeline, NEW y \in DOMAIN Pipeline, x # y
      PROVE  Pipeline[x] # Pipeline[y]
  <2>1. Pairs(Pipeline, Apart)
    BY <1>2 DEF Inv, OnceInv
  <2>2. CASE x < y
    BY <2>1, <2>2 DEF Pairs, Apart
  <2>3. CASE y < x
    BY <2>1, <2>3 DEF Pairs, Apart
  <2> QED BY <1>1, <1>2, <2>2, <2>3
<1>3. RecvReturnsOnce
  BY <1>2 DEF RecvReturnsOnce
<1>4. RecvKeepsOrder
  <2> SUFFICES ASSUME ~erred, ~requeued,
                      NEW x \in DOMAIN Pipeline, NEW y \in DOMAIN Pipeline, x < y,
                      messages[Pipeline[x]] = messages[Pipeline[y]]
               PROVE  Pipeline[x] < Pipeline[y]
    BY DEF RecvKeepsOrder
  <2>1. <<Pipeline[x], Pipeline[y]>> \in InOrder(messages)
    BY DEF Inv, OrderInv, Pairs
  <2> QED BY <2>1 DEF InOrder
<1> QED BY <1>3, <1>4

LEMMA InvAlways == Spec => []Inv
<1>1. Inv /\ [Next]_vars => Inv'
  BY MailboxAssumption, InvStep
<1> QED BY InvInit, <1>1, PTL DEF Spec

-----------------------------------------------------------------------------

\* While watch() has not failed since the server started, what channels__recv
\* has returned, is about to return and holds in the queue names no message
\* twice, whatever was sent, collected, unsubscribed or drained in between.
THEOREM ReturnsOnceAlways == Spec => []RecvReturnsOnce
BY InvAlways, InvImplies, PTL

\* If besides no filtered drain has put a message back, each channel is read in
\* the order it was sent.
THEOREM KeepsOrderAlways == Spec => []RecvKeepsOrder
BY InvAlways, InvImplies, PTL

\* What the listener put into the queue is there, in an answer being made, or
\* returned: draining, filtering and putting back lose nothing.
THEOREM BufferKeepsAlways == Spec => []BufferKeepsMessages
BY InvAlways, InvImplies, PTL
=============================================================================
