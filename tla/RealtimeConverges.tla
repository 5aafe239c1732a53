------------------------- MODULE RealtimeConverges -------------------------
(***************************************************************************)
(* A session that has missed nothing converges, proved for any number of   *)
(* instances, sessions, recipients and notifications, any ring and chunk   *)
(* size: CourseOK of RealtimeInv is kept by every step, and a session with *)
(* nothing under way then shows its recipient's rows.                      *)
(***************************************************************************)
EXTENDS RealtimeProofs, Streams

(* Sequences of facts, and the order of what they say. *)

\* Nothing is out of order in nothing.
LEMMA OrderEmpty == InOrder(<<>>) /\ Range(<<>>) = {}
  BY DEF InOrder, Range

\* What joins the end of a sequence may not contradict what is before it.
LEMMA OrderConcat ==
    ASSUME NEW q \in Seq(Facts), NEW r \in Seq(Facts), InOrder(q), InOrder(r),
           Precede(Range(q), Range(r))
    PROVE  InOrder(q \o r)
<1>1. /\ Len(q) \in Nat /\ DOMAIN q = 1..Len(q)
      /\ Len(r) \in Nat /\ DOMAIN r = 1..Len(r)
  BY LenProperties
<1>2. /\ q \o r \in Seq(Facts) /\ Len(q \o r) = Len(q) + Len(r)
      /\ \A k \in 1..Len(q) + Len(r) :
           (q \o r)[k] = IF k <= Len(q) THEN q[k] ELSE r[k - Len(q)]
  BY ConcatProperties
<1>3. DOMAIN (q \o r) = 1..Len(q) + Len(r)
  BY <1>2, LenProperties
<1> SUFFICES ASSUME NEW m \in 1..Len(q) + Len(r), NEW n \in 1..Len(q) + Len(r),
                    m < n, NEW x \in (q \o r)[m].ids \cap (q \o r)[n].ids
             PROVE  NotAfter((q \o r)[m].kind, (q \o r)[n].kind)
  BY <1>3 DEF InOrder
<1>4. CASE n <= Len(q)
  <2>1. (q \o r)[m] = q[m] /\ (q \o r)[n] = q[n] /\ m \in DOMAIN q /\ n \in DOMAIN q
    BY <1>1, <1>2, <1>4
  <2> QED BY <2>1 DEF InOrder
<1>5. CASE Len(q) < m
  <2> DEFINE j == m - Len(q)
             k == n - Len(q)
  <2>1. /\ (q \o r)[m] = r[j] /\ (q \o r)[n] = r[k]
        /\ j \in DOMAIN r /\ k \in DOMAIN r /\ j < k
    BY <1>1, <1>2, <1>5
  <2> HIDE DEF j, k
  <2> QED BY <2>1 DEF InOrder
<1>6. CASE m <= Len(q) /\ Len(q) < n
  <2> DEFINE k == n - Len(q)
  <2>1. /\ (q \o r)[m] = q[m] /\ (q \o r)[n] = r[k]
        /\ m \in DOMAIN q /\ k \in DOMAIN r
    BY <1>1, <1>2, <1>6
  <2> HIDE DEF k
  <2>2. q[m] \in Range(q) /\ r[k] \in Range(r)
    BY <2>1 DEF Range
  <2> QED BY <2>1, <2>2 DEF Precede
<1> QED BY <1>1, <1>4, <1>5, <1>6

LEMMA OrderAppend ==
    ASSUME NEW q \in Seq(Facts), NEW e \in Facts, InOrder(q), Precede(Range(q), {e})
    PROVE  /\ InOrder(Append(q, e))
           /\ Range(Append(q, e)) = Range(q) \cup {e}
<1>1. <<e>> \in Seq(Facts) /\ Range(<<e>>) = {e} /\ InOrder(<<e>>)
  BY DEF Range, InOrder
<1>2. Append(q, e) = q \o <<e>>
  BY AppendIsConcat
<1>3. InOrder(q \o <<e>>)
  <2>1. Precede(Range(q), Range(<<e>>))
    BY <1>1
  <2> QED
    BY <1>1, <2>1, OrderConcat
<1>4. Range(q \o <<e>>) = Range(q) \cup Range(<<e>>)
  BY <1>1, RangeConcatenation
<1> QED
  BY <1>1, <1>2, <1>3, <1>4

\* The first fact precedes the others.
LEMMA OrderHead ==
    ASSUME NEW q \in Seq(Facts), q # <<>>
    PROVE  /\ Range(q) = {Head(q)} \cup Range(Tail(q))
           /\ Len(Tail(q)) < Len(q)
           /\ InOrder(q) => InOrder(Tail(q)) /\ Precede({Head(q)}, Range(Tail(q)))
<1>1. /\ Len(q) \in Nat \ {0} /\ DOMAIN q = 1..Len(q) /\ Head(q) = q[1]
      /\ Tail(q) \in Seq(Facts) /\ Len(Tail(q)) = Len(q) - 1
      /\ \A k \in 1..Len(Tail(q)) : Tail(q)[k] = q[k + 1]
  BY HeadTailProperties, LenProperties, EmptySeq
<1>2. DOMAIN Tail(q) = 1..Len(q) - 1
  BY <1>1, LenProperties
<1>3. \A k \in DOMAIN Tail(q) : k + 1 \in DOMAIN q /\ Tail(q)[k] = q[k + 1]
  BY <1>1, <1>2
<1>4. Range(q) = {Head(q)} \cup Range(Tail(q))
  <2>1. \A k \in DOMAIN q : q[k] \in {Head(q)} \cup Range(Tail(q))
    <3> TAKE k \in DOMAIN q
    <3>1. CASE k = 1
      BY <1>1, <3>1
    <3>2. CASE k # 1
      <4>1. k - 1 \in DOMAIN Tail(q) /\ (k - 1) + 1 = k
        BY <1>1, <1>2, <3>2
      <4>2. Tail(q)[k - 1] = q[k]
        BY <1>3, <4>1
      <4> QED BY <4>1, <4>2 DEF Range
    <3> QED BY <3>1, <3>2
  <2>2. Head(q) \in Range(q) /\ \A k \in DOMAIN Tail(q) : Tail(q)[k] \in Range(q)
    <3>1. 1 \in DOMAIN q
      BY <1>1
    <3> QED BY <1>1, <1>3, <3>1 DEF Range
  <2> QED BY <2>1, <2>2 DEF Range
<1>5. InOrder(q) => InOrder(Tail(q))
  <2> SUFFICES ASSUME InOrder(q), NEW m \in DOMAIN Tail(q), NEW n \in DOMAIN Tail(q),
                      m < n
               PROVE  /\ m + 1 < n + 1
                      /\ m + 1 \in DOMAIN q /\ n + 1 \in DOMAIN q
                      /\ Tail(q)[m] = q[m + 1] /\ Tail(q)[n] = q[n + 1]
    BY DEF InOrder
  <2> QED BY <1>2, <1>3, <1>1
<1>6. InOrder(q) => Precede({Head(q)}, Range(Tail(q)))
  <2> SUFFICES ASSUME InOrder(q), NEW n \in DOMAIN Tail(q)
               PROVE  /\ 1 < n + 1 /\ 1 \in DOMAIN q
                      /\ n + 1 \in DOMAIN q /\ Tail(q)[n] = q[n + 1]
    BY <1>1 DEF InOrder, Precede, Range
  <2> QED BY <1>1, <1>2, <1>3
<1>7. Len(Tail(q)) < Len(q)
  BY <1>1
<1> QED BY <1>4, <1>5, <1>6, <1>7

\* What is left of a sequence whose end is gone.
LEMMA OrderPrefix ==
    ASSUME NEW q \in Seq(Facts), NEW n \in 0..Len(q)
    PROVE  /\ InOrder(q) => InOrder(SubSeq(q, 1, n))
           /\ Range(SubSeq(q, 1, n)) \subseteq Range(q)
           /\ \A e \in Range(q) : e \notin Range(SubSeq(q, 1, n)) =>
                \E m \in (n + 1)..Len(q) : e = q[m]
<1>1. Len(q) \in Nat /\ DOMAIN q = 1..Len(q)
  BY LenProperties
<1>2. \A k \in 1..n : q[k] \in Facts
  BY <1>1, ElementOfSeq
<1>3. /\ SubSeq(q, 1, n) \in Seq(Facts)
      /\ Len(SubSeq(q, 1, n)) = n
      /\ \A k \in 1..n : SubSeq(q, 1, n)[k] = q[k]
  BY <1>1, <1>2, SubSeqProperties
<1>4. DOMAIN SubSeq(q, 1, n) = 1..n /\ 1..n \subseteq DOMAIN q
  BY <1>1, <1>3, LenProperties
<1>5. InOrder(q) => InOrder(SubSeq(q, 1, n))
  BY <1>3, <1>4 DEF InOrder
<1>6. Range(SubSeq(q, 1, n)) \subseteq Range(q)
  BY <1>3, <1>4 DEF Range
<1>7. ASSUME NEW k \in DOMAIN q, q[k] \notin Range(SubSeq(q, 1, n))
      PROVE  k \in (n + 1)..Len(q)
  <2>1. k \notin 1..n
    BY <1>3, <1>4, <1>7 DEF Range
  <2> QED BY <1>1, <2>1
<1> QED BY <1>5, <1>6, <1>7 DEF Range


-----------------------------------------------------------------------------
(* The signals of a write say all of it. *)

\* What a write that ends in these rows signals: its ids, all of them, and no
\* others.
Announces(q, kind, ids) ==
    /\ q \in Seq(Signals)
    /\ \A e \in Range(q) : /\ e.kind = kind
                           /\ e.ids \subseteq ids
                           /\ kind = "added" => \E x \in Ids : e.ids = {x}
    /\ \A x \in ids : \E e \in Range(q) : x \in e.ids

\* Every member of a set has a place in its list.
LEMMA ListedCovers ==
    ASSUME NEW S, IsFiniteSet(S), NEW x \in S
    PROVE  \E j \in 1..Cardinality(S) : Listed(S)[j] = x
<1>1. /\ Cardinality(S) \in Nat
      /\ ExistsBijection(1..Cardinality(S), S)
  BY FS_CardinalityType
<1>2. PICK f \in Bijection(1..Cardinality(S), S) : TRUE
  BY <1>1 DEF ExistsBijection
<1>3. /\ f \in [1..Cardinality(S) -> S]
      /\ {f[i] : i \in DOMAIN f} = S
  BY <1>2 DEF Bijection, Injection, Surjection
<1>4. /\ Listed(S) \in [1..Cardinality(S) -> S]
      /\ {Listed(S)[i] : i \in DOMAIN Listed(S)} = S
  BY <1>1, <1>3 DEF Listed
<1> QED
  BY <1>4

\* fn insert_notifications signals every row it inserts, one by one.
LEMMA InsertAnnounces ==
    ASSUME NEW ids \in SUBSET Ids
    PROVE  Announces([n \in 1..Cardinality(ids) |->
              Fact("added", OwnerOf[Listed(ids)[n]], {Listed(ids)[n]})], "added", ids)
<1> DEFINE q == [n \in 1..Cardinality(ids) |->
                   Fact("added", OwnerOf[Listed(ids)[n]], {Listed(ids)[n]})]
<1>1. IsFiniteSet(ids)
  BY FS_Subset, SessionsAssumption
<1>2. Cardinality(ids) \in Nat /\ Listed(ids) \in [1..Cardinality(ids) -> ids]
  BY <1>1, ListedType
<1>3. q \in Seq(Signals)
  BY InsertedType
<1>4. ASSUME NEW e \in Range(q)
      PROVE  e.kind = "added" /\ e.ids \subseteq ids /\ \E x \in Ids : e.ids = {x}
  <2>1. PICK n \in 1..Cardinality(ids) :
          e = Fact("added", OwnerOf[Listed(ids)[n]], {Listed(ids)[n]})
    BY DEF Range
  <2>2. Listed(ids)[n] \in ids /\ e.kind = "added" /\ e.ids = {Listed(ids)[n]}
    BY <1>2, <2>1 DEF Fact
  <2> QED BY <2>2
<1>5. ASSUME NEW x \in ids PROVE \E e \in Range(q) : x \in e.ids
  <2>1. PICK j \in 1..Cardinality(ids) : Listed(ids)[j] = x
    BY <1>1, ListedCovers
  <2>2. q[j] \in Range(q) /\ x \in q[j].ids
    BY <2>1 DEF Range, Fact
  <2> QED BY <2>2
<1> HIDE DEF q
<1>6. Announces(q, "added", ids)
  BY <1>3, <1>4, <1>5 DEF Announces
<1> QED BY <1>6 DEF q

\* Each of n ids falls in one of the chunks that the code cuts them into.
LEMMA ChunkOf ==
    ASSUME NEW n \in Nat, NEW j \in 1..n
    PROVE  \E i \in 1..Cardinality({k \in 0..(n - 1) : k % Chunk = 0}) :
              (i - 1) * Chunk < j /\ j <= i * Chunk
<1> DEFINE starts == {k \in 0..(n - 1) : k % Chunk = 0}
           i == (j - 1) \div Chunk + 1
<1>1. Chunk \in Nat /\ Chunk > 0 /\ j \in Nat /\ j > 0 /\ j <= n
  BY LimitsAssumption
<1>2. i \in Int /\ (i - 1) * Chunk <= j - 1 /\ j - 1 < i * Chunk
  BY <1>1
<1>3. i - 1 >= 0
  BY <1>1, <1>2
<1> HIDE DEF i
<1>4. i \in Nat \ {0} /\ i * Chunk \in Int /\ (i - 1) * Chunk \in Int
  BY <1>1, <1>2, <1>3
<1>5. (i - 1) * Chunk < j /\ j <= i * Chunk
  BY <1>1, <1>2, <1>4
<1>6. IsFiniteSet(starts)
  <2>1. IsFiniteSet(0..(n - 1))
    BY FS_Interval
  <2> QED BY <2>1, FS_Subset
<1>7. Cardinality(starts) \in Nat
  BY <1>6, FS_CardinalityType
<1> DEFINE f == [t \in 1..i |-> (t - 1) * Chunk]
<1>8. f \in Injection(1..i, starts)
  <2>1. ASSUME NEW t \in 1..i PROVE (t - 1) * Chunk \in starts
    <3>1. t - 1 \in Nat /\ (t - 1) * Chunk \in Nat
      BY <1>1, <1>4
    <3>2. (t - 1) * Chunk <= (i - 1) * Chunk
      BY <1>1, <1>4
    <3>3. ((t - 1) * Chunk) % Chunk = 0
      BY <1>1, <3>1
    <3>4. (i - 1) * Chunk \in Int
      BY <1>1, <1>4
    <3> QED BY <1>1, <1>5, <3>1, <3>2, <3>3, <3>4
  <2>2. ASSUME NEW t \in 1..i, NEW u \in 1..i, (t - 1) * Chunk = (u - 1) * Chunk
        PROVE  t = u
    BY <1>1, <1>4, <2>2
  <2>3. f \in [1..i -> starts]
    <3> HIDE DEF starts
    <3> QED BY <2>1
  <2>4. \A t, u \in 1..i : f[t] = f[u] => t = u
    <3> SUFFICES ASSUME NEW t \in 1..i, NEW u \in 1..i, f[t] = f[u] PROVE t = u
      OBVIOUS
    <3>1. f[t] = (t - 1) * Chunk /\ f[u] = (u - 1) * Chunk
      OBVIOUS
    <3> HIDE DEF f
    <3> QED BY <2>2, <3>1
  <2> HIDE DEF f, starts
  <2> QED BY <2>3, <2>4 DEF Injection, IsInjective
<1>9. i <= Cardinality(starts)
  <2>1. IsFiniteSet(1..i) /\ Cardinality(1..i) = i
    BY <1>4, FS_Interval
  <2> HIDE DEF f, starts
  <2>2. Cardinality(1..i) <= Cardinality(starts)
    BY <1>6, <1>8, FS_Injection
  <2> QED BY <2>1, <2>2
<1>10. i \in 1..Cardinality(starts)
  <2> HIDE DEF starts
  <2> QED BY <1>4, <1>7, <1>9
<1> QED BY <1>4, <1>5, <1>10

\* fn signal_read and fn signal_deleted name every id they are given.
LEMMA ChunkedAnnounces ==
    ASSUME NEW kind \in {"read", "deleted"}, NEW p \in Recipients,
           NEW ids \in SUBSET IdsOf(p)
    PROVE  Announces(Chunked(kind, p, ids), kind, ids)
<1> DEFINE n == Cardinality(ids)
           m == Cardinality({k \in 0..(n - 1) : k % Chunk = 0})
           part(i) == {Listed(ids)[j] : j \in
                         {k \in 1..n : (i - 1) * Chunk < k /\ k <= i * Chunk}}
           q == [i \in 1..m |-> Fact(kind, p, part(i))]
<1>1. Chunked(kind, p, ids) = q
  BY DEF Chunked
<1>2. IsFiniteSet(ids)
  BY FS_Subset, SessionsAssumption DEF IdsOf
<1>3. n \in Nat /\ Listed(ids) \in [1..n -> ids]
  BY <1>2, ListedType
<1>4. \A i : part(i) \subseteq ids
  BY <1>3
<1>5. \A x \in ids : \E i \in 1..m : x \in part(i)
  <2> TAKE x \in ids
  <2>1. PICK j \in 1..n : Listed(ids)[j] = x
    BY <1>2, ListedCovers
  <2>2. PICK i \in 1..m : (i - 1) * Chunk < j /\ j <= i * Chunk
    BY <1>3, ChunkOf
  <2>3. x \in part(i)
    BY <2>1, <2>2
  <2> QED BY <2>3
<1>6. q \in Seq(Signals)
  BY <1>1, ChunkedType
<1> HIDE DEF n, m, part
<1>7. ASSUME NEW e \in Range(q)
      PROVE  e.kind = kind /\ e.ids \subseteq ids
  <2>1. PICK i \in 1..m : e = Fact(kind, p, part(i))
    BY DEF Range
  <2>2. e.kind = kind /\ e.ids = part(i)
    BY <2>1 DEF Fact
  <2> QED BY <1>4, <2>2
<1>8. ASSUME NEW x \in ids PROVE \E e \in Range(q) : x \in e.ids
  <2>1. PICK i \in 1..m : x \in part(i)
    BY <1>5
  <2>2. q[i] \in Range(q) /\ q[i].ids = part(i)
    BY DEF Range, Fact
  <2> QED BY <2>1, <2>2
<1> HIDE DEF q
<1> QED BY <1>1, <1>6, <1>7, <1>8 DEF Announces


-----------------------------------------------------------------------------
(* What a write does to the course of a session. *)

\* What is on its way is well formed, and what is in the ring is the session's.
LEMMA OnTheWay ==
    ASSUME WayOK, NEW s \in Sessions
    PROVE  /\ HostOf[s] \in Instances /\ CallerOf[s] \in Recipients
           /\ feed[HostOf[s]] \in Seq(Facts) /\ ring[s] \in Seq(Facts)
           /\ Len(ring[s]) \in Nat
           /\ \A e \in Way(s) : /\ e \in Signals /\ e \in Facts
                               /\ e.kind \in {"added", "read", "deleted"}
                               /\ e.ids \subseteq IdsOf(e.to)
           /\ \A e \in Range(ring[s]) : e.to = CallerOf[s]
<1>1. HostOf[s] \in Instances /\ CallerOf[s] \in Recipients
  BY SessionsAssumption
<1>2. feed[HostOf[s]] \in Seq(Signals) /\ hand[HostOf[s]] \in Signals \cup {NoFact}
  BY <1>1 DEF WayOK, ListenersOK
<1>3. ring[s] \in Seq(EventsFor(CallerOf[s]))
  BY DEF WayOK, RingsOK
<1>4. feed[HostOf[s]] \in Seq(Facts) /\ ring[s] \in Seq(Facts)
  BY <1>2, <1>3, SignalSeqs
<1>5. \A e \in Queued(s) : e \in Signals
  BY <1>2, RangeOfSeq DEF Queued
<1>6. \A e \in Range(ring[s]) : e \in EventsFor(CallerOf[s])
  BY <1>3, RangeOfSeq
<1>7. \A e \in Way(s) : e \in Signals
  BY <1>2, <1>5, <1>6 DEF Way, Held, EventsFor
<1>8. Len(ring[s]) \in Nat
  BY <1>4, LenProperties
<1> QED
  BY <1>1, <1>4, <1>6, <1>7, <1>8 DEF Signals, EventsFor, Facts

\* Where a notification stands after a write of this kind.
After(kind) == IF kind = "added" THEN "unread" ELSE kind

\* A write of this kind is made of rows that stand there.
Ready(kind, x) ==
    /\ kind = "added" => row[x] = "absent"
    /\ kind = "read" => row[x] = "unread"
    /\ kind = "deleted" => row[x] \in Shown

\* The write as a session meets it: its instance has the signals, or the
\* session has missed them.
LEMMA CommitReaches ==
    ASSUME WayOK, NEW s \in Sessions, NEW kind, NEW ids \in SUBSET Ids, NEW q,
           Announces(q, kind, ids), Commit(q)
    PROVE  /\ \/ feed'[HostOf[s]] = feed[HostOf[s]]
              \/ /\ feed'[HostOf[s]] = feed[HostOf[s]] \o q
                 /\ Range(feed'[HostOf[s]]) = Range(feed[HostOf[s]]) \cup Range(q)
           /\ missed'[s] = {} =>
                /\ missed[s] = {}
                /\ \A x \in ids \cap IdsOf(CallerOf[s]) : Tells(Range(feed'[HostOf[s]]), x, kind)
<1> DEFINE i == HostOf[s]
           to == {q[n].to : n \in DOMAIN q}
<1>1. i \in Instances /\ feed[i] \in Seq(Facts)
  BY OnTheWay
<1>2. q \in Seq(Facts)
  BY SignalSeqs DEF Announces
<1>3. feed'[i] = IF channel[i] = "listening" THEN feed[i] \o q ELSE feed[i]
  BY <1>1 DEF Commit
<1>4. Range(feed[i] \o q) = Range(feed[i]) \cup Range(q)
  BY <1>1, <1>2, RangeConcatenation
<1>5. ASSUME missed'[s] = {}
      PROVE  missed[s] = {} /\ (CallerOf[s] \in to => channel[i] = "listening")
  BY <1>5 DEF Commit, Miss
<1>6. ASSUME NEW x \in ids \cap IdsOf(CallerOf[s])
      PROVE  CallerOf[s] \in to /\ Tells(Range(q), x, kind)
  <2>1. PICK e \in Range(q) : x \in e.ids
    BY DEF Announces
  <2>2. e.kind = kind /\ e \in Signals
    <3>1. q \in Seq(Signals)
      BY DEF Announces
    <3>2. Range(q) \subseteq Signals
      BY <3>1, RangeOfSeq
    <3> QED BY <3>2 DEF Announces
  <2>3. e.to = CallerOf[s]
    BY <2>1, <2>2 DEF Signals, IdsOf
  <2> QED BY <2>1, <2>2, <2>3 DEF Tells, Range
<1> HIDE DEF to
<1>7. ASSUME missed'[s] = {}, NEW x \in ids \cap IdsOf(CallerOf[s])
      PROVE  Tells(Range(feed'[i]), x, kind)
  BY <1>3, <1>4, <1>5, <1>6, <1>7 DEF Tells
<1> QED BY <1>3, <1>4, <1>5, <1>7

\* A write keeps the course of every session: its signals are behind whatever
\* they correct, or the session has missed one.
LEMMA WriteCourse ==
    ASSUME WayOK, NEW s \in Sessions, Course(s),
           NEW kind \in {"added", "read", "deleted"}, NEW ids \in SUBSET Ids, NEW q,
           Announces(q, kind, ids), Commit(q), \A x \in ids : Ready(kind, x),
           row' = [x \in Ids |-> IF x \in ids THEN After(kind) ELSE row[x]],
           UNCHANGED <<stage, hand, phase, ring, overrun, view>>
    PROVE  Course(s)'
<1> DEFINE Q == Queued(s)
           R == Range(ring[s])
<1>1. /\ \A e \in Way(s) : /\ e.ids \subseteq Ids
                            /\ e.kind \in {"added", "read", "deleted"}
      /\ feed[HostOf[s]] \in Seq(Facts) /\ ring[s] \in Seq(Facts)
      /\ \A e \in R : e.ids \subseteq IdsOf(CallerOf[s])
  <2>1. \A e \in R : e \in Way(s)
    BY DEF Way
  <2> QED BY <2>1, OnTheWay DEF IdsOf
<1>2. /\ q \in Seq(Facts)
      /\ \A e \in Range(q) : /\ e.kind = kind /\ e.ids \subseteq ids
                             /\ kind = "added" => \E x \in Ids : e.ids = {x}
  BY SignalSeqs DEF Announces
<1>3. \A x \in Ids : row'[x] = IF x \in ids THEN After(kind) ELSE row[x]
  OBVIOUS
<1>4. /\ Held(s)' = Held(s) /\ R' = R
      /\ \/ Queued(s)' = Q /\ feed'[HostOf[s]] = feed[HostOf[s]]
         \/ Queued(s)' = Q \cup Range(q) /\ feed'[HostOf[s]] = feed[HostOf[s]] \o q
  <2>1. Held(s)' = Held(s) /\ R' = R
    BY DEF Held
  <2>2. \/ feed'[HostOf[s]] = feed[HostOf[s]]
        \/ /\ feed'[HostOf[s]] = feed[HostOf[s]] \o q
           /\ Range(feed'[HostOf[s]]) = Range(feed[HostOf[s]]) \cup Range(q)
    BY CommitReaches
  <2> QED BY <2>1, <2>2 DEF Queued
<1>5. missed'[s] = {} =>
        /\ missed[s] = {}
        /\ \A x \in ids \cap IdsOf(CallerOf[s]) : Tells(Queued(s)', x, kind)
  BY CommitReaches DEF Queued
<1>6. Q \subseteq Queued(s)' /\ Way(s) \subseteq Way(s)'
  BY <1>4 DEF Way
<1>7. ASSUME NEW e, e.ids \subseteq Ids, Happened(e),
             e.kind \in {"added", "read", "deleted"}
      PROVE  /\ Happened(e)'
             /\ Pictured(e) => Pictured(e)'
             /\ \A f \in Range(q) : Precede({e}, {f})
  <2>1. \A x \in e.ids \cap ids : kind # "added"
    BY <1>7 DEF Happened, Ready
  <2>2. Happened(e)'
    BY <1>3, <1>7, <2>1 DEF Happened, Ready, After, Shown
  <2>3. Pictured(e) => Pictured(e)'
    BY <1>3, <1>7, <2>1 DEF Pictured, After
  <2>4. ASSUME NEW f \in Range(q), NEW x \in e.ids \cap f.ids
        PROVE  NotAfter(e.kind, f.kind)
    <3>1. x \in ids /\ f.kind = kind
      BY <1>2, <2>4
    <3> QED BY <1>7, <2>1, <3>1 DEF Happened, Ready, NotAfter, Shown
  <2> QED BY <2>2, <2>3, <2>4 DEF Precede
<1>8. \A f \in Range(q) : Happened(f)'
  BY <1>2, <1>3 DEF Happened, After
<1>9. StreamOK(s)'
  BY DEF Course, StreamOK
<1>10. SingleOK(s)'
  BY <1>2, <1>4 DEF Course, SingleOK
<1>11. PastOK(s)'
  BY <1>1, <1>4, <1>7, <1>8 DEF Course, PastOK, Way
<1>12. OrderOK(s)'
  <2>1. \A e \in Q \cup Held(s) : Precede({e}, Range(q))
    BY <1>1, <1>7 DEF Course, PastOK, Way, Precede
  <2>2. ~overrun[s] => \A e \in R : Precede({e}, Range(q))
    BY <1>1, <1>7 DEF Course, PastOK, Way, Precede
  <2>3. InOrder(q)
    BY <1>2 DEF InOrder, NotAfter, Range
  <2>4. InOrder(feed[HostOf[s]] \o q)
    <3>1. Precede(Q, Range(q))
      BY <2>1 DEF Precede
    <3> QED BY <1>1, <1>2, <2>3, <3>1, OrderConcat DEF Course, OrderOK, Queued
  <2>5. InOrder(feed[HostOf[s]])'
    BY <1>4, <2>4 DEF Course, OrderOK
  <2>6. Precede(Held(s), Queued(s))'
    BY <1>4, <2>1 DEF Course, OrderOK, Precede
  <2>7. ~overrun[s] => Precede(R, Held(s)' \cup Queued(s)')
    BY <1>4, <2>2 DEF Course, OrderOK, Precede
  <2> QED BY <1>4, <2>5, <2>6, <2>7 DEF Course, OrderOK
<1>13. PicturesOK(s)'
  <2> SUFFICES ASSUME missed'[s] = {} PROVE PicturesOK(s)'
    BY DEF PicturesOK
  <2>1. ASSUME NEW e, NEW L, NEW M, e.ids \subseteq IdsOf(CallerOf[s]), Amended(e, L),
               Happened(e), L \subseteq M, Queued(s)' \subseteq M
        PROVE  Amended(e, M)'
    BY <1>3, <1>5, <2>1 DEF Amended, Happened, Tells, Ready, After, IdsOf, Shown
  <2>2. ASSUME stage[HostOf[s]] = "delivering", s \in Engaged(HostOf[s])
        PROVE  Amended(hand[HostOf[s]], Queued(s))'
    <3>1. hand[HostOf[s]] \in Held(s) /\ hand[HostOf[s]].to = CallerOf[s]
      BY <2>2 DEF Engaged, Audience, Held
    <3>2. hand[HostOf[s]].ids \subseteq IdsOf(CallerOf[s]) /\ Happened(hand[HostOf[s]])
      BY <3>1, OnTheWay DEF Way, Course, PastOK
    <3>3. Amended(hand[HostOf[s]], Q)
      BY <1>5, <2>2 DEF Course, PicturesOK
    <3> QED BY <1>6, <2>1, <3>2, <3>3 DEF Amended
  <2>3. ASSUME ~overrun[s], NEW e \in R, e.kind = "added"
        PROVE  Amended(e, R \cup Queued(s))'
    <3>1. e.ids \subseteq IdsOf(CallerOf[s]) /\ Happened(e)
      BY <1>1, <2>3 DEF Course, PastOK
    <3>2. Amended(e, R \cup Q)
      BY <1>5, <2>3 DEF Course, PicturesOK
    <3>3. R \cup Q \subseteq (R \cup Queued(s))' /\ Queued(s)' \subseteq (R \cup Queued(s))'
      BY <1>4, <1>6
    <3> HIDE DEF R, Q
    <3> QED BY <2>1, <3>1, <3>2, <3>3 DEF Amended
  <2> QED BY <1>4, <2>2, <2>3 DEF PicturesOK, Engaged
<1>14. ViewOK(s)'
  <2> SUFFICES ASSUME phase[s] = "synced", missed'[s] = {}, ~overrun[s],
                      NEW x \in IdsOf(CallerOf[s])
               PROVE  Corrects(Way(s)', x, row'[x], view[s][x])
    BY DEF ViewOK, IdsOf, Corrects, Tells
  <2>1. Corrects(Way(s), x, row[x], view[s][x])
    BY <1>5 DEF Course, ViewOK
  <2>2. \A k : Tells(Way(s), x, k) => Tells(Way(s)', x, k)
    BY <1>6 DEF Tells
  <2>3. x \in Ids
    BY DEF IdsOf
  <2>4. CASE x \in ids
    <3>1. Tells(Way(s)', x, kind)
      BY <1>5, <2>4 DEF Tells, Way
    <3>2. row'[x] = After(kind) /\ Ready(kind, x)
      BY <1>3, <2>3, <2>4
    <3> QED BY <2>1, <2>2, <3>1, <3>2 DEF Corrects, After, Ready, Shown
  <2>5. CASE x \notin ids
    BY <1>3, <2>1, <2>2, <2>3, <2>5 DEF Corrects
  <2> QED BY <2>4, <2>5
<1> QED BY <1>9, <1>10, <1>11, <1>12, <1>13, <1>14 DEF Course


-----------------------------------------------------------------------------
(* What the steps of the listener and of the sessions do to a course. *)

\* Facts may go when nobody needs them: signals of a session whose stream is
\* closed, an added fact whose row is gone, facts of other recipients, and any
\* fact at all once the session is known to have missed one.
LEMMA LosesCourse ==
    ASSUME WayOK, NEW s \in Sessions, Course(s), row' = row,
           phase'[s] = phase[s], ring'[s] = ring[s], overrun'[s] = overrun[s],
           view'[s] = view[s],
           hand'[HostOf[s]] = NoFact \/ (/\ hand'[HostOf[s]] = hand[HostOf[s]]
                                         /\ stage'[HostOf[s]] = stage[HostOf[s]]),
           InOrder(feed'[HostOf[s]]),
           Range(feed'[HostOf[s]]) \subseteq Range(feed[HostOf[s]]),
           missed'[s] = {} =>
             /\ missed[s] = {}
             /\ \A e \in Queued(s) \ Range(feed'[HostOf[s]]) :
                  e.ids \cap IdsOf(CallerOf[s]) # {} =>
                    phase[s] = "closed" /\ hand[HostOf[s]] = NoFact
             /\ hand'[HostOf[s]] # hand[HostOf[s]] =>
                  \A x \in hand[HostOf[s]].ids \cap IdsOf(CallerOf[s]) :
                    phase[s] = "closed" \/ row[x] \notin Shown
    PROVE  Course(s)'
<1> DEFINE i == HostOf[s]
           R == Range(ring[s])
<1>1. /\ Queued(s)' \subseteq Queued(s) /\ Held(s)' \subseteq Held(s) /\ R' = R
      /\ Held(s)' # {} => hand'[i] = hand[i] /\ stage'[i] = stage[i]
  BY DEF Queued, Held
<1>2. StreamOK(s)'
  BY DEF Course, StreamOK
<1>3. SingleOK(s)'
  BY <1>1 DEF Course, SingleOK
<1>4. OrderOK(s)'
  <2>1. Precede(Held(s), Queued(s))'
    BY <1>1 DEF Course, OrderOK, Precede
  <2>2. ~overrun[s] => Precede(R, Held(s)' \cup Queued(s)')
    BY <1>1 DEF Course, OrderOK, Precede
  <2>3. ~overrun[s] => InOrder(ring'[s])
    BY DEF Course, OrderOK
  <2> QED BY <1>1, <2>1, <2>2, <2>3 DEF OrderOK, InOrder, Precede
<1>5. PastOK(s)'
  <2>1. \A e : /\ Happened(e) => Happened(e)'
               /\ Pictured(e) => Pictured(e)'
    BY DEF Happened, Pictured
  <2>2. stage'[i] = "delivering" => \A e \in Held(s)' : Pictured(e)
    BY <1>1 DEF Course, PastOK
  <2>3. \A e \in Held(s)' \cup Queued(s)' : Happened(e)
    BY <1>1 DEF Course, PastOK
  <2>4. ~overrun[s] => \A e \in R : Happened(e) /\ (e.kind = "added" => Pictured(e))
    BY DEF Course, PastOK
  <2> QED BY <1>1, <2>1, <2>2, <2>3, <2>4 DEF PastOK
<1>6. ASSUME missed'[s] = {}, phase[s] # "closed" \/ hand[i] # NoFact,
             NEW x \in IdsOf(CallerOf[s]), NEW k
      PROVE  Tells(Queued(s), x, k) => Tells(Queued(s)', x, k)
  BY <1>6 DEF Tells, Queued
<1>7. PicturesOK(s)'
  <2> SUFFICES ASSUME missed'[s] = {} PROVE PicturesOK(s)'
    BY DEF PicturesOK
  <2>1. ASSUME stage'[i] = "delivering", s \in Engaged(i)'
        PROVE  Amended(hand[i], Queued(s)') /\ hand'[i] = hand[i]
    <3>1. /\ hand'[i] = hand[i] /\ hand[i] # NoFact /\ stage[i] = "delivering"
          /\ s \in Engaged(i) /\ hand[i].to = CallerOf[s]
      BY <2>1 DEF Engaged, Audience
    <3>2. hand[i].ids \subseteq IdsOf(CallerOf[s])
      BY <3>1, OnTheWay DEF Way, Held
    <3>3. Amended(hand[i], Queued(s))
      BY <3>1 DEF Course, PicturesOK
    <3> QED BY <1>6, <3>1, <3>2, <3>3 DEF Amended
  <2>2. ASSUME ~overrun[s], NEW e \in R, e.kind = "added"
        PROVE  Amended(e, R \cup Queued(s)')
    <3>1. e.ids \subseteq IdsOf(CallerOf[s])
      BY OnTheWay DEF Way
    <3>2. Amended(e, R \cup Queued(s))
      BY <2>2 DEF Course, PicturesOK
    <3>3. phase[s] # "closed"
      BY OrderEmpty, <2>2 DEF Course, StreamOK
    <3>4. ASSUME NEW x \in e.ids, NEW k, Tells(R \cup Queued(s), x, k)
          PROVE  Tells(R \cup Queued(s)', x, k)
      <4>1. Tells(Queued(s), x, k) => Tells(Queued(s)', x, k)
        BY <1>6, <3>1, <3>3
      <4> QED BY <3>4, <4>1 DEF Tells
    <3> QED BY <3>2, <3>4 DEF Amended
  <2> QED BY <1>1, <2>1, <2>2 DEF PicturesOK, Amended
<1>8. ViewOK(s)'
  <2> SUFFICES ASSUME phase[s] = "synced", missed'[s] = {}, ~overrun[s],
                      NEW x \in IdsOf(CallerOf[s])
               PROVE  Corrects(Way(s)', x, row[x], view[s][x])
    BY DEF ViewOK, IdsOf, Corrects, Tells
  <2>1. Corrects(Way(s), x, row[x], view[s][x])
    BY DEF Course, ViewOK
  <2>2. ASSUME NEW k, Tells(Way(s), x, k), k # "added" \/ row[x] \in Shown
        PROVE  Tells(Way(s)', x, k)
    <3>1. PICK e \in Way(s) : x \in e.ids /\ e.kind = k
      BY <2>2 DEF Tells
    <3>2. CASE e \in R
      BY <1>1, <3>1, <3>2 DEF Way, Tells
    <3>3. CASE e \in Queued(s)
      <4>1. Tells(Queued(s)', x, k)
        BY <1>6, <3>1, <3>3 DEF Tells
      <4> QED BY <4>1 DEF Way, Tells
    <3>4. CASE e \in Held(s)
      <4>1. e = hand[i] /\ e # NoFact /\ k = "added"
        BY <3>1, <3>4 DEF Held, Course, SingleOK
      <4>2. hand'[i] = hand[i]
        BY <2>2, <3>1, <4>1
      <4>3. e \in Held(s)'
        BY <4>1, <4>2 DEF Held
      <4> QED BY <3>1, <4>3 DEF Way, Tells
    <3> QED BY <3>1, <3>2, <3>3, <3>4 DEF Way
  <2> QED BY <2>1, <2>2 DEF Corrects, Shown
<1> QED BY <1>2, <1>3, <1>4, <1>5, <1>7, <1>8 DEF Course

\* A step that is of no concern to the session.
LEMMA CourseFrame ==
    ASSUME WayOK, NEW s \in Sessions, Course(s), row' = row,
           phase'[s] = phase[s], ring'[s] = ring[s], overrun'[s] = overrun[s],
           view'[s] = view[s], missed'[s] = {} => missed[s] = {},
           hand'[HostOf[s]] = hand[HostOf[s]], stage'[HostOf[s]] = stage[HostOf[s]],
           feed'[HostOf[s]] = feed[HostOf[s]]
    PROVE  Course(s)'
<1>1. InOrder(feed'[HostOf[s]])
  BY DEF Course, OrderOK
<1> QED BY <1>1, LosesCourse DEF Queued

\* A stream with nothing in it yet, and no snapshot.
LEMMA FreshCourse ==
    ASSUME WayOK, NEW s \in Sessions, Course(s), row' = row,
           phase'[s] # "synced", ring'[s] = <<>>, overrun'[s] = FALSE,
           missed'[s] = {} => missed[s] = {} \/ s \notin Engaged(HostOf[s]),
           \/ /\ feed'[HostOf[s]] = feed[HostOf[s]]
              /\ hand'[HostOf[s]] = hand[HostOf[s]]
              /\ stage'[HostOf[s]] = stage[HostOf[s]]
           \/ feed'[HostOf[s]] = <<>> /\ hand'[HostOf[s]] = NoFact
    PROVE  Course(s)'
<1>1. /\ Queued(s)' \subseteq Queued(s) /\ Held(s)' \subseteq Held(s)
      /\ Range(ring'[s]) = {} /\ InOrder(ring'[s]) /\ InOrder(feed'[HostOf[s]])
  BY OrderEmpty DEF Queued, Held, Course, OrderOK
<1>2. StreamOK(s)'
  BY LimitsAssumption, EmptySeq DEF StreamOK
<1>3. SingleOK(s)'
  BY <1>1 DEF Course, SingleOK
<1>4. OrderOK(s)'
  <2>1. Precede(Held(s)', Queued(s)')
    BY <1>1 DEF Course, OrderOK, Precede
  <2> QED BY <1>1, <2>1 DEF OrderOK, Precede, InOrder
<1>5. PastOK(s)'
  <2>1. \A e : /\ Happened(e) => Happened(e)'
               /\ Pictured(e) => Pictured(e)'
    BY DEF Happened, Pictured
  <2>2. stage'[HostOf[s]] = "delivering" => \A e \in Held(s)' : Pictured(e)
    BY DEF Course, PastOK, Held
  <2>3. \A e \in Held(s)' \cup Queued(s)' : Happened(e)
    BY <1>1 DEF Course, PastOK
  <2> QED BY <1>1, <2>1, <2>2, <2>3 DEF PastOK
<1>6. PicturesOK(s)'
  <2>1. ASSUME missed'[s] = {}, stage'[HostOf[s]] = "delivering", s \in Engaged(HostOf[s])'
        PROVE  Amended(hand'[HostOf[s]], Queued(s)')
    BY <2>1 DEF Engaged, Course, PicturesOK, Queued
  <2> QED BY <1>1, <2>1 DEF PicturesOK, Amended
<1>7. ViewOK(s)'
  BY DEF ViewOK
<1> QED BY <1>2, <1>3, <1>4, <1>5, <1>6, <1>7 DEF Course


\* A session receives what is sent to its recipient, at the end of its ring,
\* or it is marked: it has lost an event.
LEMMA SendReaches ==
    ASSUME WayOK, NEW s \in Sessions, StreamOK(s), NEW i \in Instances,
           NEW e \in Signals, Send(i, e)
    PROVE  /\ phase[s] = "closed" => ring'[s] = ring[s] /\ overrun'[s] = overrun[s]
           /\ Len(ring'[s]) <= Capacity
           /\ ~overrun'[s] =>
                /\ ~overrun[s]
                /\ ring'[s] = IF phase[s] # "closed" /\ HostOf[s] = i /\ CallerOf[s] = e.to
                                THEN Append(ring[s], e) ELSE ring[s]
<1> DEFINE to == IF e.to \in registry[i] THEN Streaming(i, e.to) ELSE {}
<1>1. /\ ring'[s] = IF s \in to THEN Buffer(s, e) ELSE ring[s]
      /\ overrun'[s] = (overrun[s] \/ (s \in to /\ Len(ring[s]) = Capacity))
  BY DEF Send
<1>2. s \in to <=> phase[s] # "closed" /\ HostOf[s] = i /\ CallerOf[s] = e.to
  BY DEF Streaming, Audience, WayOK, EntriesOK, RegistryHoldsStreams
<1>3. ring[s] \in Seq(Facts) /\ e \in Facts /\ Len(ring[s]) \in Nat /\ Len(ring[s]) <= Capacity
  BY OnTheWay DEF StreamOK, Signals
<1>4. Len(Buffer(s, e)) <= Capacity
  <2>1. CASE Len(ring[s]) < Capacity
    <3>1. Len(Append(ring[s], e)) = Len(ring[s]) + 1
      BY <1>3, AppendProperties
    <3> QED BY <1>3, <2>1, <3>1, LimitsAssumption DEF Buffer
  <2>2. CASE ~(Len(ring[s]) < Capacity)
    <3>1. ring[s] # <<>>
      BY <2>2, LimitsAssumption
    <3>2. Tail(ring[s]) \in Seq(Facts) /\ Len(Tail(ring[s])) = Len(ring[s]) - 1
      BY <1>3, <3>1, HeadTailProperties
    <3>3. Len(Append(Tail(ring[s]), e)) = Len(ring[s])
      BY <1>3, <3>2, AppendProperties
    <3> QED BY <1>3, <2>2, <3>3 DEF Buffer
  <2> QED BY <2>1, <2>2
<1>5. Len(ring[s]) # Capacity => Buffer(s, e) = Append(ring[s], e)
  BY <1>3, LimitsAssumption DEF Buffer
<1>6. overrun[s] \in BOOLEAN
  BY DEF WayOK, RingsOK
<1> HIDE DEF to
<1>7. s \notin to => ring'[s] = ring[s] /\ overrun'[s] = overrun[s]
  BY <1>1, <1>6
<1>8. Len(ring'[s]) <= Capacity
  BY <1>1, <1>3, <1>4
<1>9. ~overrun'[s] => ~overrun[s] /\ (s \in to => ring'[s] = Append(ring[s], e))
  BY <1>1, <1>5
<1> QED BY <1>2, <1>7, <1>8, <1>9

\* The listener hands on what comes next: the first of its signals, when that
\* says it all, or the picture it has in hand.
LEMMA SentCourse ==
    ASSUME WayOK, NEW s \in Sessions, Course(s), NEW e \in Signals,
           Send(HostOf[s], e), UNCHANGED <<row, phase, view, missed>>,
           hand'[HostOf[s]] = NoFact,
           \/ /\ hand[HostOf[s]] = NoFact /\ feed[HostOf[s]] # <<>>
              /\ e = Head(feed[HostOf[s]]) /\ e.kind # "added"
              /\ feed'[HostOf[s]] = Tail(feed[HostOf[s]])
           \/ /\ hand[HostOf[s]] = e /\ stage[HostOf[s]] = "delivering"
              /\ feed'[HostOf[s]] = feed[HostOf[s]]
    PROVE  Course(s)'
<1> DEFINE i == HostOf[s]
           R == Range(ring[s])
<1>1. /\ i \in Instances /\ feed[i] \in Seq(Facts) /\ ring[s] \in Seq(Facts)
      /\ e \in Facts /\ e # NoFact /\ e.ids \subseteq IdsOf(e.to)
  BY OnTheWay, SignalIsFact DEF Signals
<1>2. /\ Held(s)' = {}
      /\ Held(s) \cup Queued(s) = {e} \cup Queued(s)'
      /\ Queued(s)' \subseteq Queued(s)
      /\ InOrder(feed'[i])
      /\ Precede({e}, Queued(s)')
  <2>1. CASE hand[i] = NoFact
    <3>1. feed[i] # <<>> /\ e = Head(feed[i]) /\ feed'[i] = Tail(feed[i])
      BY <1>1, <2>1
    <3>2. InOrder(feed[i])
      BY DEF Course, OrderOK
    <3>3. /\ Range(feed[i]) = {e} \cup Range(feed'[i])
          /\ InOrder(feed'[i]) /\ Precede({e}, Range(feed'[i]))
      BY <1>1, <3>1, <3>2, OrderHead
    <3> QED BY <2>1, <3>1, <3>3 DEF Held, Queued
  <2>2. CASE hand[i] # NoFact
    BY <1>1, <2>2 DEF Held, Queued, Course, OrderOK
  <2> QED BY <2>1, <2>2
<1>3. /\ e.kind = "added" => hand[i] = e /\ stage[i] = "delivering"
      /\ Happened(e) /\ (e.kind = "added" => Pictured(e))
  <2>1. e \in Held(s) \cup Queued(s) /\ (hand[i] = e => e \in Held(s))
    BY <1>1, <1>2 DEF Held
  <2> QED BY <1>1, <2>1 DEF Course, PastOK
<1>4. CASE ring'[s] = ring[s] /\ overrun'[s] = overrun[s]
           /\ (CallerOf[s] = e.to => phase[s] = "closed")
  <2>1. \A x \in e.ids \cap IdsOf(CallerOf[s]) : phase[s] = "closed"
    BY <1>1, <1>4 DEF IdsOf
  <2>2. \A f \in Queued(s) \ Queued(s)' : f = e /\ hand[i] = NoFact
    BY <1>1, <1>2 DEF Queued
  <2>3. hand'[i] # hand[i] => hand[i] = e
    BY <1>1
  <2> QED BY <1>2, <1>4, <2>1, <2>2, <2>3, LosesCourse DEF Queued
<1>5. SingleOK(s)' /\ Precede(Held(s)', Queued(s)')
  BY <1>2 DEF Course, SingleOK, Precede
<1>6. /\ \A f : /\ Happened(f) => Happened(f)'
                /\ Pictured(f) => Pictured(f)'
      /\ \A f \in Held(s)' \cup Queued(s)' : Happened(f)
      /\ \A f \in Held(s)' : Pictured(f)
  BY <1>2 DEF Happened, Pictured, Course, PastOK
<1>7. s \notin Engaged(i)'
  BY DEF Engaged
<1>8. CASE overrun'[s] /\ phase[s] # "closed" /\ Len(ring'[s]) <= Capacity
  <2>1. StreamOK(s)'
    BY <1>8 DEF StreamOK
  <2>2. OrderOK(s)'
    BY <1>2, <1>5, <1>8 DEF OrderOK, Precede
  <2>3. PastOK(s)'
    BY <1>6, <1>8 DEF PastOK
  <2>4. PicturesOK(s)' /\ ViewOK(s)'
    BY <1>7, <1>8 DEF PicturesOK, ViewOK
  <2> QED BY <1>5, <2>1, <2>2, <2>3, <2>4 DEF Course
<1>9. CASE /\ ~overrun'[s] /\ ~overrun[s] /\ phase[s] # "closed" /\ CallerOf[s] = e.to
           /\ ring'[s] = Append(ring[s], e) /\ Len(ring'[s]) <= Capacity
  <2>1. /\ InOrder(ring[s]) /\ Precede(R, Held(s) \cup Queued(s))
        /\ Precede(R, {e})
    BY <1>2, <1>9 DEF Course, OrderOK, Precede
  <2>2. InOrder(ring'[s]) /\ Range(ring'[s]) = R \cup {e}
    BY <1>1, <1>9, <2>1, OrderAppend
  <2>3. Precede(R \cup {e}, Held(s)' \cup Queued(s)')
    BY <1>2, <2>1 DEF Precede
  <2>4. OrderOK(s)'
    BY <1>2, <1>5, <2>2, <2>3 DEF OrderOK
  <2>5. StreamOK(s)'
    BY <1>9 DEF StreamOK
  <2>6. PastOK(s)'
    <3>1. \A f \in R : Happened(f) /\ (f.kind = "added" => Pictured(f))
      BY <1>9 DEF Course, PastOK
    <3>2. \A f \in Range(ring'[s]) : Happened(f)' /\ (f.kind = "added" => Pictured(f)')
      BY <1>3, <1>6, <2>2, <3>1
    <3> QED BY <1>6, <3>2 DEF PastOK
  <2>7. PicturesOK(s)'
    <3> SUFFICES ASSUME missed[s] = {}, NEW f \in R \cup {e}, f.kind = "added"
                 PROVE  Amended(f, R \cup {e} \cup Queued(s)')
      BY <1>7, <2>2 DEF PicturesOK, Amended
    <3>1. CASE f = e
      <4>1. s \in Engaged(i)
        BY <1>1, <1>3, <1>9, <3>1 DEF Engaged, Audience
      <4>2. Amended(e, Queued(s))
        BY <1>3, <3>1, <4>1 DEF Course, PicturesOK
      <4> QED BY <1>2, <3>1, <4>2 DEF Amended, Tells
    <3>2. CASE f \in R
      <4>1. Amended(f, R \cup Queued(s))
        BY <1>9, <3>2 DEF Course, PicturesOK
      <4> QED BY <1>2, <4>1 DEF Amended, Tells
    <3> QED BY <3>1, <3>2
  <2>8. ViewOK(s)'
    <3> SUFFICES ASSUME phase[s] = "synced", missed[s] = {}, NEW x \in IdsOf(CallerOf[s])
                 PROVE  Corrects(Way(s)', x, row[x], view[s][x])
      BY DEF ViewOK, IdsOf, Corrects, Tells
    <3>1. Corrects(Way(s), x, row[x], view[s][x])
      BY <1>9 DEF Course, ViewOK
    <3>2. Way(s) \subseteq Way(s)'
      BY <1>2, <2>2 DEF Way
    <3> QED BY <3>1, <3>2 DEF Corrects, Tells
  <2> QED BY <1>5, <2>4, <2>5, <2>6, <2>7, <2>8 DEF Course
<1>10. /\ phase[s] = "closed" => ring'[s] = ring[s] /\ overrun'[s] = overrun[s]
       /\ Len(ring'[s]) <= Capacity
       /\ ~overrun'[s] =>
            /\ ~overrun[s]
            /\ ring'[s] = IF phase[s] # "closed" /\ CallerOf[s] = e.to
                            THEN Append(ring[s], e) ELSE ring[s]
  <2>1. StreamOK(s)
    BY DEF Course
  <2> QED BY <1>1, <2>1, SendReaches
<1>11. overrun[s] \in BOOLEAN /\ overrun'[s] \in BOOLEAN
  BY DEF WayOK, RingsOK, Send
<1> QED
  BY <1>4, <1>8, <1>9, <1>10, <1>11


\* An added signal moves to the listener's hands.
LEMMA TakeCourse ==
    ASSUME WayOK, NEW s \in Sessions, Course(s), Take(HostOf[s])
    PROVE  Course(s)'
<1> DEFINE i == HostOf[s]
           R == Range(ring[s])
           e == Head(feed[i])
<1>1. /\ i \in Instances /\ feed[i] \in Seq(Facts) /\ feed[i] # <<>>
      /\ hand[i] = NoFact /\ e \in Signals /\ e # NoFact /\ e.kind = "added"
      /\ e.ids \subseteq IdsOf(e.to)
  BY OnTheWay, HeadOfFeed, SignalIsFact DEF Take, WayOK, ListenersOK, Signals
<1>2. /\ feed'[i] = Tail(feed[i]) /\ hand'[i] = e /\ stage'[i] = "reading"
      /\ UNCHANGED <<row, phase, ring, overrun, view, missed>>
  BY <1>1 DEF Take, streams, WayOK, ListenersOK
<1>3. /\ Held(s) = {} /\ Held(s)' = {e} /\ R' = R
      /\ Queued(s) = {e} \cup Queued(s)'
      /\ InOrder(feed'[i]) /\ Precede({e}, Queued(s)')
  <2>1. InOrder(feed[i])
    BY DEF Course, OrderOK
  <2> QED BY <1>1, <1>2, <2>1, OrderHead DEF Held, Queued
<1>4. Way(s)' = Way(s)
  BY <1>3 DEF Way
<1>5. StreamOK(s)'
  BY <1>2 DEF Course, StreamOK
<1>6. SingleOK(s)'
  BY <1>1, <1>3 DEF Course, SingleOK
<1>7. OrderOK(s)'
  BY <1>2, <1>3 DEF Course, OrderOK, Precede
<1>8. PastOK(s)'
  <2>1. \A f : /\ Happened(f) => Happened(f)'
               /\ Pictured(f) => Pictured(f)'
    BY <1>2 DEF Happened, Pictured
  <2>2. stage'[i] # "delivering"
    BY <1>2
  <2> QED BY <1>2, <1>3, <2>1, <2>2 DEF Course, PastOK
<1>9. PicturesOK(s)'
  <2> SUFFICES ASSUME missed[s] = {}, ~overrun[s], NEW f \in R, f.kind = "added"
               PROVE  Amended(f, R \cup Queued(s)')
    BY <1>2, <1>3 DEF PicturesOK, Amended
  <2>1. Amended(f, R \cup Queued(s))
    BY DEF Course, PicturesOK
  <2> QED BY <1>1, <1>3, <2>1 DEF Amended, Tells
<1>10. ViewOK(s)'
  BY <1>2, <1>4 DEF Course, ViewOK, IdsOf, Corrects, Tells
<1> QED BY <1>5, <1>6, <1>7, <1>8, <1>9, <1>10 DEF Course

\* The picture is the row as it is, or there is none.
LEMMA RereadCourse ==
    ASSUME WayOK, NEW s \in Sessions, Course(s), Reread(HostOf[s])
    PROVE  Course(s)'
<1> DEFINE i == HostOf[s]
           R == Range(ring[s])
           e == hand[i]
           now == {row[x] : x \in e.ids} \cap Shown
<1>1. /\ i \in Instances /\ e \in Signals /\ e # NoFact /\ e.kind = "added"
      /\ e \in Held(s) /\ Held(s) = {e}
  <2>1. i \in Instances /\ e # NoFact /\ e \in Signals
    BY OnTheWay DEF Reread, WayOK, ListenersOK
  <2> QED BY <2>1 DEF Held, Course, SingleOK
<1>2. PICK x \in Ids : e.ids = {x}
  BY <1>1 DEF Course, SingleOK
<1>3. UNCHANGED <<row, feed, phase, ring, overrun, view, missed>>
  BY DEF Reread, streams
<1>4. CASE row[x] \notin Shown
  <2>1. now = {}
    BY <1>2, <1>4
  <2>2. hand'[i] = NoFact
    BY <1>1, <2>1 DEF Reread, Drop, WayOK, ListenersOK
  <2>3. InOrder(feed'[i])
    BY <1>3 DEF Course, OrderOK
  <2> QED BY <1>2, <1>3, <1>4, <2>2, <2>3, LosesCourse DEF Queued
<1>5. CASE row[x] \in Shown
  <2> DEFINE g == [e EXCEPT !.row = row[x]]
  <2>1. now = {row[x]}
    BY <1>2, <1>5
  <2>2. hand'[i] = g /\ stage'[i] = "delivering"
    <3>1. (CHOOSE r \in now : TRUE) = row[x]
      BY <2>1
    <3>2. /\ hand' = [hand EXCEPT ![i].row = CHOOSE r \in now : TRUE]
          /\ stage' = [stage EXCEPT ![i] = "delivering"]
      BY <2>1 DEF Reread
    <3> HIDE DEF now
    <3>3. hand' = [hand EXCEPT ![i].row = row[x]]
      BY <3>1, <3>2
    <3> QED BY <1>1, <3>2, <3>3 DEF WayOK, ListenersOK
  <2>3. /\ g.kind = e.kind /\ g.ids = e.ids /\ g.to = e.to /\ g.row = row[x]
        /\ g \in Signals /\ g # NoFact
    BY <1>1, <1>5, SignalIsFact DEF Signals, Facts
  <2> HIDE DEF g
  <2>4. Held(s)' = {g} /\ Queued(s)' = Queued(s) /\ R' = R
    BY <1>3, <2>2, <2>3 DEF Held, Queued
  <2>5. StreamOK(s)'
    BY <1>3 DEF Course, StreamOK
  <2>6. SingleOK(s)'
    BY <1>1, <2>3, <2>4 DEF Course, SingleOK
  <2>7. OrderOK(s)'
    BY <1>1, <1>3, <2>3, <2>4 DEF Course, OrderOK, Precede
  <2>8. PastOK(s)'
    <3>1. \A f : /\ Happened(f) => Happened(f)'
                 /\ Pictured(f) => Pictured(f)'
      BY <1>3 DEF Happened, Pictured
    <3>2. Happened(g) /\ Pictured(g)
      BY <1>1, <1>2, <1>5, <2>3 DEF Course, PastOK, Happened, Pictured
    <3> QED BY <1>3, <2>4, <3>1, <3>2 DEF Course, PastOK
  <2>9. PicturesOK(s)'
    <3>1. Amended(g, Queued(s))
      BY <1>2, <1>5, <2>3 DEF Amended, Shown
    <3> QED BY <1>3, <2>2, <2>4, <3>1 DEF Course, PicturesOK, Amended
  <2>10. ViewOK(s)'
    <3>1. \A y, k : Tells(Way(s), y, k) => Tells(Way(s)', y, k)
      BY <1>1, <2>3, <2>4 DEF Way, Tells
    <3> QED BY <1>3, <3>1 DEF Course, ViewOK, IdsOf, Corrects, Tells
  <2> QED BY <2>5, <2>6, <2>7, <2>8, <2>9, <2>10 DEF Course
<1> QED BY <1>4, <1>5

\* The snapshot: every entry is what the row is.
LEMMA SnapshotCourse ==
    ASSUME WayOK, NEW s \in Sessions, Course(s), Snapshot(s)
    PROVE  Course(s)'
<1>1. /\ UNCHANGED <<row, feed, stage, hand, ring, overrun, missed>>
      /\ phase[s] = "open" /\ phase'[s] = "synced"
      /\ view'[s] = [x \in Ids |-> Answer(s, x)]
  BY DEF Snapshot, listeners, WayOK, ClientsOK
<1>2. StreamOK(s)' /\ SingleOK(s)'
  BY <1>1 DEF Course, StreamOK, SingleOK, Held, Queued
<1>3. OrderOK(s)'
  BY <1>1 DEF Course, OrderOK, Held, Queued, InOrder, Precede
<1>4. PastOK(s)'
  BY <1>1 DEF Course, PastOK, Held, Queued, Happened, Pictured
<1>5. PicturesOK(s)'
  BY <1>1 DEF Course, PicturesOK, Engaged, Queued, Amended, Tells
<1>6. ViewOK(s)'
  <2> SUFFICES ASSUME NEW x \in IdsOf(CallerOf[s])
               PROVE  Corrects(Way(s)', x, row[x], view'[s][x])
    BY <1>1 DEF ViewOK, IdsOf, Corrects, Tells
  <2>1. view'[s][x] = IF row[x] \in Shown THEN row[x] ELSE "none"
    BY <1>1 DEF Answer, IdsOf
  <2> QED BY <2>1 DEF Corrects, Shown
<1> QED BY <1>2, <1>3, <1>4, <1>5, <1>6 DEF Course

\* What the client makes of an event corrects no less than the event did.
LEMMA ReceiveCourse ==
    ASSUME WayOK, NEW s \in Sessions, Course(s), Receive(s)
    PROVE  Course(s)'
<1> DEFINE e == Head(ring[s])
           R == Range(ring[s])
<1>1. /\ UNCHANGED <<row, feed, stage, hand, phase, overrun, missed>>
      /\ phase[s] = "synced" /\ ~overrun[s] /\ ring[s] # <<>>
      /\ ring'[s] = Tail(ring[s])
      /\ view'[s] = Fold(view[s], e)
      /\ view[s] \in [Ids -> Shown \cup {"none"}]
  BY DEF Receive, listeners, WayOK, ClientsOK, RingsOK
<1>2. /\ ring[s] \in Seq(Facts) /\ Len(ring[s]) \in Nat
      /\ \A f \in R : /\ f.ids \subseteq IdsOf(CallerOf[s])
                      /\ f.kind \in {"added", "read", "deleted"}
  BY OnTheWay DEF Way
<1>3. InOrder(ring[s]) /\ Precede(R, Held(s) \cup Queued(s))
  BY <1>1 DEF Course, OrderOK
<1>4. /\ R = {e} \cup Range(ring'[s])
      /\ Len(ring'[s]) < Len(ring[s])
      /\ InOrder(ring'[s]) /\ Precede({e}, Range(ring'[s]))
  BY <1>1, <1>2, <1>3, OrderHead
<1>5. Len(ring'[s]) \in Nat
  BY <1>1, <1>2, HeadTailProperties, LenProperties
<1>6. Held(s)' = Held(s) /\ Queued(s)' = Queued(s)
  BY <1>1 DEF Held, Queued
<1>7. StreamOK(s)' /\ SingleOK(s)'
  BY <1>1, <1>2, <1>4, <1>5, <1>6, LimitsAssumption DEF Course, StreamOK, SingleOK
<1>8. OrderOK(s)'
  BY <1>1, <1>3, <1>4, <1>6 DEF Course, OrderOK, Precede
<1>9. PastOK(s)'
  <2>1. \A f : /\ Happened(f) => Happened(f)'
               /\ Pictured(f) => Pictured(f)'
    BY <1>1 DEF Happened, Pictured
  <2> QED BY <1>1, <1>4, <1>6, <2>1 DEF Course, PastOK
<1>10. PicturesOK(s)'
  <2>1. ASSUME missed[s] = {}, NEW f \in Range(ring'[s]), f.kind = "added"
        PROVE  Amended(f, Range(ring'[s]) \cup Queued(s))
    <3>1. Amended(f, R \cup Queued(s))
      BY <1>1, <1>4, <2>1 DEF Course, PicturesOK
    <3>2. \A x \in f.ids \cap e.ids : e.kind = "added"
      BY <1>4, <2>1 DEF Precede, NotAfter
    <3> QED BY <1>4, <3>1, <3>2 DEF Amended, Tells
  <2> QED BY <1>1, <1>6, <2>1 DEF Course, PicturesOK, Engaged, Amended
<1>11. ViewOK(s)'
  <2> SUFFICES ASSUME missed[s] = {}, NEW x \in IdsOf(CallerOf[s])
               PROVE  Corrects(Way(s)', x, row[x], view'[s][x])
    BY <1>1 DEF ViewOK, IdsOf, Corrects, Tells
  <2>1. Corrects(Way(s), x, row[x], view[s][x])
    BY <1>1 DEF Course, ViewOK
  <2>2. /\ x \in Ids /\ view[s][x] \in Shown \cup {"none"}
        /\ Way(s) = {e} \cup Way(s)'
    BY <1>1, <1>4, <1>6 DEF IdsOf, Way
  <2>3. CASE x \notin e.ids
    BY <1>1, <2>1, <2>2, <2>3 DEF Fold, Corrects, Tells
  <2>4. CASE x \in e.ids
    <3>1. Happened(e) /\ (e.kind = "added" => Pictured(e))
      BY <1>1, <1>4 DEF Course, PastOK
    <3>2. ASSUME NEW k, Tells(Way(s), x, k), k # e.kind
          PROVE  Tells(Way(s)', x, k)
      BY <2>2, <3>2 DEF Tells
    <3>3. CASE e.kind = "added"
      <4>1. view'[s][x] = IF view[s][x] = "none" THEN e.row ELSE view[s][x]
        BY <1>1, <2>2, <2>4, <3>3 DEF Fold
      <4>2. Amended(e, R \cup Queued(s))
        BY <1>1, <1>4, <3>3 DEF Course, PicturesOK
      <4>3. \A k : Tells(R \cup Queued(s), x, k) => Tells(Way(s), x, k)
        BY DEF Way, Tells
      <4>4. /\ row[x] = "deleted" => Tells(Way(s)', x, "deleted")
            /\ row[x] = "read" /\ e.row = "unread" => Tells(Way(s)', x, "read")
        BY <2>4, <3>2, <3>3, <4>2, <4>3 DEF Amended
      <4>5. /\ e.row \in Shown /\ row[x] # "absent"
            /\ e.row = "read" => row[x] # "unread"
        BY <2>4, <3>1, <3>3 DEF Happened, Pictured
      <4>6. row[x] = "read" /\ view[s][x] = "unread" => Tells(Way(s)', x, "read")
        BY <2>1, <3>2, <3>3 DEF Corrects
      <4> QED BY <2>1, <4>1, <4>4, <4>5, <4>6 DEF Corrects, Shown
    <3>4. CASE e.kind = "read"
      <4>1. view'[s][x] = IF view[s][x] = "none" THEN "none" ELSE "read"
        BY <1>1, <2>2, <2>4, <3>4 DEF Fold
      <4>2. row[x] # "unread" /\ row[x] # "absent"
        BY <2>4, <3>1, <3>4 DEF Happened
      <4> QED BY <2>1, <3>2, <3>4, <4>1, <4>2 DEF Corrects, Shown
    <3>5. CASE e.kind = "deleted"
      <4>1. view'[s][x] = "none"
        BY <1>1, <2>2, <2>4, <3>5 DEF Fold
      <4>2. row[x] = "deleted"
        BY <2>4, <3>1, <3>5 DEF Happened
      <4> QED BY <4>1, <4>2 DEF Corrects, Shown
    <3> QED BY <1>2, <1>4, <3>3, <3>4, <3>5
  <2> QED BY <2>3, <2>4
<1> QED BY <1>7, <1>8, <1>9, <1>10, <1>11 DEF Course


-----------------------------------------------------------------------------
(* Every step keeps CourseOK. *)

LEMMA InitCourse == ASSUME Init, NEW s \in Sessions PROVE Course(s)
<1>1. /\ HostOf[s] \in Instances
      /\ feed[HostOf[s]] = <<>> /\ hand[HostOf[s]] = NoFact
      /\ ring[s] = <<>> /\ overrun[s] = FALSE /\ phase[s] = "closed"
  BY SessionsAssumption DEF Init
<1>2. Queued(s) = {} /\ Held(s) = {} /\ Range(ring[s]) = {}
  BY <1>1, OrderEmpty DEF Queued, Held
<1>3. StreamOK(s)
  BY <1>1, LimitsAssumption, EmptySeq DEF StreamOK
<1>4. OrderOK(s)
  BY <1>1, <1>2, OrderEmpty DEF OrderOK, Precede
<1>5. SingleOK(s) /\ PastOK(s) /\ PicturesOK(s) /\ ViewOK(s)
  BY <1>1, <1>2 DEF SingleOK, PastOK, PicturesOK, Engaged, ViewOK
<1> QED BY <1>3, <1>4, <1>5 DEF Course

\* Every write of the service is a write of one kind that announces its ids.
Written(kind, ids, q) ==
    /\ \A x \in ids : Ready(kind, x)
    /\ row' = [x \in Ids |-> IF x \in ids THEN After(kind) ELSE row[x]]
    /\ Announces(q, kind, ids) /\ Commit(q)
    /\ UNCHANGED <<stage, hand, phase, ring, overrun, view>>

LEMMA WriteIsWritten ==
    ASSUME Write
    PROVE  \E kind \in {"added", "read", "deleted"}, ids \in SUBSET Ids :
             \E q : Written(kind, ids, q)
<1>1. ASSUME NEW ids \in SUBSET Ids, Insert(ids)
      PROVE  \E q : Written("added", ids, q)
  <2> DEFINE q == [n \in 1..Cardinality(ids) |->
                     Fact("added", OwnerOf[Listed(ids)[n]], {Listed(ids)[n]})]
  <2>1. Announces(q, "added", ids)
    BY InsertAnnounces
  <2>2. Commit(q) /\ UNCHANGED <<stage, hand, phase, ring, overrun, view>>
    BY <1>1 DEF Insert
  <2>3. /\ \A x \in ids : Ready("added", x)
        /\ row' = [x \in Ids |-> IF x \in ids THEN After("added") ELSE row[x]]
    BY <1>1 DEF Insert, Ready, After
  <2> HIDE DEF q
  <2>4. Written("added", ids, q)
    BY <2>1, <2>2, <2>3 DEF Written
  <2> QED BY <2>4
<1>2. ASSUME NEW p \in Recipients, NEW ids \in SUBSET IdsOf(p),
             MarkRead(p, ids) \/ Delete(p, ids)
      PROVE  \E kind \in {"read", "deleted"} : Written(kind, ids, Chunked(kind, p, ids))
  <2>1. \A kind \in {"read", "deleted"} : Announces(Chunked(kind, p, ids), kind, ids)
    BY ChunkedAnnounces
  <2>2. CASE MarkRead(p, ids)
    <3>1. Written("read", ids, Chunked("read", p, ids))
      BY <2>1, <2>2 DEF MarkRead, Written, Ready, After
    <3> QED BY <3>1
  <2>3. CASE Delete(p, ids)
    <3>1. Written("deleted", ids, Chunked("deleted", p, ids))
      BY <2>1, <2>3 DEF Delete, Written, Ready, After, Kept
    <3> QED BY <3>1
  <2> QED BY <1>2, <2>2, <2>3
<1>3. \A p : SUBSET IdsOf(p) \subseteq SUBSET Ids
  BY DEF IdsOf
<1> QED BY <1>1, <1>2, <1>3 DEF Write

LEMMA WriterCourse ==
    ASSUME WayOK, NEW s \in Sessions, Course(s), Write
    PROVE  Course(s)'
<1>1. PICK kind \in {"added", "read", "deleted"}, ids \in SUBSET Ids :
        \E q : Written(kind, ids, q)
  BY WriteIsWritten
<1>2. PICK q : Written(kind, ids, q)
  BY <1>1
<1> QED BY <1>2, WriteCourse DEF Written

\* Another instance's listener is of no concern to the session.
LEMMA Elsewhere ==
    ASSUME WayOK, NEW s \in Sessions, NEW i \in Instances, HostOf[s] # i,
           Listen(i) \/ Dispatch(i) \/ Fail(i)
    PROVE  /\ row' = row
           /\ feed'[HostOf[s]] = feed[HostOf[s]] /\ hand'[HostOf[s]] = hand[HostOf[s]]
           /\ stage'[HostOf[s]] = stage[HostOf[s]]
           /\ phase'[s] = phase[s] /\ view'[s] = view[s]
           /\ ring'[s] = ring[s] /\ overrun'[s] = overrun[s]
           /\ missed'[s] = {} => missed[s] = {}
<1>1. HostOf[s] \in Instances
  BY OnTheWay
<1>2. /\ row' = row
      /\ feed'[HostOf[s]] = feed[HostOf[s]] /\ hand'[HostOf[s]] = hand[HostOf[s]]
      /\ stage'[HostOf[s]] = stage[HostOf[s]]
  BY <1>1 DEF Listen, Dispatch, Undecodable, Skip, Forward, Take, Reread,
              Deliver, Drop, Fail, LoseChannel, RereadFails, Restart, streams,
              WayOK, ListenersOK
<1>3. missed'[s] = {} => missed[s] = {}
  BY DEF Listen, Dispatch, Undecodable, Skip, Forward, Take, Reread, Deliver,
         Fail, LoseChannel, RereadFails, Restart, Miss, streams
<1>4. \A e : Send(i, e) => ring'[s] = ring[s] /\ overrun'[s] = overrun[s]
  <2> TAKE e
  <2>1. s \notin Streaming(i, e.to) /\ overrun[s] \in BOOLEAN
    BY DEF Streaming, Audience, WayOK, RingsOK
  <2> QED BY <2>1 DEF Send
<1>5. \/ phase' = phase /\ view' = view /\ ring'[s] = ring[s] /\ overrun'[s] = overrun[s]
      \/ Restart(i)
  BY <1>4 DEF Listen, Dispatch, Undecodable, Skip, Forward, Take, Reread,
              Deliver, Fail, LoseChannel, RereadFails, streams
<1>6. Restart(i) => /\ phase'[s] = phase[s] /\ view'[s] = view[s]
                    /\ ring'[s] = ring[s] /\ overrun'[s] = overrun[s]
  BY DEF Restart, Ended
<1> QED BY <1>2, <1>3, <1>5, <1>6

LEMMA ElsewhereCourse ==
    ASSUME WayOK, NEW s \in Sessions, Course(s), NEW i \in Instances, HostOf[s] # i,
           Listen(i) \/ Dispatch(i) \/ Fail(i)
    PROVE  Course(s)'
  BY Elsewhere, CourseFrame

LEMMA DispatchCourse ==
    ASSUME WayOK, NEW s \in Sessions, Course(s), Dispatch(HostOf[s])
    PROVE  Course(s)'
<1> DEFINE i == HostOf[s]
<1>1. i \in Instances /\ feed[i] \in Seq(Facts) /\ InOrder(feed[i])
  BY OnTheWay DEF Course, OrderOK
<1>0. ASSUME Undecodable(i) PROVE Course(s)'
  <2>1. /\ feed[i] # <<>> /\ feed'[i] = Tail(feed[i])
        /\ UNCHANGED <<row, hand, stage, phase, ring, overrun, view>>
    BY <1>1, <1>0 DEF Undecodable, WayOK, ListenersOK
  <2>2. InOrder(feed'[i]) /\ Range(feed[i]) = {Head(feed[i])} \cup Range(feed'[i])
    BY <1>1, <2>1, OrderHead
  <2>3. ASSUME missed'[s] = {}
        PROVE  missed[s] = {} /\ Head(feed[i]).to # CallerOf[s]
    BY <1>0, <2>3 DEF Undecodable, Miss, Audience
  <2>4. Head(feed[i]).ids \subseteq IdsOf(Head(feed[i]).to)
    BY <1>1, <2>1, HeadOfFeed DEF WayOK, Signals
  <2>5. missed'[s] = {} => Head(feed[i]).ids \cap IdsOf(CallerOf[s]) = {}
    BY <2>3, <2>4 DEF IdsOf
  <2> QED BY <2>1, <2>2, <2>3, <2>5, LosesCourse DEF Queued
<1>2. ASSUME Skip(i) PROVE Course(s)'
  <2>1. /\ feed[i] # <<>> /\ hand[i] = NoFact /\ feed'[i] = Tail(feed[i])
        /\ UNCHANGED <<row, hand, stage, phase, ring, overrun, view, missed>>
    BY <1>1, <1>2 DEF Skip, streams, WayOK, ListenersOK
  <2>2. InOrder(feed'[i]) /\ Range(feed[i]) = {Head(feed[i])} \cup Range(feed'[i])
    BY <1>1, <2>1, OrderHead
  <2>3. Head(feed[i]).ids \cap IdsOf(CallerOf[s]) # {} => phase[s] = "closed"
    <3>1. Head(feed[i]).to = CallerOf[s] => phase[s] = "closed"
      BY <1>2 DEF Skip, Inactive, Watched, Streaming, Audience, WayOK, EntriesOK,
                  RegistryHoldsStreams
    <3>2. Head(feed[i]).ids \subseteq IdsOf(Head(feed[i]).to)
      BY <1>1, <2>1, HeadOfFeed DEF WayOK, Signals
    <3> QED BY <3>1, <3>2 DEF IdsOf
  <2> QED BY <2>1, <2>2, <2>3, LosesCourse DEF Queued
<1>3. ASSUME Forward(i) PROVE Course(s)'
  <2>1. /\ Head(feed[i]) \in Signals /\ Send(i, Head(feed[i]))
        /\ feed[i] # <<>> /\ hand[i] = NoFact /\ feed'[i] = Tail(feed[i])
        /\ hand'[i] = NoFact /\ Head(feed[i]).kind # "added"
        /\ UNCHANGED <<row, phase, view, missed>>
    BY <1>1, <1>3, HeadOfFeed DEF Forward, WayOK, ListenersOK
  <2> QED BY <2>1, SentCourse
<1>4. ASSUME Deliver(i) PROVE Course(s)'
  <2>1. /\ hand[i] \in Signals /\ Send(i, hand[i]) /\ stage[i] = "delivering"
        /\ hand'[i] = NoFact /\ feed'[i] = feed[i]
        /\ UNCHANGED <<row, phase, view, missed>>
    BY <1>1, <1>4 DEF Deliver, Drop, WayOK, ListenersOK
  <2> QED BY <2>1, SentCourse
<1> QED BY <1>0, <1>2, <1>3, <1>4, TakeCourse, RereadCourse DEF Dispatch

LEMMA FailCourse ==
    ASSUME WayOK, NEW s \in Sessions, Course(s), Fail(HostOf[s])
    PROVE  Course(s)'
<1> DEFINE i == HostOf[s]
<1>1. i \in Instances /\ feed[i] \in Seq(Facts) /\ InOrder(feed[i])
  BY OnTheWay DEF Course, OrderOK
<1>2. ASSUME LoseChannel(i) PROVE Course(s)'
  <2>1. PICK n \in 0..Len(feed[i]) :
          /\ feed' = [feed EXCEPT ![i] = SubSeq(@, 1, n)]
          /\ Miss(UNION {Audience(i, feed[i][m].to) : m \in (n+1)..Len(feed[i])},
                  [t \in Sessions |-> "broken"])
    BY <1>2 DEF LoseChannel
  <2>2. /\ feed'[i] = SubSeq(feed[i], 1, n)
        /\ UNCHANGED <<row, hand, stage, phase, ring, overrun, view>>
    BY <1>1, <1>2, <2>1 DEF LoseChannel, WayOK, ListenersOK
  <2>3. /\ InOrder(feed'[i]) /\ Range(feed'[i]) \subseteq Range(feed[i])
        /\ \A e \in Range(feed[i]) : e \notin Range(feed'[i]) =>
             \E m \in (n + 1)..Len(feed[i]) : e = feed[i][m]
    <3>1. /\ InOrder(SubSeq(feed[i], 1, n))
          /\ Range(SubSeq(feed[i], 1, n)) \subseteq Range(feed[i])
          /\ \A e \in Range(feed[i]) : e \notin Range(SubSeq(feed[i], 1, n)) =>
               \E m \in (n + 1)..Len(feed[i]) : e = feed[i][m]
      BY <1>1, OrderPrefix
    <3> QED BY <2>2, <3>1
  <2>4. ASSUME missed'[s] = {}
        PROVE  /\ missed[s] = {}
               /\ \A m \in (n + 1)..Len(feed[i]) : feed[i][m].to # CallerOf[s]
    <3> DEFINE lost == UNION {Audience(i, feed[i][m].to) : m \in (n+1)..Len(feed[i])}
    <3>1. s \notin lost /\ missed[s] = {}
      <4> HIDE DEF lost
      <4>1. Miss(lost, [t \in Sessions |-> "broken"])
        BY <2>1 DEF lost
      <4> QED BY <2>4, <4>1 DEF Miss
    <3>2. \A m \in (n + 1)..Len(feed[i]) : s \notin Audience(i, feed[i][m].to)
      BY <3>1
    <3> QED BY <3>1, <3>2 DEF Audience
  <2>5. ASSUME missed'[s] = {}, NEW e \in Queued(s), e \notin Range(feed'[i])
        PROVE  e.ids \cap IdsOf(CallerOf[s]) = {}
    <3>1. e.to # CallerOf[s]
      BY <2>3, <2>4, <2>5 DEF Queued
    <3>2. e.ids \subseteq IdsOf(e.to)
      BY OnTheWay DEF Way
    <3> QED BY <3>1, <3>2 DEF IdsOf
  <2> QED BY <2>2, <2>3, <2>4, <2>5, LosesCourse
<1>3. ASSUME RereadFails(i) PROVE Course(s)'
  <2>1. /\ hand'[i] = NoFact
        /\ UNCHANGED <<row, feed, phase, ring, overrun, view>>
    BY <1>1, <1>3 DEF RereadFails, Drop, WayOK, ListenersOK
  <2>2. ASSUME missed'[s] = {}
        PROVE  missed[s] = {} /\ hand[i].to # CallerOf[s]
    BY <1>3, <2>2 DEF RereadFails, Miss, Audience
  <2>3. hand[i].ids \subseteq IdsOf(hand[i].to)
    BY <1>1, <1>3 DEF RereadFails, WayOK, ListenersOK, Signals
  <2>4. missed'[s] = {} => hand[i].ids \cap IdsOf(CallerOf[s]) = {}
    BY <2>2, <2>3 DEF IdsOf
  <2> QED BY <1>1, <2>1, <2>2, <2>4, LosesCourse DEF Queued
<1>4. ASSUME Restart(i) PROVE Course(s)'
  <2>1. /\ phase'[s] = "closed" /\ ring'[s] = <<>> /\ overrun'[s] = FALSE
        /\ row' = row /\ missed' = missed
        /\ feed'[i] = <<>> /\ hand'[i] = NoFact
    BY <1>1, <1>4 DEF Restart, Ended, WayOK, ListenersOK
  <2> QED BY <2>1, FreshCourse
<1> QED BY <1>2, <1>3, <1>4 DEF Fail

LEMMA ListenCourse ==
    ASSUME WayOK, NEW s \in Sessions, Course(s), Listen(HostOf[s])
    PROVE  Course(s)'
  BY CourseFrame DEF Listen, streams

LEMMA SessionCourse ==
    ASSUME WayOK, NEW s \in Sessions, Course(s), NEW t \in Sessions,
           Open(t) \/ Follow(t) \/ Leave(t)
    PROVE  Course(s)'
<1>1. CASE Open(t)
  <2>1. UNCHANGED <<row, feed, stage, hand, ring, overrun, view>>
    BY <1>1 DEF Open
  <2>2. CASE s = t
    <3>1. ring[s] = <<>> /\ overrun[s] = FALSE
      BY <1>1, <2>2 DEF Open, Course, StreamOK, WayOK, RingsOK
    <3>2. /\ phase'[s] = "open"
          /\ missed'[s] = {} => missed[s] = {} \/ s \notin Engaged(HostOf[s])
      BY <1>1, <2>2 DEF Open, WayOK, ClientsOK
    <3> QED BY <2>1, <3>1, <3>2, FreshCourse
  <2>3. CASE s # t
    <3>1. phase'[s] = phase[s] /\ missed'[s] = missed[s]
      BY <1>1, <2>3 DEF Open, WayOK, ClientsOK, HistoryOK
    <3> QED BY <2>1, <3>1, CourseFrame
  <2> QED BY <2>2, <2>3
<1>2. CASE Snapshot(t) \/ Receive(t)
  <2>1. CASE s # t
    <3>1. /\ phase'[s] = phase[s] /\ view'[s] = view[s] /\ ring'[s] = ring[s]
          /\ UNCHANGED <<row, feed, stage, hand, overrun, missed>>
      BY <1>2, <2>1 DEF Snapshot, Receive, listeners, WayOK, ClientsOK, RingsOK
    <3> QED BY <3>1, CourseFrame
  <2> QED BY <1>2, <2>1, SnapshotCourse, ReceiveCourse
<1>3. CASE EndLagged(t) \/ Leave(t)
  <2>1. Ended({t}) /\ UNCHANGED <<row, feed, stage, hand, missed>>
    BY <1>3 DEF EndLagged, Leave, listeners
  <2>2. CASE s = t
    <3>1. phase'[s] = "closed" /\ ring'[s] = <<>> /\ overrun'[s] = FALSE
      BY <2>1, <2>2 DEF Ended
    <3> QED BY <2>1, <3>1, FreshCourse
  <2>3. CASE s # t
    <3>1. /\ phase'[s] = phase[s] /\ ring'[s] = ring[s]
          /\ overrun'[s] = overrun[s] /\ view'[s] = view[s]
      BY <2>1, <2>3 DEF Ended
    <3> QED BY <2>1, <3>1, CourseFrame
  <2> QED BY <2>2, <2>3
<1> QED BY <1>1, <1>2, <1>3 DEF Follow

LEMMA NextCourse ==
    ASSUME WayOK, NEW s \in Sessions, Course(s), [Next]_vars
    PROVE  Course(s)'
<1>1. CASE Write
  BY <1>1, WriterCourse
<1>2. ASSUME NEW i \in Instances, Listen(i) \/ Dispatch(i) \/ Fail(i)
      PROVE  Course(s)'
  <2>1. CASE HostOf[s] = i
    BY <1>2, <2>1, ListenCourse, DispatchCourse, FailCourse
  <2>2. CASE HostOf[s] # i
    BY <1>2, <2>2, ElsewhereCourse
  <2> QED BY <2>1, <2>2
<1>3. ASSUME NEW t \in Sessions, Open(t) \/ Follow(t) \/ Leave(t)
      PROVE  Course(s)'
  BY <1>3, SessionCourse
<1>4. CASE UNCHANGED vars
  BY <1>4, CourseFrame DEF vars, listeners, streams
<1> QED BY <1>1, <1>2, <1>3, <1>4 DEF Next

-----------------------------------------------------------------------------
\* In every state, an entry of a view that differs from its row has the fact
\* of the difference behind it, unless one was lost, and no late picture of a
\* row can undo it (src/realtime.rs 61-112, src/graphql.rs 203-243).
THEOREM CourseAlwaysOK == Spec => []CourseOK
<1>1. Init => CourseOK
  BY InitWay, InitCourse DEF CourseOK
<1>2. CourseOK /\ [Next]_vars => CourseOK'
  BY NextWay, NextCourse DEF CourseOK
<1> QED
  BY <1>1, <1>2, PTL DEF Spec

\* A session that opened, took its snapshot and folded shows exactly its
\* recipient's rows whenever nothing is under way and nothing was lost
\* (README.md, "Reconnect protocol"; src/realtime.rs 51-112, src/graphql.rs
\* 203-243).
THEOREM SessionsConverge == Spec => []Converged
<1>1. ASSUME CourseOK PROVE Converged
  <2> SUFFICES ASSUME NEW s \in Sessions, phase[s] = "synced", missed[s] = {}, Quiet(s)
               PROVE  Current(s)
    BY DEF Converged
  <2>1. /\ WayOK /\ Course(s)
        /\ view[s] \in [Ids -> Shown \cup {"none"}]
        /\ row \in [Ids -> Shown \cup {"absent", "deleted"}]
    BY <1>1 DEF CourseOK, WayOK, ClientsOK, StoreOK
  <2>2. ASSUME NEW x \in Ids PROVE view[s][x] = Answer(s, x)
    <3>1. CASE x \notin IdsOf(CallerOf[s])
      BY <2>1, <3>1 DEF WayOK, ClientsOK, NothingForeign, IdsOf, Answer
    <3>2. CASE x \in IdsOf(CallerOf[s])
      <4>1. Corrects(Way(s), x, row[x], view[s][x])
        BY <2>1, <3>2 DEF Course, ViewOK, Quiet
      <4>2. \A e \in Way(s) : x \notin e.ids
        <5>1. \A e \in Way(s) : e.to # CallerOf[s]
          <6>1. Range(ring[s]) = {}
            BY OrderEmpty DEF Quiet
          <6>2. \A e \in Queued(s) : e.to # CallerOf[s]
            BY DEF Quiet, Queued, Range
          <6>3. \A e \in Held(s) : e.to # CallerOf[s]
            BY DEF Quiet, Held, Engaged, Audience
          <6> QED BY <6>1, <6>2, <6>3 DEF Way
        <5>2. \A e \in Way(s) : e.ids \subseteq IdsOf(e.to)
          BY <2>1, OnTheWay
        <5> QED BY <3>2, <5>1, <5>2 DEF IdsOf
      <4>3. \A k : ~Tells(Way(s), x, k)
        BY <4>2 DEF Tells
      <4>4. Answer(s, x) = IF row[x] \in Shown THEN row[x] ELSE "none"
        BY <3>2 DEF Answer, IdsOf
      <4> QED BY <2>1, <4>1, <4>3, <4>4 DEF Corrects, Shown
    <3> QED BY <3>1, <3>2
  <2> QED BY <2>1, <2>2 DEF Current
<1> QED
  BY <1>1, CourseAlwaysOK, PTL

-----------------------------------------------------------------------------
(* What a stream has told, and what is on its way to it. *)

\* The listener at work for a session's instance: what happens to its ring, and
\* what is left on its way.
LEMMA SendSteps ==
    ASSUME WayOK, NEW s \in Sessions, StreamOK(s), NEW e \in Signals,
           Send(HostOf[s], e)
    PROVE  /\ overrun[s] => overrun'[s]
           /\ Len(ring'[s]) \in Nat /\ Len(ring'[s]) >= Len(ring[s])
           /\ Len(ring'[s]) = Len(ring[s]) => ring'[s] = ring[s] \/ overrun'[s]
           /\ ~overrun'[s] => Range(ring'[s]) \subseteq Range(ring[s]) \cup {e}
<1> DEFINE to == IF e.to \in registry[HostOf[s]]
                   THEN Streaming(HostOf[s], e.to) ELSE {}
<1>1. /\ ring'[s] = IF s \in to THEN Buffer(s, e) ELSE ring[s]
      /\ overrun'[s] = (overrun[s] \/ (s \in to /\ Len(ring[s]) = Capacity))
      /\ overrun[s] \in BOOLEAN
  BY DEF Send, WayOK, RingsOK
<1>2. /\ ring[s] \in Seq(Facts) /\ e \in Facts
      /\ Len(ring[s]) \in Nat /\ Len(ring[s]) <= Capacity
  BY OnTheWay DEF StreamOK, Signals
<1> HIDE DEF to
<1>3. CASE s \notin to
  BY <1>1, <1>2, <1>3
<1>4. CASE s \in to /\ Len(ring[s]) < Capacity
  <2>1. /\ ring'[s] = Append(ring[s], e)
        /\ Len(ring'[s]) = Len(ring[s]) + 1
    BY <1>1, <1>2, <1>4, AppendProperties DEF Buffer
  <2>2. Range(ring'[s]) = Range(ring[s]) \cup {e}
    <3>1. <<e>> \in Seq(Facts) /\ Range(<<e>>) = {e}
      BY <1>2 DEF Range
    <3>2. Append(ring[s], e) = ring[s] \o <<e>>
      BY <1>2, AppendIsConcat
    <3>3. Range(ring[s] \o <<e>>) = Range(ring[s]) \cup Range(<<e>>)
      BY <1>2, <3>1, RangeConcatenation
    <3> QED BY <2>1, <3>1, <3>2, <3>3
  <2> QED BY <1>1, <1>2, <2>1, <2>2
<1>5. CASE s \in to /\ Len(ring[s]) = Capacity
  <2>1. ring[s] # <<>>
    BY <1>5, LimitsAssumption
  <2>2. Tail(ring[s]) \in Seq(Facts) /\ Len(Tail(ring[s])) = Len(ring[s]) - 1
    BY <1>2, <2>1, HeadTailProperties
  <2>3. Len(Append(Tail(ring[s]), e)) = Len(ring[s])
    BY <1>2, <2>2, AppendProperties
  <2>4. ring'[s] = Append(Tail(ring[s]), e) /\ overrun'[s]
    <3>1. ~(Len(ring[s]) < Capacity)
      BY <1>5, LimitsAssumption
    <3> QED BY <1>1, <1>5, <3>1 DEF Buffer
  <2>5. Len(ring'[s]) = Len(ring[s])
    BY <2>3, <2>4
  <2> QED BY <1>2, <2>4, <2>5
<1> QED BY <1>2, <1>3, <1>4, <1>5, LimitsAssumption

\* A step other than a write adds nothing to what is on its way.
Kin(e, f) == e.kind = f.kind /\ e.ids = f.ids

\* What a step that is not a write does for a session whose stream stays open:
\* the stream yields its first event, or its ring keeps what it has unless the
\* receiver is marked, and nothing new is on its way.
Steps(s) ==
    /\ \/ Receive(s)
       \/ /\ overrun[s] => overrun'[s]
          /\ Len(ring'[s]) \in Nat /\ Len(ring'[s]) >= Len(ring[s])
          /\ Len(ring'[s]) = Len(ring[s]) => ring'[s] = ring[s] \/ overrun'[s]
    /\ ~overrun'[s] => \A e \in Way(s)' : \E f \in Way(s) : Kin(e, f)

\* A step that keeps the ring of a session and takes from what is under way.
LEMMA KeepsSteps ==
    ASSUME WayOK, NEW s \in Sessions, ring'[s] = ring[s], overrun'[s] = overrun[s],
           Range(feed'[HostOf[s]]) \subseteq Range(feed[HostOf[s]]),
           hand'[HostOf[s]] \in {hand[HostOf[s]], NoFact}
    PROVE  Steps(s)
<1>1. Len(ring[s]) \in Nat
  BY OnTheWay
<1>2. Way(s)' \subseteq Way(s)
  BY DEF Way, Queued, Held
<1> QED BY <1>1, <1>2 DEF Steps, Kin

LEMMA DispatchSteps ==
    ASSUME WayOK, NEW s \in Sessions, Course(s), Dispatch(HostOf[s])
    PROVE  Steps(s)
<1> DEFINE i == HostOf[s]
<1>1. i \in Instances /\ feed[i] \in Seq(Facts) /\ Len(ring[s]) \in Nat /\ StreamOK(s)
  BY OnTheWay DEF Course
<1>2. feed[i] # <<>> => Range(feed[i]) = {Head(feed[i])} \cup Range(Tail(feed[i]))
  BY <1>1, OrderHead
<1>3. CASE Undecodable(i) \/ Skip(i)
  <2>1. /\ feed[i] # <<>> /\ feed'[i] = Tail(feed[i])
        /\ UNCHANGED <<hand, ring, overrun>>
    BY <1>1, <1>3 DEF Undecodable, Skip, streams, WayOK, ListenersOK
  <2> QED BY <1>2, <2>1, KeepsSteps
<1>4. CASE Forward(i)
  <2> DEFINE e == Head(feed[i])
  <2>1. /\ feed[i] # <<>> /\ feed'[i] = Tail(feed[i]) /\ hand' = hand
        /\ e \in Signals /\ Send(i, e)
    BY <1>1, <1>4, HeadOfFeed DEF Forward, WayOK, ListenersOK
  <2>2. e \in Queued(s) /\ Queued(s)' \subseteq Queued(s) /\ Held(s)' = Held(s)
    BY <1>2, <2>1 DEF Queued, Held
  <2> HIDE DEF e
  <2>3. /\ overrun[s] => overrun'[s]
        /\ Len(ring'[s]) \in Nat /\ Len(ring'[s]) >= Len(ring[s])
        /\ Len(ring'[s]) = Len(ring[s]) => ring'[s] = ring[s] \/ overrun'[s]
        /\ ~overrun'[s] => Range(ring'[s]) \subseteq Range(ring[s]) \cup {e}
    BY <1>1, <2>1, SendSteps
  <2>4. ~overrun'[s] => Way(s)' \subseteq Way(s)
    BY <2>2, <2>3 DEF Way
  <2> QED BY <2>3, <2>4 DEF Steps, Kin
<1>5. CASE Deliver(i)
  <2> DEFINE e == hand[i]
  <2>1. /\ feed' = feed /\ hand'[i] = NoFact
        /\ e \in Signals /\ Send(i, e)
    BY <1>1, <1>5 DEF Deliver, Drop, WayOK, ListenersOK
  <2>2. e \in Held(s) /\ Queued(s)' = Queued(s) /\ Held(s)' = {}
    BY <2>1, SignalIsFact DEF Queued, Held
  <2> HIDE DEF e
  <2>3. /\ overrun[s] => overrun'[s]
        /\ Len(ring'[s]) \in Nat /\ Len(ring'[s]) >= Len(ring[s])
        /\ Len(ring'[s]) = Len(ring[s]) => ring'[s] = ring[s] \/ overrun'[s]
        /\ ~overrun'[s] => Range(ring'[s]) \subseteq Range(ring[s]) \cup {e}
    BY <1>1, <2>1, SendSteps
  <2>4. ~overrun'[s] => Way(s)' \subseteq Way(s)
    BY <2>2, <2>3 DEF Way
  <2> QED BY <2>3, <2>4 DEF Steps, Kin
<1>6. CASE Take(i)
  <2>1. /\ feed[i] # <<>> /\ feed'[i] = Tail(feed[i]) /\ hand'[i] = Head(feed[i])
        /\ UNCHANGED <<ring, overrun>>
    BY <1>1, <1>6 DEF Take, streams, WayOK, ListenersOK
  <2>2. Way(s)' \subseteq Way(s)
    BY <1>2, <2>1 DEF Way, Queued, Held
  <2> QED BY <1>1, <2>1, <2>2 DEF Steps, Kin
<1>7. CASE Reread(i)
  <2> DEFINE e == hand[i]
             now == {row[x] : x \in e.ids} \cap Shown
  <2>1. /\ UNCHANGED <<feed, ring, overrun>> /\ e \in Signals /\ e \in Held(s)
    BY <1>1, <1>7, SignalIsFact DEF Reread, streams, WayOK, ListenersOK, Held
  <2>2. CASE now = {}
    <3>1. hand'[i] = NoFact
      BY <1>1, <1>7, <2>2 DEF Reread, Drop, WayOK, ListenersOK
    <3> QED BY <2>1, <3>1, KeepsSteps
  <2>3. CASE now # {}
    <3>1. PICK r \in Shown : hand' = [hand EXCEPT ![i].row = r]
      BY <1>7, <2>3 DEF Reread
    <3>2. hand'[i] = [e EXCEPT !.row = r]
      BY <1>1, <3>1 DEF WayOK, ListenersOK
    <3>3. Kin(hand'[i], e)
      BY <2>1, <3>2 DEF Kin, Signals, Facts
    <3> HIDE DEF e, now
    <3>4. \A f \in Way(s)' : f \in Way(s) \/ f = hand'[i]
      BY <2>1 DEF Way, Queued, Held
    <3>5. e \in Way(s)
      BY <2>1 DEF Way
    <3> QED BY <1>1, <2>1, <3>3, <3>4, <3>5 DEF Steps, Kin
  <2> QED BY <2>2, <2>3
<1> QED BY <1>3, <1>4, <1>5, <1>6, <1>7 DEF Dispatch

LEMMA NextSteps ==
    ASSUME WayOK, NEW s \in Sessions, Course(s), Next, ~Write, phase'[s] # "closed"
    PROVE  Steps(s) /\ row' = row
<1> DEFINE i == HostOf[s]
<1>1. i \in Instances /\ feed[i] \in Seq(Facts)
  BY OnTheWay
<1>2. CASE Listen(i)
  BY <1>2, KeepsSteps DEF Listen, streams
<1>3. CASE Dispatch(i)
  <2>1. row' = row
    BY <1>3 DEF Dispatch, Undecodable, Skip, Forward, Take, Reread, Deliver
  <2> QED BY <1>3, <2>1, DispatchSteps
<1>4. CASE Fail(i)
  <2>1. CASE LoseChannel(i)
    <3>1. PICK n \in 0..Len(feed[i]) : feed' = [feed EXCEPT ![i] = SubSeq(@, 1, n)]
      BY <2>1 DEF LoseChannel
    <3>2. /\ feed'[i] = SubSeq(feed[i], 1, n)
          /\ UNCHANGED <<row, hand, ring, overrun>>
      BY <1>1, <2>1, <3>1 DEF LoseChannel, WayOK, ListenersOK
    <3>3. Range(feed'[i]) \subseteq Range(feed[i])
      BY <1>1, <3>2, OrderPrefix
    <3> QED BY <3>2, <3>3, KeepsSteps
  <2>2. CASE RereadFails(i)
    <3>1. hand'[i] = NoFact /\ UNCHANGED <<row, feed, ring, overrun>>
      BY <1>1, <2>2 DEF RereadFails, Drop, WayOK, ListenersOK
    <3> QED BY <3>1, KeepsSteps
  <2>3. ~Restart(i)
    BY DEF Restart, Ended
  <2> QED BY <1>4, <2>1, <2>2, <2>3 DEF Fail
<1>5. ASSUME NEW j \in Instances, j # i, Listen(j) \/ Dispatch(j) \/ Fail(j)
      PROVE  Steps(s) /\ row' = row
  <2>1. /\ row' = row /\ feed'[i] = feed[i] /\ hand'[i] = hand[i]
        /\ ring'[s] = ring[s] /\ overrun'[s] = overrun[s]
    BY <1>5, Elsewhere
  <2> QED BY <2>1, KeepsSteps
<1>6. ASSUME NEW t \in Sessions, Open(t) \/ Follow(t) \/ Leave(t)
      PROVE  Steps(s) /\ row' = row
  <2>1. CASE Open(t) \/ Snapshot(t)
    <3>1. UNCHANGED <<row, feed, hand, ring, overrun>>
      BY <2>1 DEF Open, Snapshot, listeners
    <3> QED BY <3>1, KeepsSteps
  <2>2. CASE t # s /\ Receive(t)
    <3>1. /\ UNCHANGED <<row, feed, hand, overrun>> /\ ring'[s] = ring[s]
      BY <2>2 DEF Receive, listeners, WayOK, RingsOK
    <3> QED BY <3>1, KeepsSteps
  <2>3. CASE Receive(s)
    <3>1. /\ UNCHANGED <<row, feed, hand>>
          /\ ring[s] # <<>> /\ ring'[s] = Tail(ring[s]) /\ ring[s] \in Seq(Facts)
      BY <2>3, OnTheWay DEF Receive, listeners, WayOK, RingsOK
    <3>2. Range(ring'[s]) \subseteq Range(ring[s])
      BY <3>1, OrderHead
    <3>3. Way(s)' \subseteq Way(s)
      BY <3>1, <3>2 DEF Way, Queued, Held
    <3> QED BY <2>3, <3>1, <3>3 DEF Steps, Kin
  <2>4. CASE EndLagged(t) \/ Leave(t)
    <3>1. Ended({t}) /\ UNCHANGED <<row, feed, hand>>
      BY <2>4 DEF EndLagged, Leave, listeners
    <3>2. ring'[s] = ring[s] /\ overrun'[s] = overrun[s]
      BY <3>1 DEF Ended
    <3> QED BY <3>1, <3>2, KeepsSteps
  <2> QED BY <1>6, <2>1, <2>2, <2>3, <2>4 DEF Follow
<1> QED BY <1>2, <1>3, <1>4, <1>5, <1>6 DEF Next

\* What happened stays so.
LEMMA HappenedStays ==
    ASSUME WayOK, [Next]_vars, NEW x \in Ids
    PROVE  /\ row[x] # "absent" => row'[x] # "absent"
           /\ row[x] \notin {"absent", "unread"} => row'[x] \notin {"absent", "unread"}
           /\ row[x] = "deleted" => row'[x] = "deleted"
<1>1. CASE Write
  <2>1. PICK kind \in {"added", "read", "deleted"}, ids \in SUBSET Ids :
          \E q : Written(kind, ids, q)
    BY <1>1, WriteIsWritten
  <2>2. /\ row'[x] = IF x \in ids THEN After(kind) ELSE row[x]
        /\ x \in ids => Ready(kind, x)
    BY <2>1 DEF Written
  <2> QED BY <2>2 DEF After, Ready, Shown
<1>2. CASE ~Write
  <2>1. row' = row
    BY <1>2 DEF Next, vars, Listen, Dispatch, Undecodable, Skip, Forward, Take,
                Reread, Deliver, Fail, LoseChannel, RereadFails, Restart, Open,
                Follow, Snapshot, Receive, EndLagged, Leave
  <2> QED BY <2>1
<1> QED BY <1>1, <1>2

\* A write says of a notification what may follow what has been said of it.
LEMMA WriteContinues ==
    ASSUME WayOK, TrailTypeOK, NEW s \in Sessions, Trail(s), ~overrun[s], Write
    PROVE  /\ UNCHANGED <<phase, ring, overrun>>
           /\ \A e \in Way(s)' : \A x \in e.ids : MayFollow(told[s][x], e.kind)
<1>1. PICK kind \in {"added", "read", "deleted"}, ids \in SUBSET Ids :
        \E q : Written(kind, ids, q)
  BY WriteIsWritten
<1>2. PICK q : Written(kind, ids, q)
  BY <1>1
<1>3. /\ Announces(q, kind, ids) /\ Commit(q)
      /\ \A x \in ids : Ready(kind, x)
      /\ UNCHANGED <<hand, phase, ring, overrun>>
  BY <1>2 DEF Written
<1>4. Range(feed'[HostOf[s]]) \subseteq Range(feed[HostOf[s]]) \cup Range(q)
  BY <1>3, CommitReaches
<1>5. Way(s)' \subseteq Way(s) \cup Range(q)
  BY <1>3, <1>4 DEF Way, Queued, Held
<1>6. ASSUME NEW x \in ids PROVE MayFollow(told[s][x], kind)
  <2>1. told[s][x] \in Tidings /\ HappenedSo(s, x) /\ Ready(kind, x)
    BY <1>3 DEF TrailTypeOK, Trail
  <2> QED BY <2>1 DEF Tidings, HappenedSo, Ready, MayFollow, NotAfter, Shown
<1>7. \A e \in Range(q) : e.kind = kind /\ e.ids \subseteq ids
  BY <1>3 DEF Announces
<1>8. \A e \in Way(s) : \A x \in e.ids : MayFollow(told[s][x], e.kind)
  BY DEF Trail, Continues
<1> QED BY <1>3, <1>5, <1>6, <1>7, <1>8

\* A stream yields by Receive alone, and then what it hands out has happened,
\* may follow what it has told, and precedes what is left on its way.
LEMMA YieldsInOrder ==
    ASSUME WayOK, NEW s \in Sessions, Course(s), Trail(s), [Next]_vars, Yields(s)
    PROVE  /\ Receive(s) /\ ring[s] # <<>> /\ ~overrun[s]
           /\ Happened(Head(ring[s]))
           /\ \A x \in Head(ring[s]).ids : MayFollow(told[s][x], Head(ring[s]).kind)
           /\ Precede({Head(ring[s])}, Range(ring'[s]) \cup Held(s) \cup Queued(s))
<1>1. Len(ring[s]) \in Nat /\ ring[s] \in Seq(Facts)
  BY OnTheWay
<1>2. Next /\ ~Write
  <2>1. ring' # ring
    BY <1>1 DEF Yields
  <2>2. ~Write
    BY <2>1, WriteIsWritten DEF Written
  <2> QED BY <2>1, <2>2 DEF vars, streams
<1>3. Receive(s)
  BY <1>1, <1>2, NextSteps DEF Yields, Steps
<1>4. /\ ring[s] # <<>> /\ ~overrun[s] /\ ring'[s] = Tail(ring[s])
  BY <1>3 DEF Receive, WayOK, RingsOK
<1>5. /\ Head(ring[s]) \in Range(ring[s])
      /\ Precede({Head(ring[s])}, Range(ring'[s]))
      /\ Precede({Head(ring[s])}, Held(s) \cup Queued(s))
  BY <1>1, <1>4, OrderHead DEF Course, OrderOK, Precede
<1>6. Happened(Head(ring[s]))
  BY <1>4, <1>5 DEF Course, PastOK
<1>7. Head(ring[s]) \in Way(s) /\ Continues(s)
  BY <1>4, <1>5 DEF Way, Trail
<1> QED BY <1>3, <1>4, <1>5, <1>6, <1>7 DEF Continues, Precede

LEMMA RecordTypes ==
    ASSUME WayOK, TrailTypeOK, Record, [Next]_vars,
           \A s \in Sessions : Course(s) /\ Trail(s)
    PROVE  TrailTypeOK'
<1>1. ASSUME NEW s \in Sessions, Yields(s) PROVE Head(ring[s]).kind \in Tidings
  <2>1. ring[s] # <<>>
    BY <1>1, YieldsInOrder
  <2>2. Head(ring[s]) \in Facts
    BY <2>1, OnTheWay, HeadTailProperties
  <2> QED BY <2>2 DEF Facts, Tidings
<1>2. Untold \in [Ids -> Tidings]
  BY DEF Untold, Tidings
<1>3. \A s \in Sessions : told'[s] \in [Ids -> Tidings]
  BY <1>1, <1>2 DEF Record, TrailTypeOK
<1>4. \A s \in Sessions : gap'[s] \in BOOLEAN
  BY DEF Record, TrailTypeOK
<1> QED BY <1>3, <1>4 DEF Record, TrailTypeOK

\* What has been told of a notification after a step.
LEMMA RecordTold ==
    ASSUME NEW s \in Sessions, NEW x \in Ids, TrailTypeOK, Record, phase'[s] # "closed"
    PROVE  told'[s][x] = IF Yields(s) /\ x \in Head(ring[s]).ids
                           THEN Head(ring[s]).kind ELSE told[s][x]
  BY DEF Record, TrailTypeOK

\* What is on its way after a step concerns notifications.
LEMMA StaysOnTheWay ==
    ASSUME WayOK, [Next]_vars, NEW s \in Sessions
    PROVE  \A e \in Way(s)' : e.ids \subseteq Ids
<1>1. WayOK'
  BY NextWay
<1>2. HostOf[s] \in Instances
  BY SessionsAssumption
<1>3. /\ feed'[HostOf[s]] \in Seq(Signals)
      /\ hand'[HostOf[s]] \in Signals \cup {NoFact}
      /\ ring'[s] \in Seq(Facts)
  BY <1>1, <1>2 DEF WayOK, ListenersOK, RingsOK
<1>4. /\ \A e \in Range(feed'[HostOf[s]]) : e \in Signals
      /\ \A e \in Range(ring'[s]) : e \in Facts
  BY <1>3, RangeOfSeq
<1>5. \A e \in Way(s)' : e \in Facts
  BY <1>3, <1>4 DEF Way, Held, Queued, Signals
<1> QED BY <1>5 DEF Facts

LEMMA NextTrail ==
    ASSUME WayOK, NEW s \in Sessions, Course(s), Trail(s), TrailTypeOK,
           [Next]_vars, Record
    PROVE  Trail(s)'
<1>1. CASE phase'[s] = "closed"
  <2>1. told'[s] = Untold /\ gap'[s] = FALSE
    BY <1>1 DEF Record
  <2>2. \A x \in Ids : told'[s][x] = "nothing"
    BY <2>1 DEF Untold
  <2>3. \A x \in Ids : HappenedSo(s, x)'
    BY <2>2 DEF HappenedSo
  <2>4. ASSUME NEW e \in Way(s)', NEW x \in e.ids PROVE MayFollow(told'[s][x], e.kind)
    <3>1. x \in Ids
      BY <2>4, StaysOnTheWay
    <3> QED BY <2>2, <3>1 DEF MayFollow
  <2> QED BY <1>1, <2>1, <2>3, <2>4 DEF Trail, Continues, MayFollow
<1>2. CASE phase'[s] # "closed"
  <2>1. \A x \in Ids : told'[s][x] = IF Yields(s) /\ x \in Head(ring[s]).ids
                                       THEN Head(ring[s]).kind ELSE told[s][x]
    BY <1>2, RecordTold
  <2>2. ASSUME NEW x \in Ids PROVE HappenedSo(s, x)'
    <3>1. HappenedSo(s, x)
      BY DEF Trail
    <3>2. Yields(s) /\ x \in Head(ring[s]).ids =>
            /\ row[x] # "absent"
            /\ Head(ring[s]).kind = "read" => row[x] # "unread"
            /\ Head(ring[s]).kind = "deleted" => row[x] = "deleted"
      BY YieldsInOrder DEF Happened
    <3> QED BY <2>1, <3>1, <3>2, HappenedStays DEF HappenedSo
  <2>3. gap'[s] => overrun'[s]
    <3>1. gap'[s] = (gap[s] \/ Overwrites(s))
      BY <1>2 DEF Record, TrailTypeOK
    <3>2. gap[s] => overrun[s]
      BY DEF Trail
    <3>3. CASE Write \/ UNCHANGED vars
      <4>1. UNCHANGED <<ring, overrun>>
        BY <3>3, WriteIsWritten DEF Written, vars, streams
      <4> QED BY <3>1, <3>2, <4>1 DEF Overwrites
    <3>4. CASE Receive(s)
      <4>1. ~overrun[s] /\ Len(ring'[s]) # Len(ring[s])
        <5>1. /\ ring[s] # <<>> /\ ~overrun[s] /\ ring'[s] = Tail(ring[s])
              /\ ring[s] \in Seq(Facts)
          BY <3>4, OnTheWay DEF Receive, WayOK, RingsOK
        <5> QED BY <5>1, HeadTailProperties, LenProperties
      <4> QED BY <3>1, <3>2, <4>1 DEF Overwrites
    <3>5. CASE Next /\ ~Write /\ ~Receive(s)
      <4>1. /\ overrun[s] => overrun'[s]
            /\ Len(ring'[s]) = Len(ring[s]) => ring'[s] = ring[s] \/ overrun'[s]
        BY <1>2, <3>5, NextSteps DEF Steps
      <4> QED BY <3>1, <3>2, <4>1 DEF Overwrites
    <3> QED BY <3>3, <3>4, <3>5
  <2>4. ASSUME ~overrun'[s], NEW e \in Way(s)', NEW x \in e.ids
        PROVE  MayFollow(told'[s][x], e.kind)
    <3>1. x \in Ids
      BY <2>4, StaysOnTheWay
    <3>2. CASE UNCHANGED vars
      <4>1. /\ UNCHANGED <<ring, overrun, feed, hand>>
        BY <3>2 DEF vars, streams, listeners
      <4>2. ~Yields(s) /\ Way(s)' = Way(s)
        <5>1. Len(ring[s]) \in Nat
          BY OnTheWay
        <5> QED BY <4>1, <5>1 DEF Yields, Way, Queued, Held
      <4> QED BY <2>1, <2>4, <3>1, <4>1, <4>2 DEF Trail, Continues
    <3>3. CASE Write
      <4>1. UNCHANGED <<ring, overrun>>
        BY <3>3, WriteIsWritten DEF Written
      <4>2. ~Yields(s)
        <5>1. Len(ring[s]) \in Nat
          BY OnTheWay
        <5> QED BY <4>1, <5>1 DEF Yields
      <4>3. MayFollow(told[s][x], e.kind)
        BY <2>4, <3>3, <4>1, WriteContinues
      <4> QED BY <2>1, <3>1, <4>2, <4>3
    <3>4. CASE Next /\ ~Write
      <4>1. Steps(s)
        BY <1>2, <3>4, NextSteps
      <4>2. PICK f \in Way(s) : Kin(e, f)
        BY <2>4, <4>1 DEF Steps
      <4>3. ~overrun[s]
        BY <2>4, <4>1 DEF Steps, Receive
      <4>4. MayFollow(told[s][x], e.kind)
        BY <2>4, <4>2, <4>3 DEF Trail, Continues, Kin
      <4>5. ASSUME Yields(s), x \in Head(ring[s]).ids
            PROVE  NotAfter(Head(ring[s]).kind, e.kind)
        <5>1. /\ Receive(s)
              /\ Precede({Head(ring[s])}, Range(ring'[s]) \cup Held(s) \cup Queued(s))
          BY <4>5, YieldsInOrder
        <5>2. Way(s)' = Range(ring'[s]) \cup Held(s) \cup Queued(s)
          BY <5>1 DEF Receive, listeners, Way, Held, Queued
        <5> QED BY <2>4, <4>5, <5>1, <5>2 DEF Precede
      <4> QED BY <2>1, <3>1, <4>4, <4>5 DEF MayFollow
    <3> QED BY <3>2, <3>3, <3>4
  <2> QED BY <1>2, <2>2, <2>3, <2>4 DEF Trail, Continues
<1> QED BY <1>1, <1>2

-----------------------------------------------------------------------------
\* Recording what is told changes no behaviour of Realtime.
LEMMA StreamsAreRealtime == StreamsSpec => Spec
<1>1. StreamsInit => Init
  BY DEF StreamsInit
<1>2. [StreamsNext]_streamVars => [Next]_vars
  BY DEF StreamsNext, streamVars
<1> QED
  BY <1>1, <1>2, PTL DEF StreamsSpec, Spec

LEMMA InitTrail == StreamsInit => TrailOK
<1> SUFFICES ASSUME StreamsInit PROVE TrailOK
  OBVIOUS
<1>1. /\ told = [s \in Sessions |-> Untold] /\ gap = [s \in Sessions |-> FALSE]
      /\ Untold = [x \in Ids |-> "nothing"]
  BY DEF StreamsInit, TrailInit, Untold
<1>2. TrailTypeOK
  BY <1>1 DEF TrailTypeOK, Tidings
<1>3. ASSUME NEW s \in Sessions PROVE Trail(s)
  <2>1. Course(s) /\ Way(s) = {}
    <3>1. /\ HostOf[s] \in Instances /\ feed[HostOf[s]] = <<>>
          /\ hand[HostOf[s]] = NoFact /\ ring[s] = <<>>
      BY SessionsAssumption DEF StreamsInit, Init
    <3> QED BY <3>1, InitCourse, OrderEmpty DEF StreamsInit, Way, Queued, Held
  <2> QED BY <1>1, <2>1 DEF Trail, HappenedSo, Continues
<1> QED BY <1>2, <1>3 DEF TrailOK

LEMMA TrailAlwaysOK == StreamsSpec => [](CourseOK /\ TrailOK)
<1>1. CourseOK /\ TrailOK /\ [StreamsNext]_streamVars => TrailOK'
  <2> SUFFICES ASSUME CourseOK, TrailOK, [StreamsNext]_streamVars PROVE TrailOK'
    OBVIOUS
  <2>1. WayOK /\ TrailTypeOK /\ \A s \in Sessions : Course(s) /\ Trail(s)
    BY DEF CourseOK, TrailOK
  <2>2. CASE StreamsNext
    <3>1. [Next]_vars /\ Record
      BY <2>2 DEF StreamsNext
    <3>2. TrailTypeOK'
      BY <2>1, <3>1, RecordTypes
    <3>3. \A s \in Sessions : Trail(s)'
      BY <2>1, <3>1, NextTrail
    <3> QED BY <3>2, <3>3 DEF TrailOK
  <2>3. CASE UNCHANGED streamVars
    BY <2>1, <2>3 DEF streamVars, vars, streams, listeners, trail, TrailOK,
       TrailTypeOK, Trail, HappenedSo, Continues, Way, Held, Queued
  <2> QED BY <2>2, <2>3
<1>2. StreamsSpec => []CourseOK
  BY StreamsAreRealtime, CourseAlwaysOK, PTL
<1> QED
  BY <1>1, <1>2, InitTrail, PTL DEF StreamsSpec

\* The events of a stream come in the order of what happened, for any sizes and
\* whatever is written, re-read, lost or overwritten meanwhile (fn dispatch
\* awaited in fn listen_loop, src/realtime.rs 73-112).
THEOREM StreamsTellInOrder == StreamsSpec => ToldInOrder
<1>1. ASSUME CourseOK, TrailOK, [StreamsNext]_streamVars
      PROVE  [\A s \in Sessions :
                Yields(s) => \A x \in Head(ring[s]).ids :
                               MayFollow(told[s][x], Head(ring[s]).kind)]_streamVars
  BY <1>1, YieldsInOrder DEF CourseOK, TrailOK, StreamsNext, streamVars
<1> QED
  BY <1>1, TrailAlwaysOK, PTL DEF StreamsSpec, ToldInOrder

\* A stream whose ring has overwritten an event hands out nothing more
\* (until_first_lag, src/graphql.rs 221-237).
THEOREM NothingAfterGap == StreamsSpec => NothingPastGap
<1>1. ASSUME CourseOK, TrailOK, [StreamsNext]_streamVars
      PROVE  [\A s \in Sessions : gap[s] => ~Yields(s)]_streamVars
  BY <1>1, YieldsInOrder DEF CourseOK, TrailOK, Trail, StreamsNext, streamVars
<1> QED
  BY <1>1, TrailAlwaysOK, PTL DEF StreamsSpec, NothingPastGap

=============================================================================
