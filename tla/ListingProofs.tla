---------------------------- MODULE ListingProofs ----------------------------
(***************************************************************************)
(* A walk never turns round and misses nothing, proved for any number of   *)
(* notifications, any creation times, page sizes and interleavings.        *)
(***************************************************************************)
EXTENDS Listing, FiniteSetTheorems, WellFoundedInduction, TLAPS

\* A set of numbers has a smallest one.
LEMMA LeastNumber ==
    ASSUME NEW S \in SUBSET Nat, S # {}
    PROVE  \E n \in S : \A k \in S : n <= k
<1> DEFINE R == {p \in Nat \X Nat : p[1] < p[2]}
<1>1. R = OpToRel(<, Nat)
  BY DEF OpToRel
<1>2. IsWellFoundedOn(R, Nat)
  BY <1>1, NatLessThanWellFounded
<1>3. PICK n \in S : \A k \in S : ~ (<<k, n>> \in R)
  <2> HIDE DEF R
  <2> QED BY <1>2, WFMin
<1>4. ASSUME NEW k \in S PROVE n <= k
  <2>1. k \in Nat /\ n \in Nat
    OBVIOUS
  <2>2. k < n => <<k, n>> \in R
    BY <2>1
  <2> QED BY <1>3, <2>1, <2>2
<1> QED BY <1>4

\* The order of the list is a strict total order.
LEMMA OlderIsTotal ==
    /\ \A x, y \in Ids : x # y => Older(x, y) \/ Older(y, x)
    /\ \A x, y, z \in Ids : Older(x, y) /\ Older(y, z) => Older(x, z)
    /\ \A x, y \in Ids : ~ (Older(x, y) /\ Older(y, x))
BY ListingAssumption DEF Older

\* A page that is not empty has an oldest notification.
LEMMA OldestExists ==
    ASSUME NEW S \in SUBSET Ids, S # {}
    PROVE  \E x \in S : \A y \in S \ {x} : Older(x, y)
<1> DEFINE Times == {CreatedAt[x] : x \in S}
<1>1. PICK first \in Times : \A k \in Times : first <= k
  <2>1. Times \in SUBSET Nat /\ Times # {}
    BY ListingAssumption
  <2> HIDE DEF Times
  <2> QED BY <2>1, LeastNumber
<1> DEFINE Ties  == {x \in S : CreatedAt[x] = first}
           Ranks == {Rank[x] : x \in Ties}
<1>2. PICK low \in Ranks : \A k \in Ranks : low <= k
  <2>1. Ranks \in SUBSET Nat /\ Ranks # {}
    BY <1>1, ListingAssumption
  <2> HIDE DEF Ranks
  <2> QED BY <2>1, LeastNumber
<1>3. PICK x \in Ties : Rank[x] = low
  BY <1>2
<1>4. ASSUME NEW y \in S \ {x} PROVE Older(x, y)
  <2>1. /\ x \in Ids /\ y \in Ids /\ CreatedAt[x] = first
        /\ CreatedAt[x] \in Nat /\ CreatedAt[y] \in Nat
        /\ Rank[x] \in Nat /\ Rank[y] \in Nat
    BY <1>3, ListingAssumption
  <2>2. CreatedAt[x] <= CreatedAt[y]
    BY <1>1, <2>1
  <2>3. CASE CreatedAt[x] = CreatedAt[y]
    <3>1. Rank[x] <= Rank[y]
      BY <1>2, <1>3, <2>1, <2>3
    <3>2. Rank[x] # Rank[y]
      BY <2>1, ListingAssumption
    <3> QED BY <2>1, <2>3, <3>1, <3>2 DEF Older
  <2>4. CASE CreatedAt[x] # CreatedAt[y]
    BY <2>1, <2>2, <2>4 DEF Older
  <2> QED BY <2>3, <2>4
<1> QED BY <1>3, <1>4

\* The notifications of S that come before x in the list: ORDER BY ... DESC
\* LIMIT n takes x when there are fewer than n of them.
NewerThan(S, x) == {y \in S : x # y /\ ~Older(y, x)}

\* What comes before x, counted.
LEMMA NewerThanIsFinite ==
    ASSUME NEW S \in SUBSET Ids, NEW x
    PROVE  /\ IsFiniteSet(S)
           /\ NewerThan(S, x) \in SUBSET S
           /\ IsFiniteSet(NewerThan(S, x))
           /\ Cardinality(NewerThan(S, x)) \in Nat
<1>1. IsFiniteSet(S)
  BY FS_Subset, ListingAssumption
<1>2. NewerThan(S, x) \in SUBSET S
  BY DEF NewerThan
<1>3. IsFiniteSet(NewerThan(S, x))
  BY <1>1, <1>2, FS_Subset
<1> QED BY <1>1, <1>2, <1>3, FS_CardinalityType

\* The further down the list, the more comes before.
LEMMA NewerThanGrows ==
    ASSUME NEW S \in SUBSET Ids, NEW x \in S, NEW y \in S, Older(x, y)
    PROVE  /\ NewerThan(S, y) \in SUBSET NewerThan(S, x)
           /\ Cardinality(NewerThan(S, y)) < Cardinality(NewerThan(S, x))
<1>1. NewerThan(S, y) \in SUBSET NewerThan(S, x)
  BY OlderIsTotal DEF NewerThan
<1>2. y \in NewerThan(S, x) /\ y \notin NewerThan(S, y)
  BY OlderIsTotal DEF NewerThan
<1>3. /\ Cardinality(NewerThan(S, y)) <= Cardinality(NewerThan(S, x))
      /\ Cardinality(NewerThan(S, y)) # Cardinality(NewerThan(S, x))
  <2>1. IsFiniteSet(NewerThan(S, x))
    BY NewerThanIsFinite
  <2> QED BY <1>1, <1>2, <2>1, FS_Subset
<1>4. /\ Cardinality(NewerThan(S, x)) \in Nat
      /\ Cardinality(NewerThan(S, y)) \in Nat
  BY NewerThanIsFinite
<1> QED BY <1>1, <1>3, <1>4

\* LIMIT n, in the terms of these lemmas.
LEMMA NewestCounts ==
    ASSUME NEW S, NEW n
    PROVE  Newest(S, n) = {x \in S : Cardinality(NewerThan(S, x)) < n}
BY DEF Newest, NewerThan

\* LIMIT n returns n rows at most.
LEMMA NewestIsBounded ==
    ASSUME NEW S \in SUBSET Ids, NEW n \in Nat
    PROVE  /\ IsFiniteSet(Newest(S, n))
           /\ Cardinality(Newest(S, n)) \in Nat
           /\ Cardinality(Newest(S, n)) <= n
<1> DEFINE N == Newest(S, n)
<1>1. N \in SUBSET S
  BY DEF Newest
<1>2. IsFiniteSet(N) /\ Cardinality(N) \in Nat
  BY <1>1, NewerThanIsFinite, FS_Subset, FS_CardinalityType
<1>3. CASE N = {}
  BY <1>3, FS_EmptySet
<1>4. CASE N # {}
  <2>1. PICK x \in N : \A y \in N \ {x} : Older(x, y)
    <3>1. N \in SUBSET Ids
      BY <1>1
    <3> QED BY <1>4, <3>1, OldestExists
  <2>2. N \ {x} \in SUBSET NewerThan(S, x)
    BY <1>1, <2>1, OlderIsTotal DEF NewerThan
  <2>3. Cardinality(NewerThan(S, x)) < n
    BY <2>1, NewestCounts
  <2>4. Cardinality(N \ {x}) <= Cardinality(NewerThan(S, x))
    BY <2>2, NewerThanIsFinite, FS_Subset
  <2>5. Cardinality(N \ {x}) = Cardinality(N) - 1
    BY <1>2, <2>1, FS_RemoveElement
  <2>6. Cardinality(NewerThan(S, x)) \in Nat
    BY NewerThanIsFinite
  <2>7. Cardinality(N) <= n
    <3> HIDE DEF N
    <3> QED BY <1>2, <2>3, <2>4, <2>5, <2>6
  <2> QED BY <1>2, <2>7
<1> QED BY <1>2, <1>3, <1>4

\* LIMIT n leaves out only what is older than every row it returns.
LEMMA NewestLeavesTheOldest ==
    ASSUME NEW S \in SUBSET Ids, NEW n \in Nat,
           NEW x \in S \ Newest(S, n), NEW y \in Newest(S, n)
    PROVE  Older(x, y)
<1>1. y \in S /\ Cardinality(NewerThan(S, y)) < n
  BY NewestCounts
<1>2. ~ (Cardinality(NewerThan(S, x)) < n)
  BY NewestCounts
<1>3. ASSUME Older(y, x) PROVE FALSE
  <2>1. Cardinality(NewerThan(S, x)) < Cardinality(NewerThan(S, y))
    BY <1>1, <1>3, NewerThanGrows
  <2>2. /\ Cardinality(NewerThan(S, x)) \in Nat
        /\ Cardinality(NewerThan(S, y)) \in Nat
    BY NewerThanIsFinite
  <2> QED BY <1>1, <1>2, <2>1, <2>2
<1> QED BY <1>1, <1>3, OlderIsTotal

\* LIMIT n returns everything when there is no more than that.
LEMMA NewestOfFew ==
    ASSUME NEW S \in SUBSET Ids, NEW n \in Nat, Cardinality(S) <= n
    PROVE  Newest(S, n) = S
<1>1. ASSUME NEW x \in S PROVE Cardinality(NewerThan(S, x)) < n
  <2>1. NewerThan(S, x) \in SUBSET (S \ {x})
    BY DEF NewerThan
  <2>2. /\ IsFiniteSet(S \ {x})
        /\ Cardinality(S \ {x}) = Cardinality(S) - 1
    BY NewerThanIsFinite, FS_RemoveElement
  <2>3. Cardinality(NewerThan(S, x)) <= Cardinality(S \ {x})
    BY <2>1, <2>2, FS_Subset
  <2>4. Cardinality(S) \in Nat /\ Cardinality(NewerThan(S, x)) \in Nat
    BY NewerThanIsFinite, FS_CardinalityType
  <2> QED BY <2>2, <2>3, <2>4
<1> QED BY <1>1, NewestCounts

\* LIMIT n + 1 that returns n rows or fewer has returned all there are: this is
\* what hasNextPage relies on.
LEMMA NewestShortIsAll ==
    ASSUME NEW S \in SUBSET Ids, NEW n \in Nat,
           Cardinality(Newest(S, n + 1)) <= n
    PROVE  Newest(S, n + 1) = S
<1> DEFINE N      == Newest(S, n + 1)
           Rest   == S \ N
           Counts == {Cardinality(NewerThan(S, x)) : x \in Rest}
<1>1. N \in SUBSET S
  BY DEF Newest
<1>2. SUFFICES ASSUME Rest # {} PROVE FALSE
  BY <1>1
<1>3. PICK least \in Counts : \A k \in Counts : least <= k
  <2>1. Counts \in SUBSET Nat /\ Counts # {}
    BY <1>2, NewerThanIsFinite
  <2> HIDE DEF Counts
  <2> QED BY <2>1, LeastNumber
<1>4. PICK x \in Rest : Cardinality(NewerThan(S, x)) = least
  BY <1>3
<1>5. ASSUME NEW y \in NewerThan(S, x) PROVE y \in N
  <2>1. y \in S /\ Older(x, y)
    BY <1>4, OlderIsTotal DEF NewerThan
  <2>2. Cardinality(NewerThan(S, y)) < Cardinality(NewerThan(S, x))
    BY <1>4, <2>1, NewerThanGrows
  <2>3. /\ Cardinality(NewerThan(S, x)) \in Nat
        /\ Cardinality(NewerThan(S, y)) \in Nat
    BY NewerThanIsFinite
  <2>4. y \in Rest => least <= Cardinality(NewerThan(S, y))
    BY <1>3
  <2> QED BY <1>4, <2>1, <2>2, <2>3, <2>4
<1>6. Cardinality(NewerThan(S, x)) <= Cardinality(N)
  <2>1. NewerThan(S, x) \in SUBSET N /\ IsFiniteSet(N)
    BY <1>5, <1>1, NewerThanIsFinite, FS_Subset
  <2> QED BY <2>1, FS_Subset
<1>7. ~ (Cardinality(NewerThan(S, x)) < n + 1)
  BY <1>4, NewestCounts
<1>8. Cardinality(NewerThan(S, x)) \in Nat /\ Cardinality(N) \in Nat
  BY <1>1, NewerThanIsFinite, FS_Subset, FS_CardinalityType
<1>9. Cardinality(N) <= n
  OBVIOUS
<1> HIDE DEF N
<1> QED BY <1>6, <1>7, <1>8, <1>9

\* What the statement asks for is a number of rows a page may have.
LEMMA LimitInRange ==
    ASSUME NEW first \in Firsts
    PROVE  Limit(first) \in 1..MaxFirst
BY ListingAssumption DEF Limit

\* A page leaves out only what is older than all it shows, and leaves out
\* nothing when it says that there is no next page.
LEMMA PageIsClosed ==
    ASSUME NEW S \in SUBSET Ids, NEW n \in Nat
    PROVE  LET fetched == Newest(S, n + 1)
               nodes   == Newest(fetched, n)
           IN /\ \A x \in S \ nodes, y \in nodes : Older(x, y)
              /\ Cardinality(fetched) <= n => nodes = S
<1> DEFINE fetched == Newest(S, n + 1)
           nodes   == Newest(fetched, n)
<1>1. fetched \in SUBSET S /\ fetched \in SUBSET Ids /\ nodes \in SUBSET fetched
  BY DEF Newest
<1>2. ASSUME NEW x \in S \ nodes, NEW y \in nodes PROVE Older(x, y)
  <2>1. CASE x \in fetched
    <3> HIDE DEF fetched
    <3> QED BY <1>1, <2>1, NewestLeavesTheOldest
  <2>2. CASE x \notin fetched
    <3>1. n + 1 \in Nat /\ y \in fetched
      BY <1>1
    <3> QED BY <2>2, <3>1, NewestLeavesTheOldest
  <2> QED BY <2>1, <2>2
<1>3. ASSUME Cardinality(fetched) <= n PROVE nodes = S
  <2>1. fetched = S
    BY <1>3, NewestShortIsAll
  <2> HIDE DEF fetched
  <2>2. nodes = fetched
    BY <1>1, <1>3, NewestOfFew
  <2> QED BY <2>1, <2>2
<1> QED BY <1>2, <1>3

\* The cursor is the oldest notification that the walk has shown.
WalkOK ==
    /\ cursor \in Ids \cup {NoId}
    /\ got \subseteq Ids
    /\ cursor = NoId => got = {}
    /\ cursor # NoId => \A y \in got : y = cursor \/ Older(cursor, y)

\* A page shows only what is older than its cursor, and moves the cursor to the
\* end of what it shows.
LEMMA PageGoesOn ==
    ASSUME WalkOK, NEW first, ReadPage(first)
    PROVE  /\ WalkOK'
           /\ \A x \in page', y \in got : Older(x, y)
<1> DEFINE limit   == Limit(first)
           fetched == Fetched(cursor, limit)
           nodes   == Newest(fetched, limit)
<1>1. /\ page' = nodes
      /\ got' = got \cup nodes
      /\ cursor' = IF nodes = {} THEN cursor
                   ELSE CHOOSE x \in nodes : \A y \in nodes \ {x} : Older(x, y)
  BY DEF ReadPage
<1>2. nodes \subseteq Ids /\ \A x \in nodes : cursor # NoId => Older(x, cursor)
  BY DEF Newest, Fetched, Beyond, Standing, OwnedBy
<1> HIDE DEF nodes
<1>3. \A x \in nodes, y \in got : Older(x, y)
  BY <1>2, OlderIsTotal, ListingAssumption DEF WalkOK
<1>4. WalkOK'
  <2>1. CASE nodes = {}
    BY <1>1, <2>1 DEF WalkOK
  <2>2. CASE nodes # {}
    <3>1. cursor' \in nodes /\ \A y \in nodes \ {cursor'} : Older(cursor', y)
      BY <1>1, <1>2, <2>2, OldestExists
    <3> QED BY <1>1, <1>2, <1>3, <3>1, ListingAssumption DEF WalkOK
  <2> QED BY <2>1, <2>2
<1> QED BY <1>1, <1>3, <1>4

\* The environment only moves a notification on: what stood keeps its place or
\* is deleted, and what is deleted stays so.
LEMMA RowsMoveOn ==
    ASSUME [Next]_inbox, NEW x \in Ids, row[x] # "absent"
    PROVE  row'[x] # "absent" /\ (row'[x] \in Shown => row[x] \in Shown)
BY DEF Next, Arrive, MarkRead, Delete, Change, Shown, inbox

\* The page statement reads its page out of what stands beyond the cursor.
Rest(after) == {x \in Standing : after = NoId \/ Beyond(x, after)}

\* While a walk goes on, everything it still owes lies beyond its cursor.
CompleteOK ==
    /\ \A x \in stood : x \in Ids /\ row[x] # "absent"
    /\ walk \in {"asking", "anchored"} /\ cursor # NoId =>
         \A x \in stood \cap Standing : x \in got \/ Older(x, cursor)
    /\ walk = "over" /\ ~blind => stood \cap Standing \subseteq got

\* A page keeps the walk's debt beyond its cursor, and the last page pays it.
LEMMA PageOwesTheRest ==
    ASSUME WalkOK, CompleteOK, NEW first \in Firsts, ReadPage(first)
    PROVE  CompleteOK'
<1> DEFINE limit   == Limit(first)
           base    == Rest(cursor)
           fetched == Newest(base, limit + 1)
           nodes   == Newest(fetched, limit)
<1>1. limit \in Nat /\ base \in SUBSET Ids
  BY LimitInRange, ListingAssumption DEF Rest, Standing, OwnedBy
<1>2. /\ page' = nodes
      /\ got' = got \cup nodes
      /\ cursor' = IF nodes = {} THEN cursor
                   ELSE CHOOSE x \in nodes : \A y \in nodes \ {x} : Older(x, y)
      /\ walk' = IF Cardinality(fetched) > limit THEN "asking" ELSE "over"
      /\ stood' = IF cursor = NoId THEN Standing ELSE stood
      /\ blind' = (cursor # NoId /\ cursor \notin Standing)
      /\ walk = "anchored"
      /\ row' = row
  BY DEF ReadPage, Fetched, Rest, inbox
<1>3. Standing' = Standing /\ Standing \subseteq Ids
  BY <1>2 DEF Standing, OwnedBy
<1>4. /\ nodes \subseteq base
      /\ \A x \in base \ nodes, y \in nodes : Older(x, y)
      /\ Cardinality(fetched) <= limit => nodes = base
  <2>1. nodes \subseteq base
    BY DEF Newest
  <2> HIDE DEF limit, base
  <2> QED BY <1>1, <2>1, PageIsClosed
<1>5. nodes # {} => cursor' \in nodes /\ \A y \in nodes \ {cursor'} : Older(cursor', y)
  BY <1>1, <1>2, <1>4, OldestExists
<1>6. cursor = NoId => base = Standing
  BY DEF Rest
<1>7. cursor # NoId => \A x \in base : Older(x, cursor)
  BY DEF Rest, Beyond
<1>8. cursor \in Standing => \A x \in Standing : Older(x, cursor) => x \in base
  BY DEF Rest, Beyond
<1>9. cursor # NoId /\ cursor \notin Standing => base = {}
  BY DEF Rest, Beyond
<1>10. Cardinality(fetched) \in Nat
  <2> HIDE DEF limit, base
  <2> QED BY <1>1, NewestIsBounded
<1> HIDE DEF limit, base, fetched, nodes
\* What stood at the first page and stands now is shown, or in the statement's
\* reach, unless the cursor has gone.
<1>11. ASSUME cursor = NoId \/ cursor \in Standing, NEW x \in stood' \cap Standing
       PROVE  x \in got \/ x \in base
  BY <1>2, <1>6, <1>8, <1>11 DEF CompleteOK
<1>12. (\A x \in stood : x \in Ids /\ row[x] # "absent")'
  BY <1>2, <1>3 DEF CompleteOK, Standing, Shown
<1>13. ASSUME walk' = "asking", cursor' # NoId, NEW x \in stood' \cap Standing
       PROVE  x \in got' \/ Older(x, cursor')
  <2>1. cursor = NoId \/ cursor \in Standing
    <3>1. Cardinality(fetched) > limit
      BY <1>2, <1>13
    <3>2. cursor # NoId /\ cursor \notin Standing => fetched = {}
      BY <1>9 DEF fetched, Newest
    <3>3. fetched # {}
      BY <1>1, <3>1, FS_EmptySet
    <3> QED BY <3>2, <3>3
  <2>2. x \in got \/ x \in base
    BY <1>11, <1>13, <2>1
  <2>3. CASE nodes = {}
    BY <1>2, <1>7, <1>13, <2>2, <2>3
  <2>4. CASE nodes # {}
    BY <1>2, <1>4, <1>5, <2>2, <2>4
  <2> QED BY <2>3, <2>4
<1>14. ASSUME walk' = "over", ~blind', NEW x \in stood' \cap Standing
       PROVE  x \in got'
  <2>1. nodes = base
    BY <1>1, <1>2, <1>4, <1>10, <1>14
  <2> QED BY <1>2, <1>11, <1>14, <2>1
<1> QED BY <1>2, <1>3, <1>12, <1>13, <1>14 DEF CompleteOK

\* The state of a walk keeps its types, and no page is longer than the cap:
\* whatever a client passes as first.
THEOREM ListingTypes == ListingSpec => []TypeOK
<1>1. ListingInit => TypeOK
  <2> HAVE ListingInit
  <2>1. page = {} /\ Cardinality(page) <= MaxFirst
    <3>1. page = {} /\ Cardinality(page) = 0
      BY FS_EmptySet DEF ListingInit
    <3> QED BY <3>1, ListingAssumption
  <2>2. row \in [Ids -> States]
    BY DEF ListingInit, Init, States
  <2> QED BY <2>1, <2>2 DEF ListingInit, TypeOK
<1>2. TypeOK /\ [ListingNext]_lvars => TypeOK'
  <2> SUFFICES ASSUME TypeOK, [ListingNext]_lvars PROVE TypeOK'
    OBVIOUS
  <2>1. CASE Next /\ UNCHANGED client
    <3>1. row' \in [Ids -> States]
      BY <2>1 DEF Next, Arrive, MarkRead, Delete, Change, TypeOK, States, Shown
    <3> QED BY <2>1, <3>1 DEF TypeOK, client
  <2>2. CASE Open \/ NotFound
    <3>1. page' = {} /\ Cardinality({}) <= MaxFirst
      BY <2>2, FS_EmptySet, ListingAssumption DEF Open, NotFound, FirstPage
    <3> QED BY <2>2, <3>1 DEF Open, NotFound, FirstPage, inbox, TypeOK
  <2>3. ASSUME NEW first \in Firsts, ReadPage(first) PROVE TypeOK'
    <3> DEFINE fetched == Fetched(cursor, Limit(first))
               nodes   == Newest(fetched, Limit(first))
    <3>1. fetched \in SUBSET Ids /\ nodes \subseteq OwnedBy(Caller)
      BY DEF Fetched, Newest, Standing, OwnedBy
    <3>2. Cardinality(nodes) <= MaxFirst
      <4>1. Limit(first) \in Nat /\ Limit(first) <= MaxFirst
        BY LimitInRange, ListingAssumption
      <4> HIDE DEF fetched
      <4>2. Cardinality(nodes) \in Nat /\ Cardinality(nodes) <= Limit(first)
        BY <3>1, <4>1, NewestIsBounded
      <4> HIDE DEF nodes
      <4> QED BY <4>1, <4>2, ListingAssumption
    <3>3. cursor' \in Ids \cup {NoId}
      <4>1. cursor' = IF nodes = {} THEN cursor
                      ELSE CHOOSE x \in nodes : \A y \in nodes \ {x} : Older(x, y)
        BY <2>3 DEF ReadPage
      <4>2. nodes \in SUBSET Ids
        BY <3>1 DEF OwnedBy
      <4> HIDE DEF nodes
      <4> QED BY <4>1, <4>2, OldestExists DEF TypeOK
    <3>4. /\ page' = nodes
          /\ got' = got \cup nodes
          /\ walk' \in {"asking", "over"}
          /\ stood' \in {stood, Standing}
          /\ blind' \in BOOLEAN
          /\ row' = row
      BY <2>3 DEF ReadPage, inbox
    <3> HIDE DEF nodes
    <3> QED BY <3>1, <3>2, <3>3, <3>4 DEF TypeOK, Standing
  <2>4. CASE FindAnchor \/ UNCHANGED lvars \/ \E first \in Firsts : PageFails(first)
    BY <2>4 DEF FindAnchor, PageFails, lvars, client, inbox, TypeOK
  <2> QED BY <2>1, <2>2, <2>3, <2>4 DEF ListingNext, Step
<1> QED BY <1>1, <1>2, PTL DEF ListingSpec

\* The cursor stays the oldest of what the walk has shown.
LEMMA WalkAlwaysOK == ListingSpec => []WalkOK
<1>1. ListingInit => WalkOK
  BY DEF ListingInit, WalkOK
<1>2. WalkOK /\ [ListingNext]_lvars => WalkOK'
  <2> SUFFICES ASSUME WalkOK, [ListingNext]_lvars PROVE WalkOK'
    OBVIOUS
  <2>1. CASE Open \/ NotFound
    BY <2>1 DEF Open, NotFound, FirstPage, WalkOK
  <2>2. ASSUME NEW first \in Firsts, ReadPage(first) PROVE WalkOK'
    BY <2>2, PageGoesOn
  <2>3. CASE FindAnchor \/ UNCHANGED client \/ \E first \in Firsts : PageFails(first)
    BY <2>3 DEF FindAnchor, PageFails, client, WalkOK
  <2> QED BY <2>1, <2>2, <2>3 DEF ListingNext, Step, lvars, client
<1> QED BY <1>1, <1>2, PTL DEF ListingSpec

\* Every page of a walk is older than all the walk has shown before, whatever
\* is inserted, read and deleted meanwhile.
THEOREM NothingShownTwice == ListingSpec => PagesDescend
<1>1. WalkOK /\ [ListingNext]_lvars =>
        (walk = "anchored" /\ walk' \in {"asking", "over"} =>
           \A x \in page', y \in got : Older(x, y))
  <2> SUFFICES ASSUME WalkOK, [ListingNext]_lvars,
                      walk = "anchored", walk' \in {"asking", "over"}
               PROVE  \A x \in page', y \in got : Older(x, y)
    OBVIOUS
  <2>1. ASSUME NEW first \in Firsts, ReadPage(first)
        PROVE  \A x \in page', y \in got : Older(x, y)
    BY <2>1, PageGoesOn
  <2>2. \E first \in Firsts : ReadPage(first)
    BY DEF ListingNext, Step, Open, NotFound, FirstPage, FindAnchor, PageFails, lvars, client
  <2> QED BY <2>1, <2>2
<1> QED BY <1>1, WalkAlwaysOK, PTL DEF ListingSpec, PagesDescend

\* A walk that has come to its end has shown all that stood when it began and
\* still stands, whatever was inserted, read and deleted between its pages and
\* whatever sizes the client asked for, unless its cursor was deleted between
\* the two statements of its last page.
THEOREM NothingMissed == ListingSpec => []WalkMissesNothing
<1>1. ListingInit => CompleteOK
  BY DEF ListingInit, CompleteOK
<1>2. WalkOK /\ CompleteOK /\ [ListingNext]_lvars => CompleteOK'
  <2> SUFFICES ASSUME WalkOK, CompleteOK, [ListingNext]_lvars PROVE CompleteOK'
    OBVIOUS
  <2>1. CASE [Next]_inbox /\ UNCHANGED client
    <3>1. \A x \in stood : x \in Ids /\ row'[x] # "absent"
      BY <2>1, RowsMoveOn DEF CompleteOK
    <3>2. (stood \cap Standing)' \subseteq stood \cap Standing
      BY <2>1, RowsMoveOn DEF CompleteOK, Standing, OwnedBy, client
    <3> QED BY <2>1, <3>1, <3>2 DEF CompleteOK, client
  <2>2. CASE Open \/ NotFound
    BY <2>2 DEF Open, NotFound, FirstPage, CompleteOK
  <2>3. ASSUME NEW first \in Firsts, ReadPage(first) PROVE CompleteOK'
    BY <2>3, PageOwesTheRest
  <2>4. CASE FindAnchor \/ \E first \in Firsts : PageFails(first)
    BY <2>4 DEF FindAnchor, PageFails, CompleteOK, inbox, Standing
  <2> QED BY <2>1, <2>2, <2>3, <2>4 DEF ListingNext, Step, lvars
<1>3. CompleteOK => WalkMissesNothing
  BY DEF CompleteOK, WalkMissesNothing
<1> QED BY <1>1, <1>2, <1>3, WalkAlwaysOK, PTL DEF ListingSpec

=============================================================================
