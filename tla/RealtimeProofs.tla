--------------------------- MODULE RealtimeProofs ---------------------------
EXTENDS RealtimeInv, SequenceTheorems, FiniteSetTheorems, TLAPS

(* What the operators of Realtime build. *)

\* A finite set can be listed, and Listed lists it.
LEMMA ListedType ==
    ASSUME NEW S, IsFiniteSet(S)
    PROVE  /\ Cardinality(S) \in Nat
           /\ Listed(S) \in [1..Cardinality(S) -> S]
<1>1. /\ Cardinality(S) \in Nat
      /\ ExistsBijection(1..Cardinality(S), S)
  BY FS_CardinalityType
<1>2. PICK f \in Bijection(1..Cardinality(S), S) : TRUE
  BY <1>1 DEF ExistsBijection
<1>3. /\ f \in [1..Cardinality(S) -> S]
      /\ {f[i] : i \in DOMAIN f} = S
  BY <1>2 DEF Bijection, Injection, Surjection
<1> QED
  BY <1>1, <1>3 DEF Listed

\* A function on an initial segment is a sequence.
LEMMA SegmentIsSeq ==
    ASSUME NEW S, NEW n \in Nat, NEW f \in [1..n -> S]
    PROVE  f \in Seq(S)
  OBVIOUS

\* One id of a recipient makes a signal for that recipient.
LEMMA FactIsSignal ==
    ASSUME NEW kind \in {"added", "read", "deleted"}, NEW p \in Recipients,
           NEW ids \in SUBSET IdsOf(p)
    PROVE  Fact(kind, p, ids) \in EventsFor(p)
  BY DEF Fact, EventsFor, Signals, Facts, IdsOf

LEMMA ChunkedType ==
    ASSUME NEW kind \in {"read", "deleted"}, NEW p \in Recipients,
           NEW ids \in SUBSET IdsOf(p)
    PROVE  Chunked(kind, p, ids) \in Seq(Signals)
<1> DEFINE n == Cardinality(ids)
           starts == {k \in 0..(n - 1) : k % Chunk = 0}
           part(i) == {Listed(ids)[j] : j \in
                         {k \in 1..n : (i - 1) * Chunk < k /\ k <= i * Chunk}}
<1>1. IsFiniteSet(ids)
  BY FS_Subset, SessionsAssumption DEF IdsOf
<1>2. n \in Nat /\ Listed(ids) \in [1..n -> ids]
  BY <1>1, ListedType
<1>3. Cardinality(starts) \in Nat
  <2>1. IsFiniteSet(0..(n - 1))
    BY <1>2, FS_Interval
  <2> QED
    BY <2>1, FS_Subset, FS_CardinalityType
<1>4. \A i : Fact(kind, p, part(i)) \in Signals
  <2> SUFFICES ASSUME NEW i PROVE Fact(kind, p, part(i)) \in Signals
    OBVIOUS
  <2>1. part(i) \subseteq IdsOf(p)
    BY <1>2
  <2> QED
    BY <2>1, FactIsSignal DEF EventsFor
<1>5. Chunked(kind, p, ids) =
        [i \in 1..Cardinality(starts) |-> Fact(kind, p, part(i))]
  BY DEF Chunked
<1> HIDE DEF n, starts, part
<1> QED
  BY <1>3, <1>4, <1>5, SegmentIsSeq

LEMMA InsertedType ==
    ASSUME NEW ids \in SUBSET Ids
    PROVE  [n \in 1..Cardinality(ids) |->
              Fact("added", OwnerOf[Listed(ids)[n]], {Listed(ids)[n]})]
             \in Seq(Signals)
<1>1. IsFiniteSet(ids)
  BY FS_Subset, SessionsAssumption
<1>2. Cardinality(ids) \in Nat /\ Listed(ids) \in [1..Cardinality(ids) -> ids]
  BY <1>1, ListedType
<1>3. ASSUME NEW n \in 1..Cardinality(ids)
      PROVE  Fact("added", OwnerOf[Listed(ids)[n]], {Listed(ids)[n]}) \in Signals
  <2> DEFINE x == Listed(ids)[n]
  <2>1. x \in Ids /\ OwnerOf[x] \in Recipients
    BY <1>2, <1>3, SessionsAssumption
  <2>2. {x} \subseteq IdsOf(OwnerOf[x])
    BY <2>1 DEF IdsOf
  <2> HIDE DEF x
  <2> QED
    BY <2>1, <2>2, FactIsSignal DEF EventsFor, x
<1> QED
  BY <1>2, <1>3, SegmentIsSeq

\* Signals are facts, and so are the events of one recipient.
LEMMA SignalSeqs ==
    /\ \A q \in Seq(Signals) : q \in Seq(Facts)
    /\ \A p : \A q \in Seq(EventsFor(p)) : q \in Seq(Facts)
<1>1. Signals \subseteq Facts /\ \A p : EventsFor(p) \subseteq Facts
  BY DEF Signals, EventsFor
<1> QED
  BY <1>1, SeqMonotonic

-----------------------------------------------------------------------------
(* What the shared parts of the actions keep. *)

LEMMA CommitKeeps ==
    ASSUME ListenersOK, HistoryOK, NEW q \in Seq(Signals), Commit(q),
           UNCHANGED <<channel, stage, hand, faults>>
    PROVE  ListenersOK' /\ HistoryOK'
<1>1. feed' \in [Instances -> Seq(Signals)]
  <2>1. \A i \in Instances : feed[i] \o q \in Seq(Signals)
    BY ConcatProperties DEF ListenersOK
  <2> QED
    BY <2>1 DEF Commit, ListenersOK
<1>2. missed' \in [Sessions -> SUBSET Causes]
  BY DEF Commit, Miss, Unheard, HistoryOK, Causes
<1> QED
  BY <1>1, <1>2 DEF ListenersOK, HistoryOK

LEMMA SendKeeps ==
    ASSUME RingsOK, NEW i \in Instances, NEW e \in Signals, Send(i, e)
    PROVE  RingsOK'
<1> DEFINE to == IF e.to \in registry[i] THEN Streaming(i, e.to) ELSE {}
<1>1. \A s \in Sessions : s \in to => e \in EventsFor(CallerOf[s])
  BY DEF Streaming, Audience, EventsFor
<1>2. \A s \in Sessions :
        ring'[s] = IF s \in to THEN Buffer(s, e) ELSE ring[s]
  BY DEF Send
<1>3. ASSUME NEW s \in Sessions, s \in to
      PROVE  Buffer(s, e) \in Seq(EventsFor(CallerOf[s]))
  <2> DEFINE Mine == EventsFor(CallerOf[s])
  <2>1. e \in Mine /\ ring[s] \in Seq(Mine)
    BY <1>1, <1>3 DEF RingsOK
  <2> HIDE DEF Mine
  <2>2. CASE Len(ring[s]) < Capacity
    <3>1. Append(ring[s], e) \in Seq(Mine)
      BY <2>1, AppendProperties
    <3> QED
      BY <2>2, <3>1 DEF Buffer, Mine
  <2>3. CASE ~(Len(ring[s]) < Capacity)
    <3>1. ring[s] # <<>>
      BY <2>3, LimitsAssumption
    <3>2. Tail(ring[s]) \in Seq(Mine)
      BY <2>1, <3>1, HeadTailProperties
    <3>3. Append(Tail(ring[s]), e) \in Seq(Mine)
      BY <2>1, <3>2, AppendProperties
    <3> QED
      BY <2>3, <3>3 DEF Buffer, Mine
  <2> QED
    BY <2>2, <2>3 DEF Mine
<1>4. \A s \in Sessions : ring'[s] \in Seq(EventsFor(CallerOf[s]))
  <2> HIDE DEF to
  <2> QED
    BY <1>2, <1>3 DEF RingsOK
<1>5. ring' \in [Sessions -> Seq(Facts)]
  <2>1. \A s \in Sessions : ring'[s] \in Seq(Facts)
    BY <1>4, SignalSeqs
  <2> QED
    BY <2>1 DEF Send
<1>6. overrun' \in [Sessions -> BOOLEAN]
  BY DEF Send, RingsOK
<1> QED
  BY <1>4, <1>5, <1>6 DEF RingsOK

LEMMA EndedKeeps ==
    ASSUME RingsOK, ClientsOK, NEW S \in SUBSET Sessions, Ended(S)
    PROVE  /\ RingsOK' /\ ClientsOK'
           /\ \A s \in Sessions : phase'[s] # "closed" => s \notin S /\ phase[s] # "closed"
<1>1. RingsOK'
  <2>1. \A s \in Sessions : ring'[s] \in Seq(EventsFor(CallerOf[s]))
    BY EmptySeq DEF Ended, RingsOK
  <2>2. ring' \in [Sessions -> Seq(Facts)]
    BY EmptySeq DEF Ended, RingsOK
  <2>3. overrun' \in [Sessions -> BOOLEAN]
    BY DEF Ended, RingsOK
  <2> QED
    BY <2>1, <2>2, <2>3 DEF RingsOK
<1>2. ClientsOK'
  <2>1. Blank \in [Ids -> Shown \cup {"none"}] /\ \A x \in Ids : Blank[x] = "none"
    BY DEF Blank
  <2>2. phase' \in [Sessions -> {"closed", "open", "synced"}]
    BY DEF Ended, ClientsOK
  <2>3. view' \in [Sessions -> [Ids -> Shown \cup {"none"}]]
    BY <2>1 DEF Ended, ClientsOK
  <2>4. NothingForeign'
    BY <2>1 DEF Ended, ClientsOK, NothingForeign
  <2> QED
    BY <2>2, <2>3, <2>4 DEF ClientsOK
<1> QED
  BY <1>1, <1>2 DEF Ended

\* The head of a feed, and what is left of it.
LEMMA HeadOfFeed ==
    ASSUME ListenersOK, NEW i \in Instances, feed[i] # <<>>
    PROVE  /\ Head(feed[i]) \in Signals
           /\ Head(feed[i]).to \in Recipients
           /\ Tail(feed[i]) \in Seq(Signals)
<1>1. feed[i] \in Seq(Signals)
  BY DEF ListenersOK
<1>2. Head(feed[i]) \in Signals /\ Tail(feed[i]) \in Seq(Signals)
  BY <1>1, HeadTailProperties
<1> QED
  BY <1>2 DEF Signals, Facts

LEMMA DropKeeps ==
    ASSUME ListenersOK, NEW i \in Instances, Drop(i), UNCHANGED <<channel, feed>>
    PROVE  ListenersOK'
  BY DEF ListenersOK, Drop

\* A signal that is not a fact cannot be taken for nothing in hand.
LEMMA SignalIsFact == \A e \in Signals : e # NoFact
  BY NoFactAssumption DEF Signals

-----------------------------------------------------------------------------
(* Every action keeps WayOK. *)

LEMMA InitWay == Init => WayOK
<1> SUFFICES ASSUME Init PROVE WayOK
  OBVIOUS
<1>1. Blank \in [Ids -> Shown \cup {"none"}] /\ \A x \in Ids : Blank[x] = "none"
  BY DEF Blank
<1>2. StoreOK /\ HistoryOK /\ EntriesOK
  BY DEF Init, StoreOK, HistoryOK, EntriesOK, RegistryHoldsStreams
<1>3. ListenersOK
  BY EmptySeq DEF Init, ListenersOK
<1>4. RingsOK
  BY EmptySeq DEF Init, RingsOK
<1>5. ClientsOK
  BY <1>1 DEF Init, ClientsOK, NothingForeign
<1> QED
  BY <1>2, <1>3, <1>4, <1>5 DEF WayOK

LEMMA InsertWay ==
    ASSUME WayOK, NEW ids \in SUBSET Ids, Insert(ids)
    PROVE  WayOK'
<1>1. StoreOK'
  BY DEF WayOK, StoreOK, Insert, Shown
<1>2. ListenersOK' /\ HistoryOK'
  BY InsertedType, CommitKeeps DEF WayOK, Insert
<1>3. RingsOK' /\ ClientsOK' /\ EntriesOK'
  BY DEF WayOK, Insert, RingsOK, ClientsOK, NothingForeign, EntriesOK,
         RegistryHoldsStreams
<1> QED
  BY <1>1, <1>2, <1>3 DEF WayOK

LEMMA MarkReadWay ==
    ASSUME WayOK, NEW p \in Recipients, NEW ids \in SUBSET IdsOf(p),
           MarkRead(p, ids)
    PROVE  WayOK'
<1>1. StoreOK'
  BY DEF WayOK, StoreOK, MarkRead, Shown
<1>2. ListenersOK' /\ HistoryOK'
  BY ChunkedType, CommitKeeps DEF WayOK, MarkRead
<1>3. RingsOK' /\ ClientsOK' /\ EntriesOK'
  BY DEF WayOK, MarkRead, RingsOK, ClientsOK, NothingForeign, EntriesOK,
         RegistryHoldsStreams
<1> QED
  BY <1>1, <1>2, <1>3 DEF WayOK

LEMMA DeleteWay ==
    ASSUME WayOK, NEW p \in Recipients, NEW ids \in SUBSET IdsOf(p),
           Delete(p, ids)
    PROVE  WayOK'
<1>1. StoreOK'
  BY DEF WayOK, StoreOK, Delete, Shown
<1>2. ListenersOK' /\ HistoryOK'
  BY ChunkedType, CommitKeeps DEF WayOK, Delete
<1>3. RingsOK' /\ ClientsOK' /\ EntriesOK'
  BY DEF WayOK, Delete, RingsOK, ClientsOK, NothingForeign, EntriesOK,
         RegistryHoldsStreams
<1> QED
  BY <1>1, <1>2, <1>3 DEF WayOK

\* The listener leaves the clients alone, and they the listener.
LEMMA ClientsRest ==
    ASSUME ClientsOK, EntriesOK, UNCHANGED <<phase, view>>,
           registry' \in [Instances -> SUBSET Recipients],
           \A s \in Sessions : phase[s] # "closed" =>
             (CallerOf[s] \in registry[HostOf[s]] =>
                CallerOf[s] \in registry'[HostOf[s]])
    PROVE  ClientsOK' /\ EntriesOK'
  BY DEF ClientsOK, NothingForeign, EntriesOK, RegistryHoldsStreams

LEMMA ListenWay ==
    ASSUME WayOK, NEW i \in Instances, Listen(i)
    PROVE  WayOK'
<1>1. ListenersOK'
  BY DEF WayOK, Listen, ListenersOK
<1>2. StoreOK' /\ RingsOK' /\ HistoryOK'
  BY DEF WayOK, Listen, streams, StoreOK, RingsOK, HistoryOK
<1>3. ClientsOK' /\ EntriesOK'
  BY DEF WayOK, Listen, streams, ClientsOK, NothingForeign, EntriesOK,
         RegistryHoldsStreams
<1> QED
  BY <1>1, <1>2, <1>3 DEF WayOK

LEMMA LoseChannelWay ==
    ASSUME WayOK, NEW i \in Instances, LoseChannel(i)
    PROVE  WayOK'
<1>1. PICK n \in 0..Len(feed[i]) :
        /\ feed' = [feed EXCEPT ![i] = SubSeq(feed[i], 1, n)]
        /\ Miss(UNION {Audience(i, feed[i][m].to) : m \in (n+1)..Len(feed[i])},
                [s \in Sessions |-> "broken"])
  BY DEF LoseChannel
<1>2. ListenersOK'
  <2>1. feed[i] \in Seq(Signals)
    BY DEF WayOK, ListenersOK
  <2>2. SubSeq(feed[i], 1, n) \in Seq(Signals)
    <3>1. \A k \in 1..n : feed[i][k] \in Signals
      BY <2>1, ElementOfSeq, LenProperties
    <3> QED
      BY <2>1, <3>1, SubSeqProperties
  <2> QED
    BY <1>1, <2>2 DEF WayOK, LoseChannel, ListenersOK
<1>3. HistoryOK'
  BY <1>1 DEF WayOK, HistoryOK, LoseChannel, Fault, Miss, Causes
<1>4. StoreOK' /\ RingsOK' /\ ClientsOK' /\ EntriesOK'
  BY DEF WayOK, LoseChannel, StoreOK, RingsOK, ClientsOK, NothingForeign,
         EntriesOK, RegistryHoldsStreams
<1> QED
  BY <1>2, <1>3, <1>4 DEF WayOK

\* The registry forgets only a recipient without a stream.
LEMMA InactiveKeeps ==
    ASSUME ClientsOK, EntriesOK, NEW i \in Instances, NEW p \in Recipients,
           Inactive(i, p), UNCHANGED <<phase, view>>
    PROVE  ClientsOK' /\ EntriesOK'
<1>1. registry' \in [Instances -> SUBSET Recipients]
  BY DEF Inactive, EntriesOK
<1>2. ASSUME NEW s \in Sessions, phase[s] # "closed",
             CallerOf[s] \in registry[HostOf[s]]
      PROVE  CallerOf[s] \in registry'[HostOf[s]]
  <2>1. HostOf[s] \in Instances
    BY SessionsAssumption
  <2>2. HostOf[s] = i => CallerOf[s] # p
    BY <1>2 DEF Inactive, Watched, Streaming, Audience
  <2> QED
    BY <1>2, <2>1, <2>2 DEF Inactive, EntriesOK
<1> QED
  BY <1>1, <1>2, ClientsRest

LEMMA SkipWay ==
    ASSUME WayOK, NEW i \in Instances, Skip(i)
    PROVE  WayOK'
<1>1. ListenersOK'
  BY HeadOfFeed DEF WayOK, Skip, ListenersOK
<1>2. ClientsOK' /\ EntriesOK'
  BY HeadOfFeed, InactiveKeeps DEF WayOK, Skip, streams
<1>3. StoreOK' /\ RingsOK' /\ HistoryOK'
  BY DEF WayOK, Skip, streams, StoreOK, RingsOK, HistoryOK
<1> QED
  BY <1>1, <1>2, <1>3 DEF WayOK

LEMMA UndecodableWay ==
    ASSUME WayOK, NEW i \in Instances, Undecodable(i)
    PROVE  WayOK'
<1>1. ListenersOK'
  BY HeadOfFeed DEF WayOK, Undecodable, ListenersOK
<1>2. HistoryOK'
  BY DEF WayOK, Undecodable, Fault, Miss, HistoryOK, Causes
<1>3. StoreOK' /\ RingsOK' /\ ClientsOK' /\ EntriesOK'
  BY DEF WayOK, Undecodable, StoreOK, RingsOK, ClientsOK, NothingForeign,
         EntriesOK, RegistryHoldsStreams
<1> QED
  BY <1>1, <1>2, <1>3 DEF WayOK

LEMMA ForwardWay ==
    ASSUME WayOK, NEW i \in Instances, Forward(i)
    PROVE  WayOK'
<1>1. ListenersOK'
  BY HeadOfFeed DEF WayOK, Forward, ListenersOK
<1>2. RingsOK'
  BY HeadOfFeed, SendKeeps DEF WayOK, Forward
<1>3. StoreOK' /\ ClientsOK' /\ EntriesOK' /\ HistoryOK'
  BY DEF WayOK, Forward, Active, StoreOK, ClientsOK, NothingForeign,
         EntriesOK, RegistryHoldsStreams, HistoryOK
<1> QED
  BY <1>1, <1>2, <1>3 DEF WayOK

LEMMA TakeWay ==
    ASSUME WayOK, NEW i \in Instances, Take(i)
    PROVE  WayOK'
<1>1. ListenersOK'
  BY HeadOfFeed, SignalIsFact DEF WayOK, Take, ListenersOK
<1>2. StoreOK' /\ RingsOK' /\ ClientsOK' /\ EntriesOK' /\ HistoryOK'
  BY DEF WayOK, Take, Active, streams, StoreOK, RingsOK, ClientsOK,
         NothingForeign, EntriesOK, RegistryHoldsStreams, HistoryOK
<1> QED
  BY <1>1, <1>2 DEF WayOK

LEMMA RereadWay ==
    ASSUME WayOK, NEW i \in Instances, Reread(i)
    PROVE  WayOK'
<1> DEFINE now == {row[x] : x \in hand[i].ids} \cap Shown
<1>1. ListenersOK'
  <2>1. CASE now = {}
    BY <2>1, DropKeeps DEF WayOK, Reread
  <2>2. CASE now # {}
    <3>1. PICK r \in Shown :
            /\ hand' = [hand EXCEPT ![i].row = r]
            /\ stage' = [stage EXCEPT ![i] = "delivering"]
      BY <2>2 DEF Reread
    <3>2. hand[i] \in Signals
      BY DEF WayOK, ListenersOK, Reread
    <3>3. [hand[i] EXCEPT !.row = r] \in Signals
      BY <3>2 DEF Signals, Facts
    <3> QED
      BY <3>1, <3>3, SignalIsFact DEF WayOK, Reread, ListenersOK
  <2> QED
    BY <2>1, <2>2
<1>2. StoreOK' /\ RingsOK' /\ ClientsOK' /\ EntriesOK' /\ HistoryOK'
  BY DEF WayOK, Reread, streams, StoreOK, RingsOK, ClientsOK,
         NothingForeign, EntriesOK, RegistryHoldsStreams, HistoryOK
<1> QED
  BY <1>1, <1>2 DEF WayOK

LEMMA RereadFailsWay ==
    ASSUME WayOK, NEW i \in Instances, RereadFails(i)
    PROVE  WayOK'
<1>1. ListenersOK'
  BY DropKeeps DEF WayOK, RereadFails
<1>2. HistoryOK'
  BY DEF WayOK, RereadFails, Fault, Miss, HistoryOK, Causes
<1>3. StoreOK' /\ RingsOK' /\ ClientsOK' /\ EntriesOK'
  BY DEF WayOK, RereadFails, StoreOK, RingsOK, ClientsOK, NothingForeign,
         EntriesOK, RegistryHoldsStreams
<1> QED
  BY <1>1, <1>2, <1>3 DEF WayOK

LEMMA DeliverWay ==
    ASSUME WayOK, NEW i \in Instances, Deliver(i)
    PROVE  WayOK'
<1>1. ListenersOK'
  BY DropKeeps DEF WayOK, Deliver
<1>2. hand[i] \in Signals
  BY DEF WayOK, ListenersOK, Deliver
<1>3. RingsOK'
  BY <1>2, SendKeeps DEF WayOK, Deliver
<1>4. StoreOK' /\ ClientsOK' /\ EntriesOK' /\ HistoryOK'
  BY DEF WayOK, Deliver, StoreOK, ClientsOK, NothingForeign, EntriesOK,
         RegistryHoldsStreams, HistoryOK
<1> QED
  BY <1>1, <1>3, <1>4 DEF WayOK

LEMMA OpenWay ==
    ASSUME WayOK, NEW s \in Sessions, Open(s)
    PROVE  WayOK'
<1> USE SessionsAssumption
<1>1. EntriesOK'
  <2>1. registry' \in [Instances -> SUBSET Recipients]
    BY DEF WayOK, Open, EntriesOK
  <2>2. ASSUME NEW t \in Sessions, phase'[t] # "closed"
        PROVE  CallerOf[t] \in registry'[HostOf[t]]
    <3>1. HostOf[t] \in Instances
      OBVIOUS
    <3>2. CallerOf[t] \in registry[HostOf[t]] \/ t = s
      BY <2>2 DEF WayOK, Open, ClientsOK, EntriesOK, RegistryHoldsStreams
    <3>3. registry' = [registry EXCEPT ![HostOf[s]] =
                         registry[HostOf[s]] \cup {CallerOf[s]}]
      BY DEF Open
    <3>4. registry \in [Instances -> SUBSET Recipients]
      BY DEF WayOK, EntriesOK
    <3> QED
      BY <3>1, <3>2, <3>3, <3>4
  <2> QED
    BY <2>1, <2>2 DEF EntriesOK, RegistryHoldsStreams
<1>2. ClientsOK'
  BY DEF WayOK, Open, ClientsOK, NothingForeign
<1>3. HistoryOK'
  BY DEF WayOK, Open, HistoryOK
<1>4. StoreOK' /\ ListenersOK' /\ RingsOK'
  BY DEF WayOK, Open, StoreOK, ListenersOK, RingsOK
<1> QED
  BY <1>1, <1>2, <1>3, <1>4 DEF WayOK

LEMMA SnapshotWay ==
    ASSUME WayOK, NEW s \in Sessions, Snapshot(s)
    PROVE  WayOK'
<1>1. ClientsOK'
  <2>1. \A x \in Ids : /\ Answer(s, x) \in Shown \cup {"none"}
                       /\ Answer(s, x) # "none" => OwnerOf[x] = CallerOf[s]
    BY DEF Answer
  <2> QED
    BY <2>1 DEF WayOK, Snapshot, ClientsOK, NothingForeign
<1>2. EntriesOK'
  BY DEF WayOK, Snapshot, listeners, ClientsOK, EntriesOK,
         RegistryHoldsStreams
<1>3. StoreOK' /\ ListenersOK' /\ RingsOK' /\ HistoryOK'
  BY DEF WayOK, Snapshot, listeners, StoreOK, ListenersOK, RingsOK, HistoryOK
<1> QED
  BY <1>1, <1>2, <1>3 DEF WayOK

\* Folding changes an entry of the event's own ids only.
LEMMA FoldType ==
    ASSUME NEW v \in [Ids -> Shown \cup {"none"}], NEW e \in Signals
    PROVE  /\ Fold(v, e) \in [Ids -> Shown \cup {"none"}]
           /\ \A x \in Ids : x \notin IdsOf(e.to) => Fold(v, e)[x] = v[x]
<1>1. /\ e.kind \in {"added", "read", "deleted"}
      /\ e.row \in Shown \cup {"none"}
      /\ e.ids \subseteq IdsOf(e.to)
  BY DEF Signals, Facts
<1>2. CASE e.kind = "added"
  BY <1>1, <1>2 DEF Fold, Shown
<1>3. CASE e.kind = "read"
  BY <1>1, <1>3 DEF Fold, Shown
<1>4. CASE e.kind = "deleted"
  BY <1>1, <1>4 DEF Fold, Shown
<1> QED
  BY <1>1, <1>2, <1>3, <1>4

LEMMA HeadOfRing ==
    ASSUME RingsOK, NEW s \in Sessions, ring[s] # <<>>
    PROVE  /\ Head(ring[s]) \in EventsFor(CallerOf[s])
           /\ Tail(ring[s]) \in Seq(EventsFor(CallerOf[s]))
<1>1. ring[s] \in Seq(EventsFor(CallerOf[s]))
  BY DEF RingsOK
<1> QED
  BY <1>1, HeadTailProperties

LEMMA ReceiveWay ==
    ASSUME WayOK, NEW s \in Sessions, Receive(s)
    PROVE  WayOK'
<1>1. PICK e \in EventsFor(CallerOf[s]) :
        view' = [view EXCEPT ![s] = Fold(view[s], e)]
  BY HeadOfRing DEF WayOK, Receive
<1>2. e \in Signals /\ e.to = CallerOf[s]
  BY DEF EventsFor
<1>3. view[s] \in [Ids -> Shown \cup {"none"}]
  BY DEF WayOK, ClientsOK
<1>4. /\ Fold(view[s], e) \in [Ids -> Shown \cup {"none"}]
      /\ \A x \in Ids : x \notin IdsOf(CallerOf[s]) => Fold(view[s], e)[x] = view[s][x]
  BY <1>2, <1>3, FoldType
<1>5. ClientsOK'
  <2>1. NothingForeign'
    BY <1>1, <1>4 DEF WayOK, Receive, ClientsOK, NothingForeign, IdsOf
  <2> QED
    BY <1>1, <1>4, <2>1 DEF WayOK, Receive, ClientsOK
<1>6. RingsOK'
  <2>1. Tail(ring[s]) \in Seq(EventsFor(CallerOf[s]))
    BY HeadOfRing DEF WayOK, Receive
  <2>2. Tail(ring[s]) \in Seq(Facts)
    BY <2>1, SignalSeqs
  <2> QED
    BY <2>1, <2>2 DEF WayOK, Receive, RingsOK
<1>7. StoreOK' /\ ListenersOK' /\ EntriesOK' /\ HistoryOK'
  BY DEF WayOK, Receive, listeners, StoreOK, ListenersOK, EntriesOK,
         RegistryHoldsStreams, HistoryOK
<1> QED
  BY <1>5, <1>6, <1>7 DEF WayOK

LEMMA EndWay ==
    ASSUME WayOK, NEW s \in Sessions, EndLagged(s) \/ Leave(s)
    PROVE  WayOK'
<1>1. Ended({s}) /\ UNCHANGED <<row, listeners, missed, faults>>
  BY DEF EndLagged, Leave
<1>2. /\ RingsOK' /\ ClientsOK'
      /\ \A t \in Sessions : phase'[t] # "closed" => phase[t] # "closed"
  BY <1>1, EndedKeeps DEF WayOK
<1>3. EntriesOK'
  BY <1>1, <1>2 DEF WayOK, listeners, EntriesOK, RegistryHoldsStreams
<1>4. StoreOK' /\ ListenersOK' /\ HistoryOK'
  BY <1>1 DEF WayOK, listeners, StoreOK, ListenersOK, HistoryOK
<1> QED
  BY <1>2, <1>3, <1>4 DEF WayOK

LEMMA RestartWay ==
    ASSUME WayOK, NEW i \in Instances, Restart(i)
    PROVE  WayOK'
<1> DEFINE here == {s \in Sessions : HostOf[s] = i}
<1>1. /\ RingsOK' /\ ClientsOK'
      /\ \A s \in Sessions : phase'[s] # "closed" => s \notin here /\ phase[s] # "closed"
  BY EndedKeeps DEF WayOK, Restart
<1>2. EntriesOK'
  <2>1. \A s \in Sessions : s \notin here => registry'[HostOf[s]] = registry[HostOf[s]]
    BY SessionsAssumption DEF WayOK, Restart, EntriesOK
  <2> QED
    BY <1>1, <2>1 DEF WayOK, Restart, EntriesOK, RegistryHoldsStreams
<1>3. ListenersOK'
  BY EmptySeq DEF WayOK, Restart, ListenersOK
<1>4. StoreOK' /\ HistoryOK'
  BY DEF WayOK, Restart, Fault, StoreOK, HistoryOK
<1> QED
  BY <1>1, <1>2, <1>3, <1>4 DEF WayOK

LEMMA NextWay == ASSUME WayOK, [Next]_vars PROVE WayOK'
<1>1. ASSUME NEW ids \in SUBSET Ids, Insert(ids) PROVE WayOK'
  BY <1>1, InsertWay
<1>2. ASSUME NEW p \in Recipients, NEW ids \in SUBSET IdsOf(p),
             MarkRead(p, ids) \/ Delete(p, ids)
      PROVE  WayOK'
  BY <1>2, MarkReadWay, DeleteWay
<1>3. ASSUME NEW i \in Instances, Listen(i) \/ Dispatch(i) \/ Fail(i)
      PROVE  WayOK'
  BY <1>3, ListenWay, UndecodableWay, SkipWay, ForwardWay, TakeWay, RereadWay, DeliverWay,
     LoseChannelWay, RereadFailsWay, RestartWay DEF Dispatch, Fail
<1>4. ASSUME NEW s \in Sessions, Open(s) \/ Follow(s) \/ Leave(s)
      PROVE  WayOK'
  BY <1>4, OpenWay, SnapshotWay, ReceiveWay, EndWay DEF Follow
<1>5. CASE UNCHANGED vars
  BY <1>5 DEF vars, listeners, streams, WayOK, StoreOK, ListenersOK, RingsOK,
         ClientsOK, NothingForeign, EntriesOK, RegistryHoldsStreams, HistoryOK
<1> QED
  BY <1>1, <1>2, <1>3, <1>4, <1>5 DEF Next, Write

-----------------------------------------------------------------------------
\* In every state of every instance and session, what is under way concerns the
\* recipient it is addressed to, and every stream has its registry entry
\* (src/realtime.rs 26-59, 82-112; src/graphql.rs 203-243).
THEOREM WayAlwaysOK == Spec => []WayOK
<1> QED
  BY InitWay, NextWay, PTL DEF Spec

\* The state of the read path keeps its types (src/realtime.rs 26-112).
THEOREM RealtimeTypes == Spec => []TypeOK
<1>1. WayOK => TypeOK
  <2> SUFFICES ASSUME WayOK PROVE TypeOK
    OBVIOUS
  <2>1. feed \in [Instances -> Seq(Facts)]
    BY SignalSeqs DEF WayOK, ListenersOK
  <2>2. hand \in [Instances -> Facts \cup {NoFact}]
    BY DEF WayOK, ListenersOK, Signals
  <2> QED
    BY <2>1, <2>2 DEF WayOK, StoreOK, ListenersOK, RingsOK, ClientsOK,
                      EntriesOK, HistoryOK, TypeOK
<1> QED
  BY <1>1, WayAlwaysOK, PTL

\* No session is ever shown a notification of another recipient
\* (Subscribers::deliver, src/realtime.rs 51-59).
THEOREM NothingForeignHolds == Spec => []NothingForeign
<1>1. WayOK => NothingForeign
  BY DEF WayOK, ClientsOK
<1> QED
  BY <1>1, WayAlwaysOK, PTL

\* Eviction never strands a stream (Subscribers::active, src/realtime.rs 39-48).
THEOREM RegistryHolds == Spec => []RegistryHoldsStreams
<1>1. WayOK => RegistryHoldsStreams
  BY DEF WayOK, EntriesOK
<1> QED
  BY <1>1, WayAlwaysOK, PTL

=============================================================================
