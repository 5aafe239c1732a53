----------------------------- MODULE RealtimeInv ----------------------------
(***************************************************************************)
(* Two inductive invariants of Realtime.  WayOK: what is on its way to a   *)
(* session concerns that session's recipient and nobody else, from the     *)
(* signal of the write to the client's view.  CourseOK: what is on its way *)
(* will correct whatever the view still shows wrongly.  RealtimeProofs and *)
(* RealtimeConverges show that every step keeps them for all constants.    *)
(***************************************************************************)
EXTENDS Realtime, Functions

\* Facts about notifications of the recipient they are addressed to.
Signals == {e \in Facts : e.ids \subseteq IdsOf(e.to)}

EventsFor(p) == {e \in Signals : e.to = p}

StoreOK == row \in [Ids -> Shown \cup {"absent", "deleted"}]

\* A listener has a fact in hand exactly while it is not idle.
ListenersOK ==
    /\ channel \in [Instances -> {"starting", "listening", "broken"}]
    /\ feed \in [Instances -> Seq(Signals)]
    /\ stage \in [Instances -> {"idle", "reading", "delivering"}]
    /\ hand \in [Instances -> Signals \cup {NoFact}]
    /\ \A i \in Instances : stage[i] = "idle" <=> hand[i] = NoFact

RingsOK ==
    /\ ring \in [Sessions -> Seq(Facts)]
    /\ overrun \in [Sessions -> BOOLEAN]
    /\ \A s \in Sessions : ring[s] \in Seq(EventsFor(CallerOf[s]))

ClientsOK ==
    /\ phase \in [Sessions -> {"closed", "open", "synced"}]
    /\ view \in [Sessions -> [Ids -> Shown \cup {"none"}]]
    /\ NothingForeign

EntriesOK ==
    /\ registry \in [Instances -> SUBSET Recipients]
    /\ RegistryHoldsStreams

HistoryOK ==
    /\ missed \in [Sessions -> SUBSET Causes]
    /\ faults \in Nat

\* The inductive invariant (src/realtime.rs, src/graphql.rs 203-264): nothing
\* crosses from one recipient to another, at any point of the way, and every
\* stream has the registry entry it is fed through.
WayOK ==
    /\ StoreOK
    /\ ListenersOK
    /\ RingsOK
    /\ ClientsOK
    /\ EntriesOK
    /\ HistoryOK

-----------------------------------------------------------------------------
(* What is on its way to a session s: the events in its ring, the fact in   *)
(* the listener's hands and the signals its instance has still to handle,   *)
(* in this order.                                                           *)

Queued(s) == Range(feed[HostOf[s]])

Held(s) == {hand[HostOf[s]]} \ {NoFact}

Way(s) == Range(ring[s]) \cup Held(s) \cup Queued(s)

\* The facts of one notification: it is added, then read, then deleted.
NotAfter(k, l) == k = "added" \/ l = "deleted" \/ k = l

Precede(E, F) ==
    \A e \in E, f \in F : \A x \in e.ids \cap f.ids : NotAfter(e.kind, f.kind)

InOrder(q) ==
    \A m, n \in DOMAIN q : m < n =>
        \A x \in q[m].ids \cap q[n].ids : NotAfter(q[m].kind, q[n].kind)

\* A fact with this kind about this notification is among E.
Tells(E, x, kind) == \E e \in E : x \in e.ids /\ e.kind = kind

\* A stream that nobody reads holds nothing, and no ring is over its capacity.
StreamOK(s) ==
    /\ phase[s] = "closed" => ring[s] = <<>> /\ ~overrun[s]
    /\ Len(ring[s]) <= Capacity

\* The listener re-reads nothing but added facts, of one notification each.
SingleOK(s) ==
    /\ \A e \in Held(s) : e.kind = "added"
    /\ \A e \in Held(s) \cup Queued(s) : e.kind = "added" => \E x \in Ids : e.ids = {x}

OrderOK(s) ==
    /\ InOrder(feed[HostOf[s]])
    /\ Precede(Held(s), Queued(s))
    /\ ~overrun[s] => /\ InOrder(ring[s])
                      /\ Precede(Range(ring[s]), Held(s) \cup Queued(s))

\* Nothing is on its way before it has happened.
Happened(e) ==
    \A x \in e.ids :
        /\ row[x] # "absent"
        /\ e.kind = "read" => row[x] # "unread"
        /\ e.kind = "deleted" => row[x] = "deleted"

\* An added fact with a row: what the row was when the listener re-read it.
Pictured(e) ==
    /\ e.row \in Shown
    /\ e.row = "read" => \A x \in e.ids : row[x] # "unread"

PastOK(s) ==
    /\ \A e \in Held(s) \cup Queued(s) : Happened(e)
    /\ stage[HostOf[s]] = "delivering" => \A e \in Held(s) : Pictured(e)
    /\ ~overrun[s] =>
         \A e \in Range(ring[s]) : Happened(e) /\ (e.kind = "added" => Pictured(e))

\* A picture whose row has changed since is followed by the fact of the change.
Amended(e, later) ==
    \A x \in e.ids :
        /\ row[x] = "deleted" => Tells(later, x, "deleted")
        /\ row[x] = "read" /\ e.row = "unread" => Tells(later, x, "read")

PicturesOK(s) ==
    missed[s] = {} =>
        /\ stage[HostOf[s]] = "delivering" /\ s \in Engaged(HostOf[s]) =>
             Amended(hand[HostOf[s]], Queued(s))
        /\ ~overrun[s] =>
             \A e \in Range(ring[s]) :
                 e.kind = "added" => Amended(e, Range(ring[s]) \cup Queued(s))

\* A fact among W corrects what a view shows for a notification: r is its row,
\* v is what is shown.
Corrects(W, x, r, v) ==
    /\ r = "absent" => v = "none"
    /\ r = "unread" => v # "read"
    /\ r \in Shown /\ v = "none" => Tells(W, x, "added")
    /\ r = "read" /\ v = "unread" => Tells(W, x, "read")
    /\ r = "deleted" /\ v # "none" => Tells(W, x, "deleted")

\* Whatever the view shows wrongly, a fact is on its way that corrects it.
ViewOK(s) ==
    phase[s] = "synced" /\ missed[s] = {} /\ ~overrun[s] =>
        \A x \in IdsOf(CallerOf[s]) : Corrects(Way(s), x, row[x], view[s][x])

Course(s) ==
    /\ StreamOK(s)
    /\ SingleOK(s)
    /\ OrderOK(s)
    /\ PastOK(s)
    /\ PicturesOK(s)
    /\ ViewOK(s)

\* The inductive invariant behind Converged (src/realtime.rs 61-112,
\* src/graphql.rs 203-243, src/notification.rs 145-162): unless a signal or an
\* event was lost, an entry of a view that differs from the row has the fact of
\* the difference behind it, and no late picture of a row can undo it.
CourseOK ==
    /\ WayOK
    /\ \A s \in Sessions : Course(s)

=============================================================================
