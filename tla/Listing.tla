------------------------------- MODULE Listing -------------------------------
(***************************************************************************)
(* notifierNotifications: a client of one recipient walks its              *)
(* notifications page by page, newest first, while the store changes under *)
(* it (Inbox).  A page after a cursor is read by two statements at READ    *)
(* COMMITTED: one that looks for the cursor's row, and one that selects    *)
(* the page relative to it (fn list_notifications).                        *)
(***************************************************************************)
EXTENDS Inbox, Integers, FiniteSets

CONSTANTS
    Caller,     \* the recipient who walks
    CreatedAt,  \* created_at: when the transaction that inserted it began
    Rank,       \* the order of the ids themselves
    Corrupt,    \* notifications whose stored link no longer parses
    Firsts,     \* values a client passes as first
    MaxFirst,   \* the upper end of the clamp (100 in the code)
    NoId        \* no cursor

ASSUME ListingAssumption ==
    /\ CreatedAt \in [Ids -> Nat]
    /\ Rank \in [Ids -> Nat]
    /\ \A x, y \in Ids : Rank[x] = Rank[y] => x = y
    /\ Corrupt \subseteq Ids
    /\ Firsts \subseteq Int
    /\ MaxFirst \in Nat \ {0}
    /\ NoId \notin Ids
    /\ IsFiniteSet(Ids)

VARIABLES
    walk,    \* where the client's walk stands
    cursor,  \* after: the last notification of the last page
    page,    \* the nodes of the last page
    got,     \* what the walk has shown since its first page
    stood,   \* history: what stood when its first page was read
    blind    \* history: its last page followed a cursor that was gone

client == <<walk, cursor, page, got, stood, blind>>
lvars  == <<inbox, client>>

-----------------------------------------------------------------------------

Standing == {x \in OwnedBy(Caller) : row[x] \in Shown}

\* The order of (created_at, id).
Older(x, y) ==
    \/ CreatedAt[x] < CreatedAt[y]
    \/ CreatedAt[x] = CreatedAt[y] /\ Rank[x] < Rank[y]

\* Mutant of Beyond: the cursor itself qualifies.
BeyondOrSame(x, after) == Older(x, after) \/ x = after

\* (created_at, id) < the (created_at, id) of the cursor's row, which compares
\* as NULL when the row is gone.
Beyond(x, after) == after \in Standing /\ Older(x, after)

\* ORDER BY created_at DESC, id DESC LIMIT n
Newest(S, n) == {x \in S : Cardinality({y \in S : x # y /\ ~Older(y, x)}) < n}

\* Mutant of Limit: zero is let through.
LimitFromZero(first) ==
    IF first < 0 THEN 0 ELSE IF first > MaxFirst THEN MaxFirst ELSE first

\* Mutant of Limit: nothing caps the page.
LimitUncapped(first) == IF first < 1 THEN 1 ELSE first

\* first.clamp(1, 100)
Limit(first) ==
    IF first < 1 THEN 1 ELSE IF first > MaxFirst THEN MaxFirst ELSE first

\* Mutant of Fetched: no row more than the page shows.
FetchedExactly(after, n) ==
    Newest({x \in Standing : after = NoId \/ Beyond(x, after)}, n)

\* The page statement asks for one row more than the page shows.
Fetched(after, n) ==
    Newest({x \in Standing : after = NoId \/ Beyond(x, after)}, n + 1)

TypeOK ==
    /\ row \in [Ids -> States]
    /\ walk \in {"idle", "asking", "anchored", "over", "broken"}
    /\ cursor \in Ids \cup {NoId}
    /\ page \subseteq got
    /\ Cardinality(page) <= MaxFirst
    /\ got \subseteq OwnedBy(Caller)
    /\ stood \subseteq OwnedBy(Caller)
    /\ blind \in BOOLEAN

ListingInit ==
    /\ Init
    /\ walk = "idle"
    /\ cursor = NoId
    /\ page = {}
    /\ got = {}
    /\ stood = {}
    /\ blind = FALSE

\* The client opens its list, or starts over after NOT_FOUND as README tells it.
FirstPage ==
    /\ walk' = "anchored"
    /\ cursor' = NoId
    /\ page' = {}
    /\ got' = {}
    /\ stood' = {}
    /\ blind' = FALSE
    /\ UNCHANGED inbox

Open == walk = "idle" /\ FirstPage

\* The first statement finds no row for the cursor: NOT_FOUND.
NotFound ==
    /\ walk = "asking"
    /\ cursor \notin Standing
    /\ FirstPage

FindAnchor ==
    /\ walk = "asking"
    /\ cursor \in Standing
    /\ walk' = "anchored"
    /\ UNCHANGED <<inbox, cursor, page, got, stood, blind>>

\* from_row refuses a link that no longer parses: the whole page is an error.
PageFails(first) ==
    /\ walk = "anchored"
    /\ Newest(Fetched(cursor, Limit(first)), Limit(first)) \cap Corrupt # {}
    /\ walk' = "broken"
    /\ UNCHANGED <<inbox, cursor, page, got, stood, blind>>

\* The second statement, its nodes and hasNextPage.  The first page is read by
\* this statement alone, so what stood then is noted here.
ReadPage(first) ==
    LET limit   == Limit(first)
        fetched == Fetched(cursor, limit)
        nodes   == Newest(fetched, limit)
        more    == Cardinality(fetched) > limit
    IN
    /\ walk = "anchored"
    /\ nodes \cap Corrupt = {}
    /\ page' = nodes
    /\ got' = got \cup nodes
    /\ cursor' = IF nodes = {} THEN cursor
                 ELSE CHOOSE x \in nodes : \A y \in nodes \ {x} : Older(x, y)
    /\ walk' = IF more THEN "asking" ELSE "over"
    /\ stood' = IF cursor = NoId THEN Standing ELSE stood
    /\ blind' = (cursor # NoId /\ cursor \notin Standing)
    /\ UNCHANGED inbox

Step ==
    \/ NotFound \/ FindAnchor
    \/ \E first \in Firsts : PageFails(first) \/ ReadPage(first)

ListingNext == (Next /\ UNCHANGED client) \/ Open \/ Step

\* The client asks for the next page as long as there is one.
ListingSpec == ListingInit /\ [][ListingNext]_lvars /\ WF_lvars(Step)

-----------------------------------------------------------------------------
(* Properties. *)

\* A walk that has come to its end has shown every notification that stood
\* when it began and still stands, whatever was inserted, read and deleted
\* between its pages, and whatever the client asked for as first: ties in
\* created_at and rows committed out of order included.  The one exception is
\* the walk whose cursor is deleted between the two statements of its page.
WalkMissesNothing ==
    walk = "over" /\ ~blind => stood \cap Standing \subseteq got

\* README: a cursor that no longer resolves is NOT_FOUND, not an empty page,
\* which would read as the end and hide everything past the deleted anchor.
NoFalseEnd == walk = "over" => stood \cap Standing \subseteq got

\* Every page is older than everything the walk has shown before: nothing is
\* shown twice or out of order (created_at and id never change, and the cursor
\* is compared by both).
PagesDescend ==
    [][walk = "anchored" /\ walk' \in {"asking", "over"} =>
         \A x \in page', y \in got : Older(x, y)]_lvars

\* A walk comes to its end, or to a page that cannot be read: no value of
\* first, no deletion and no tie makes it go round for ever.
WalkEnds == walk = "asking" ~> walk \in {"over", "broken"}

=============================================================================
