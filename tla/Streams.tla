------------------------------- MODULE Streams ------------------------------
(***************************************************************************)
(* Realtime with a record of what each stream has told its client.  Two    *)
(* history variables are kept beside the variables of Realtime; they are   *)
(* computed from what a step does to a ring, never from which action it    *)
(* is, and no action reads them: Streams allows Realtime's behaviours and  *)
(* no others.  What they are for are the two promises a stream makes about *)
(* the sequence of its events (src/graphql.rs 208-243, src/realtime.rs     *)
(* 51-112), whatever the client makes of it.                               *)
(***************************************************************************)
EXTENDS RealtimeInv

VARIABLES
    told,   \* history: what the stream last handed out about a notification
    gap     \* history: its ring overwrote an event it had not handed out

trail      == <<told, gap>>
streamVars == <<vars, trail>>

Tidings == {"nothing", "added", "read", "deleted"}

Untold == [x \in Ids |-> "nothing"]

TrailInit ==
    /\ told = [s \in Sessions |-> Untold]
    /\ gap = [s \in Sessions |-> FALSE]

\* The stream hands the first event of its ring to the client.
Yields(s) == phase'[s] # "closed" /\ Len(ring'[s]) < Len(ring[s])

\* The broadcast channel drops the oldest event for a new one.
Overwrites(s) ==
    /\ phase'[s] # "closed"
    /\ Len(ring'[s]) = Len(ring[s]) /\ ring'[s] # ring[s]

\* A stream that is over is forgotten: the next one starts afresh.
Record ==
    /\ told' = [s \in Sessions |->
                  IF phase'[s] = "closed" THEN Untold
                  ELSE IF Yields(s)
                    THEN [x \in Ids |-> IF x \in Head(ring[s]).ids
                                          THEN Head(ring[s]).kind ELSE told[s][x]]
                    ELSE told[s]]
    /\ gap' = [s \in Sessions |->
                 phase'[s] # "closed" /\ (gap[s] \/ Overwrites(s))]

StreamsInit == Init /\ TrailInit

StreamsNext == Next /\ Record

StreamsSpec == StreamsInit /\ [][StreamsNext]_streamVars

TrailTypeOK ==
    /\ told \in [Sessions -> [Ids -> Tidings]]
    /\ gap \in [Sessions -> BOOLEAN]

-----------------------------------------------------------------------------
\* What may be said of a notification after this.
MayFollow(k, l) == k = "nothing" \/ NotAfter(k, l)

\* The order of the events is the order of what happened: a stream never tells
\* that a notification was added once it has told that it was read or deleted,
\* nor that it was read once it has told that it was deleted, although an added
\* event waits for a re-read of the row and the others do not (fn dispatch is
\* awaited inside fn listen_loop, src/realtime.rs 73-112).
ToldInOrder ==
    [][\A s \in Sessions :
         Yields(s) => \A x \in Head(ring[s]).ids :
                        MayFollow(told[s][x], Head(ring[s]).kind)]_streamVars

\* Once its ring has overwritten an event it had not handed out, a stream hands
\* out nothing more: what a client was told is the beginning of what its stream
\* was sent, without a hole (fn until_first_lag, src/graphql.rs 221-237).
NothingPastGap ==
    [][\A s \in Sessions : gap[s] => ~Yields(s)]_streamVars

-----------------------------------------------------------------------------
(* The invariant the two rest on.  RealtimeConverges proves it. *)

\* What has been told has happened.
HappenedSo(s, x) ==
    /\ told[s][x] = "added" => row[x] # "absent"
    /\ told[s][x] = "read" => row[x] \notin {"absent", "unread"}
    /\ told[s][x] = "deleted" => row[x] = "deleted"

\* What is on its way to the stream may follow what it has told.
Continues(s) ==
    \A e \in Way(s) : \A x \in e.ids : MayFollow(told[s][x], e.kind)

Trail(s) ==
    /\ phase[s] = "closed" => told[s] = Untold /\ ~gap[s]
    /\ gap[s] => overrun[s]
    /\ \A x \in Ids : HappenedSo(s, x)
    /\ ~overrun[s] => Continues(s)

\* The inductive invariant, beside CourseOK: a gap is marked on the receiver,
\* and unless there is one the way to the stream continues what it has told
\* (src/realtime.rs 51-112, src/graphql.rs 221-243).
TrailOK == TrailTypeOK /\ \A s \in Sessions : Trail(s)
=============================================================================
