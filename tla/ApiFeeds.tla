------------------------------ MODULE ApiFeeds ------------------------------
(***************************************************************************)
(* The two ways a client follows what the store writes: the event stream,  *)
(* which polls for events after the last one it sent, and the collections, *)
(* which are walked page by page with a keyset cursor.  Writers commit     *)
(* between any two queries, and not in the order of the numbers or times   *)
(* their rows carry.                                                       *)
(***************************************************************************)
EXTENDS Naturals, Sequences, FiniteSets, FiniteSetsExt

CONSTANTS
    MaxEvents,    \* bound on the events
    StreamLimit,  \* events per poll
    MaxOpens,     \* bound on the connections a reader opens
    RowIds,       \* the rows of a collection
    MaxTime,      \* bound on the times a row is keyed by
    PageLimit,    \* rows per page
    MaxWrites     \* bound on the writes to the rows

(* normalizeResourcePageOptions sees to the page limit. *)
ASSUME FeedAssumption ==
    /\ MaxEvents \in Nat /\ StreamLimit \in Nat /\ MaxOpens \in Nat
    /\ MaxTime \in Nat /\ MaxTime >= 2
    /\ PageLimit \in Nat \ {0}
    /\ MaxWrites \in Nat
    /\ RowIds \in SUBSET Nat /\ IsFiniteSet(RowIds)

VARIABLES
    event,     \* per number: none, open (inserted, not committed), committed, gone
    stream,    \* the connection of the reader
    opens,
    rows,      \* the collection: [in, key] per row, key 0 when there is none
    walk,      \* the walk of a client through the collection
    writes

feedVars == <<event, stream, opens, rows, walk, writes>>

Events == 1..MaxEvents

Committed == {e \in Events : event[e] = "committed"}

(* The first n members of a set of numbers, in ascending order. *)
FirstN(set, n) ==
    {e \in set : Cardinality({x \in set : x <= e}) <= n}

LastN(set, n) ==
    {e \in set : Cardinality({x \in set : x >= e}) <= n}

Ascending(set) ==
    [i \in 1..Cardinality(set) |-> Max(FirstN(set, i))]

(* The collections: what a walk is ordered by, and whether an update of a row
   changes that.                                                           *)
Collection(column) == [column |-> column, moves |-> column = "updated_at"]

ListAuditEventCollection == Collection("created_at")
ListWorkflowCollection == Collection("updated_at")
ListRunCollection == Collection("started_at")
ListWorkerCollection == Collection("updated_at")
ListArtifactCollection == Collection("created_at")

Collections == {ListAuditEventCollection, ListWorkflowCollection, ListRunCollection,
                ListWorkerCollection, ListArtifactCollection}

NoCursor == <<0, 0>>

Closed == [open |-> FALSE, after |-> 0, first |-> 0, sent |-> <<>>, late |-> {}]

FeedTypeOK ==
    /\ event \in [Events -> {"none", "open", "committed", "gone"}]
    /\ stream.after \in 0..MaxEvents
    /\ stream.late \subseteq Events
    /\ rows \in [RowIds -> [in : BOOLEAN, key : 0..MaxTime]]
    /\ walk.phase \in {"idle", "walking", "done"}
    /\ walk.quiet \subseteq RowIds
    /\ opens \in 0..MaxOpens /\ writes \in 0..MaxWrites

FeedInit ==
    /\ event = [e \in Events |-> "none"]
    /\ stream = Closed /\ opens = 0
    /\ rows \in [RowIds -> [in : {TRUE}, key : 0..2]]
    /\ walk \in {[phase |-> "idle", of |-> c, cursor |-> NoCursor, got |-> <<>>,
                  quiet |-> {}] : c \in Collections}
    /\ writes = 0

-----------------------------------------------------------------------------
(* The event of a transaction takes the next number when it is inserted, and
   is seen when the transaction commits, if it does.                       *)
InsertEvent ==
    /\ \E e \in Events :
         /\ event[e] = "none" /\ \A x \in 1..(e - 1) : event[x] # "none"
         /\ event' = [event EXCEPT ![e] = "open"]
    /\ UNCHANGED <<stream, opens, rows, walk, writes>>

EndEvent(e) ==
    /\ event[e] = "open"
    /\ \E outcome \in {"committed", "gone"} : event' = [event EXCEPT ![e] = outcome]
    /\ UNCHANGED <<stream, opens, rows, walk, writes>>

(* writeEventStream is called without after_id, as a browser does on every
   reconnection, or with the last number the reader has.                   *)
OpenStream(after) ==
    /\ ~stream.open
    /\ opens < MaxOpens
    /\ opens' = opens + 1
    /\ stream' = [Closed EXCEPT !.open = TRUE, !.after = after, !.first = after]
    /\ UNCHANGED <<event, rows, walk, writes>>

(* ListEventStream *)
ListEventStream(after) ==
    IF after > 0 THEN FirstN({e \in Committed : e > after}, StreamLimit)
    ELSE LastN(Committed, StreamLimit)

(* Variant: the cursor moves to the newest event there is. *)
CursorAfterNewest(page) == IF page = {} THEN stream.after ELSE Max(Committed)

CursorAfter(page) == IF page = {} THEN stream.after ELSE Max(page)

(* One turn of the loop: the page is sent in ascending order and the cursor
   moves to its last event.  The events it passes that are still open are
   noted for the property.                                                 *)
Poll ==
    LET page == ListEventStream(stream.after)
        first == IF stream.first = 0 /\ page # {} THEN Min(page) ELSE stream.first
    IN  /\ stream.open
        /\ page # {}
        /\ stream' = [stream EXCEPT
                        !.after = CursorAfter(page),
                        !.first = first,
                        !.sent = @ \o Ascending(page),
                        !.late = @ \cup {e \in first..Max(page) : event[e] = "open"}]
        /\ UNCHANGED <<event, opens, rows, walk, writes>>

(* The client goes away, or a query fails. *)
CloseStream ==
    /\ stream.open
    /\ stream' = Closed
    /\ UNCHANGED <<event, opens, rows, walk, writes>>

-----------------------------------------------------------------------------
Present(r) == rows[r].in /\ rows[r].key > 0

KeyOf(r) == <<rows[r].key, r>>

Less(a, b) == a[1] < b[1] \/ (a[1] = b[1] /\ a[2] < b[2])

(* A write to a row while the walk goes on: the row appears, is updated by a
   transaction that began at time t, or no longer meets the filters.       *)
WriteRow(r, t) ==
    /\ writes < MaxWrites
    /\ writes' = writes + 1
    /\ rows' = [rows EXCEPT ![r] =
                  IF @.key = 0 THEN [in |-> TRUE, key |-> t]
                  ELSE IF walk.of.moves THEN [@ EXCEPT !.key = t]
                  ELSE @]
    /\ walk' = [walk EXCEPT !.quiet = IF rows'[r] = rows[r] THEN @ ELSE @ \ {r}]
    /\ UNCHANGED <<event, stream, opens>>

LeaveFilter(r) ==
    /\ writes < MaxWrites
    /\ Present(r)
    /\ writes' = writes + 1
    /\ rows' = [rows EXCEPT ![r].in = FALSE]
    /\ walk' = [walk EXCEPT !.quiet = @ \ {r}]
    /\ UNCHANGED <<event, stream, opens>>

BeginWalk ==
    /\ walk.phase = "idle"
    /\ walk' = [walk EXCEPT !.phase = "walking", !.quiet = {r \in RowIds : Present(r)}]
    /\ UNCHANGED <<event, stream, opens, rows, writes>>

(* Variant: the cursor holds the time and not the number. *)
addResourceCursorTime(cursor, set) ==
    IF cursor = NoCursor THEN set ELSE {r \in set : KeyOf(r)[1] < cursor[1]}

addResourceCursor(cursor, set) ==
    IF cursor = NoCursor THEN set ELSE {r \in set : Less(KeyOf(r), cursor)}

(* The first n rows of a set, later keys first. *)
Foremost(set, n) ==
    {r \in set : Cardinality({x \in set : ~Less(KeyOf(x), KeyOf(r))}) <= n}

(* The rows a page is made of: one more than the limit is asked for. *)
PageRows(cursor) ==
    Foremost(addResourceCursor(cursor, {r \in RowIds : Present(r)}), PageLimit + 1)

(* A page: the extra row is dropped and the cursor is the last row kept. *)
NextPage ==
    LET found == PageRows(walk.cursor)
        page == Foremost(found, PageLimit)
        last == CHOOSE r \in page : \A x \in page : ~Less(KeyOf(x), KeyOf(r))
    IN  /\ walk.phase = "walking"
        /\ walk' = [walk EXCEPT
                      !.got = Append(@, page),
                      !.phase = IF Cardinality(found) > PageLimit THEN @ ELSE "done",
                      !.cursor = IF Cardinality(found) > PageLimit THEN KeyOf(last) ELSE @]
        /\ UNCHANGED <<event, stream, opens, rows, writes>>

StreamNext ==
    \/ InsertEvent \/ Poll \/ CloseStream
    \/ \E e \in Events : EndEvent(e)
    \/ \E after \in {0} \cup Committed : OpenStream(after)

WalkNext ==
    \/ BeginWalk \/ NextPage
    \/ \E r \in RowIds : LeaveFilter(r) \/ \E t \in 1..MaxTime : WriteRow(r, t)

FeedSpec == FeedInit /\ [][StreamNext \/ WalkNext]_feedVars

-----------------------------------------------------------------------------
(* A connection never sends an event twice or out of order, and it skips an
   event between the first and the last it sent only if that event's
   transaction was still open when the cursor passed its number.           *)
StreamSkipsOnlyLate ==
    /\ \A i, j \in DOMAIN stream.sent : i < j => stream.sent[i] < stream.sent[j]
    /\ \A e \in Committed :
         stream.first < e /\ e <= stream.after =>
             e \in stream.late \/ \E i \in DOMAIN stream.sent : stream.sent[i] = e

(* While the connection lasts, an event committed ahead of the cursor is sent
   in the end, however the pages fall.                                     *)
StreamCatchesUp ==
    \A e \in Events :
        (stream.open /\ stream.after > 0 /\ e > stream.after /\ event[e] = "committed")
            ~> (~stream.open \/ \E i \in DOMAIN stream.sent : stream.sent[i] = e)

(* A walk that reached its last page returned every row that nobody changed
   meanwhile exactly once, whatever was inserted, updated or filtered out
   around it.                                                              *)
WalkCoversQuiet ==
    walk.phase = "done" =>
        \A r \in walk.quiet : Cardinality({i \in DOMAIN walk.got : r \in walk.got[i]}) = 1

(* What a client reads in pieces is complete: the event stream skips only what
   was late, and a walk through the pages of a list finds every row that
   stayed as it was once (writeEventStream, addResourceCursor).            *)
FeedsAreComplete == FeedTypeOK /\ StreamSkipsOnlyLate /\ WalkCoversQuiet

=============================================================================
