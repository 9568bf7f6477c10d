----------------------------- MODULE AuditFeed -----------------------------
(* The audit log as its readers see it: transactions that insert rows       *)
(* (db/repositories/audit_log.py), the dashboard page and its event stream  *)
(* (web/router.py dashboard, web/sse.py, templates/dashboard.html), and the *)
(* administrators' paged query and CSV export, which leave rows of their    *)
(* own (api/v1/admin/audit.py).                                             *)
(*                                                                          *)
(* A row takes its timestamp from the application's clock, its id from a    *)
(* sequence when it is inserted, and becomes visible when its transaction   *)
(* commits: three orders that need not agree.  Every query reads its own    *)
(* snapshot (READ COMMITTED) and pages are counted from the newest row.     *)
EXTENDS Naturals, FiniteSets, Sequences, SequencesExt

CONSTANTS MaxRows,     \* rows that may ever be inserted
          Tabs,        \* dashboard pages in browsers
          Auditors,    \* administrators walking the log page by page
          FeedSize,    \* rows rendered with the dashboard
          PageSize,    \* rows per page of a stream's tick
          MaxPages,    \* pages a tick walks at most
          Cap,         \* streams open at once
          AuditPage    \* rows per page of the query endpoint

ASSUME SizesAssumption ==
    {MaxRows, FeedSize, PageSize, MaxPages, Cap, AuditPage} \subseteq Nat \ {0}
ASSUME TabsAssumption == IsFiniteSet(Tabs)

(* Rows are numbered in the order in which they take their timestamps.      *)
Rows == 1..MaxRows
NoRow == 0

VARIABLES row,     \* row[r]: its transaction's progress, timestamp and id
          saved,   \* the committed rows, in the order of their commits
          clock,   \* the application's clock (it may stand still between two rows)
          nextId,  \* the id sequence of audit_log
          active,  \* _sse_active_connections
          others,  \* streams of dashboards that are not followed here
          lost,    \* slots reserved for a response whose body never started
          tab,     \* one dashboard page and its stream
          walk     \* one administrator's walk through the pages
slots == <<active, others, lost>>
vars == <<row, saved, clock, nextId, slots, tab, walk>>

Saved == ToSet(saved)
Ids == 0..MaxRows

NoTab == [st |-> "blank", base |-> 0, table |-> <<>>, seen |-> {},
          mark |-> 0, page |-> 1, batch |-> <<>>, from |-> {}, cut |-> FALSE]
NoWalk == [st |-> "idle", page |-> 1, got |-> {}, due |-> {},
           row |-> NoRow, read |-> {}, more |-> FALSE]

(* Who takes part: the rows that will be written, the dashboards that will  *)
(* be opened, the administrators who will read; and the slots lost before.  *)
With(n, tabs, auditors, before) ==
    /\ row = [r \in Rows |-> [st |-> IF r <= n THEN "none" ELSE "gone",
                              ts |-> 0, id |-> 0]]
    /\ saved = <<>>
    /\ clock = 1 /\ nextId = 1
    /\ active = before /\ others = 0 /\ lost = before
    /\ tab = [t \in Tabs |-> [NoTab EXCEPT !.st = IF t \in tabs THEN "blank"
                                                                ELSE "closed"]]
    /\ walk = [a \in Auditors |-> [NoWalk EXCEPT !.st = IF a \in auditors THEN "idle"
                                                                     ELSE "away"]]

Init == \E n \in Rows, tabs \in SUBSET Tabs, auditors \in SUBSET Auditors, l \in 0..Cap :
          With(n, tabs, auditors, l)

-----------------------------------------------------------------------------
(* AuditLogRepository.query: ORDER BY timestamp DESC, id DESC, one page by  *)
(* offset, and has_more from one row too many.                              *)

Newer(q, r) == \/ row[q].ts > row[r].ts
               \/ row[q].ts = row[r].ts /\ row[q].id > row[r].id

(* How many rows of S come before r, and the rows of S in the query's order.*)
Rank(S, r) == Cardinality({q \in S : Newer(q, r)})
NewestFirst(S) == [i \in 1..Cardinality(S) |-> CHOOSE r \in S : Rank(S, r) = i - 1]

Page(p, size) == {r \in Saved : /\ (p - 1) * size <= Rank(Saved, r)
                                /\ Rank(Saved, r) < p * size}

HasMore(p, size) == Cardinality(Saved) > p * size

-----------------------------------------------------------------------------
(* The transactions that write rows.                                        *)

Stamped(r) == /\ row[r].st = "none" /\ \A q \in 1..(r - 1) : row[q].st # "none"
              /\ row' = [row EXCEPT ![r].st = "begun", ![r].ts = clock]
              /\ clock' \in {clock, clock + 1}

Begin(r) == /\ Stamped(r)
            /\ UNCHANGED <<saved, nextId, slots, tab, walk>>

Insert(r) == /\ row[r].st = "begun"
             /\ row' = [row EXCEPT ![r].st = "inserted", ![r].id = nextId]
             /\ nextId' = nextId + 1
             /\ UNCHANGED <<saved, clock, slots, tab, walk>>

Commit(r) == /\ row[r].st = "inserted"
             /\ row' = [row EXCEPT ![r].st = "saved"]
             /\ saved' = Append(saved, r)
             /\ UNCHANGED <<clock, nextId, slots, tab, walk>>

(* The insert or the commit fails: the id is spent all the same.            *)
Rollback(r) == /\ row[r].st = "inserted"
               /\ row' = [row EXCEPT ![r].st = "gone"]
               /\ UNCHANGED <<saved, clock, nextId, slots, tab, walk>>

-----------------------------------------------------------------------------
(* The dashboard page and its stream.                                       *)

Streaming == {"reading", "emitting"}
Asleep(t) == tab[t].st = "emitting" /\ tab[t].batch = <<>>
Holding == {t \in Tabs : tab[t].st \in Streaming \cup {"reserved"}}

ReaderOnly == UNCHANGED <<row, saved, clock, nextId, walk>>

(* GET /web/: the newest rows, and the highest of their ids as the last_id  *)
(* of the page's stream.                                                    *)
Render(t) ==
    /\ t \notin Holding /\ tab[t].st # "closed"
    /\ LET shown == Page(1, FeedSize)
           ids == {row[r].id : r \in shown} \cup {0}
       IN  tab' = [tab EXCEPT ![t] = [NoTab EXCEPT
                     !.st = "page", !.table = Reverse(NewestFirst(shown)),
                     !.base = CHOOSE i \in ids : \A j \in ids : j <= i]]
    /\ ReaderOnly /\ UNCHANGED slots

\* Mutant of Connect: the stream is returned before the cap is looked at.
ConnectUncapped(t) ==
    /\ tab[t].st \in {"page", "dropped"}
    /\ tab' = [tab EXCEPT ![t].st = "reserved"]
    /\ active' = active + 1
    /\ ReaderOnly /\ UNCHANGED <<others, lost>>

(* GET /web/dashboard/stream: the cap, then the slot.  A refused EventSource*)
(* does not try again.                                                      *)
Connect(t) ==
    /\ tab[t].st \in {"page", "dropped"}
    /\ IF active >= Cap
       THEN /\ tab' = [tab EXCEPT ![t] = [NoTab EXCEPT !.st = "refused"]]
            /\ UNCHANGED active
       ELSE /\ tab' = [tab EXCEPT ![t].st = "reserved"]
            /\ active' = active + 1
    /\ ReaderOnly /\ UNCHANGED <<others, lost>>

(* The same for a dashboard that is not followed.                           *)
OtherConnects ==
    /\ active < Cap
    /\ active' = active + 1 /\ others' = others + 1
    /\ ReaderOnly /\ UNCHANGED <<lost, tab>>

OtherDisconnects ==
    /\ others > 0
    /\ active' = active - 1 /\ others' = others - 1
    /\ ReaderOnly /\ UNCHANGED <<lost, tab>>

(* A tick starts at page 1 with the watermark of the last one.              *)
Ticked(t, mark) == [tab[t] EXCEPT !.st = "reading", !.mark = mark, !.page = 1,
                                  !.batch = <<>>, !.from = Saved]

(* The response's body is iterated for the first time: watermark = last_id, *)
(* also when the browser connects again with the same URL.                  *)
StartBody(t) ==
    /\ tab[t].st = "reserved"
    /\ tab' = [tab EXCEPT ![t] = [Ticked(t, tab[t].base) EXCEPT !.cut = FALSE]]
    /\ ReaderOnly /\ UNCHANGED slots

(* The client is gone before the body is iterated: StreamingResponse cancels*)
(* the task that would have started the generator, and a generator that was *)
(* never started has no finally to run.                                     *)
NeverStarted(t) ==
    /\ tab[t].st = "reserved"
    /\ tab' = [tab EXCEPT ![t].st = "dropped"]
    /\ lost' = lost + 1
    /\ ReaderOnly /\ UNCHANGED <<active, others>>

\* Mutant of Wake: a stream whose tick failed is left open and asks no more.
WakeUnlessFailed(t) ==
    /\ Asleep(t) /\ tab[t].from # {}
    /\ tab' = [tab EXCEPT ![t] = Ticked(t, tab[t].mark)]
    /\ ReaderOnly /\ UNCHANGED slots

Wake(t) ==
    /\ Asleep(t)
    /\ tab' = [tab EXCEPT ![t] = Ticked(t, tab[t].mark)]
    /\ ReaderOnly /\ UNCHANGED slots

\* Mutant of ReadPage: one page per tick, however many rows are new.
ReadFirstPage(t) ==
    /\ tab[t].st = "reading"
    /\ tab' = [tab EXCEPT
         ![t].batch = NewestFirst({r \in Page(1, PageSize) : row[r].id > tab[t].mark}),
         ![t].st = "emitting"]
    /\ ReaderOnly /\ UNCHANGED slots

(* _collect_new_audit_rows, one page: the rows above the watermark; the walk*)
(* ends at a page with a row at or below it, at the last page or at the cap.*)
ReadPage(t) ==
    /\ tab[t].st = "reading"
    /\ LET p == tab[t].page
           found == Page(p, PageSize)
           fresh == {r \in found : row[r].id > tab[t].mark}
           covered == fresh # found \/ ~HasMore(p, PageSize)
           over == covered \/ p = MaxPages
       IN  tab' = [tab EXCEPT ![t].batch = @ \o NewestFirst(fresh),
                              ![t].page = IF over THEN 1 ELSE p + 1,
                              ![t].cut = @ \/ (~covered /\ p = MaxPages),
                              ![t].st = IF over THEN "emitting" ELSE "reading"]
    /\ ReaderOnly /\ UNCHANGED slots

(* The tick raised: its rows are dropped, the watermark is kept.            *)
TickFails(t) ==
    /\ tab[t].st = "reading"
    /\ tab' = [tab EXCEPT ![t].st = "emitting", ![t].batch = <<>>, ![t].page = 1,
                          ![t].from = {}]
    /\ ReaderOnly /\ UNCHANGED slots

\* Mutant of Emit: the page prepends every row it is sent.
EmitUnseen(t) ==
    /\ tab[t].st = "emitting" /\ tab[t].batch # <<>>
    /\ LET r == Last(tab[t].batch)
       IN  tab' = [tab EXCEPT ![t].batch = Front(@), ![t].mark = row[r].id,
                              ![t].table = Append(@, r), ![t].seen = @ \cup {r}]
    /\ ReaderOnly /\ UNCHANGED slots

(* One event, oldest first; the watermark is this row's id, whatever it was.*)
(* The page drops a row it had from a stream before.                        *)
Emit(t) ==
    /\ tab[t].st = "emitting" /\ tab[t].batch # <<>>
    /\ LET r == Last(tab[t].batch)
       IN  tab' = [tab EXCEPT
             ![t].batch = Front(@),
             ![t].mark = row[r].id,
             ![t].table = IF r \in tab[t].seen THEN @ ELSE Append(@, r),
             ![t].seen = @ \cup {r}]
    /\ ReaderOnly /\ UNCHANGED slots

\* Mutant of Disconnect: the slot of a stream that ends is kept.
DisconnectKeepingSlot(t) ==
    /\ tab[t].st \in Streaming
    /\ tab' = [tab EXCEPT ![t] = [NoTab EXCEPT !.st = "dropped", !.base = tab[t].base,
                                          !.table = tab[t].table, !.seen = tab[t].seen]]
    /\ ReaderOnly /\ UNCHANGED slots

(* The connection ends under a running stream: _counted_stream's finally.   *)
Disconnect(t) ==
    /\ tab[t].st \in Streaming
    /\ tab' = [tab EXCEPT ![t] = [NoTab EXCEPT !.st = "dropped", !.base = tab[t].base,
                                          !.table = tab[t].table, !.seen = tab[t].seen]]
    /\ active' = active - 1
    /\ ReaderOnly /\ UNCHANGED <<others, lost>>

-----------------------------------------------------------------------------
(* GET /admin/audit page by page.  (The CSV export is one page from the     *)
(* newest row; the row it leaves is one of Begin's, stamped before its      *)
(* query.)                                                                  *)

AuditorOnly == UNCHANGED <<saved, nextId, slots, tab>>

(* The query, then the timestamp of the row that records it.                *)
Ask(a, r) ==
    /\ walk[a].st = "idle"
    /\ Stamped(r)
    /\ walk' = [walk EXCEPT ![a] = [walk[a] EXCEPT
                  !.st = "asking", !.row = r,
                  !.read = Page(walk[a].page, AuditPage),
                  !.more = HasMore(walk[a].page, AuditPage),
                  !.due = IF walk[a].page = 1 THEN Saved ELSE walk[a].due]]
    /\ AuditorOnly

Asked(a, st) == /\ walk[a].st = "asking" /\ row[walk[a].row].st = st
                /\ UNCHANGED <<row, clock>> /\ AuditorOnly

(* The row committed with SUCCESS: the answer goes out, and the             *)
(* administrator turns the page until there is no more.                     *)
Answer(a) ==
    /\ Asked(a, "saved")
    /\ walk' = [walk EXCEPT ![a] =
         [walk[a] EXCEPT !.st = IF walk[a].more THEN "idle" ELSE "finished",
                         !.page = walk[a].page + 1,
                         !.got = walk[a].got \cup walk[a].read,
                         !.row = NoRow, !.read = {}, !.more = FALSE]]

\* Mutant of AnswerFails: a request that failed turns the page all the same.
AnswerFailsTurning(a) ==
    /\ Asked(a, "saved") \/ Asked(a, "gone")
    /\ walk' = [walk EXCEPT ![a].st = "idle", ![a].row = NoRow, ![a].read = {},
                            ![a].more = FALSE, ![a].page = @ + 1]

(* A 500, and the page is asked for again: the insert or the commit failed, *)
(* or reading the rows raised and the row that committed says FAILURE.      *)
(* (When the SELECT itself fails, PostgreSQL has aborted the transaction the*)
(* FAILURE row was to go into: the request leaves nothing behind.)          *)
AnswerFails(a) ==
    /\ Asked(a, "saved") \/ Asked(a, "gone")
    /\ walk' = [walk EXCEPT ![a].st = "idle", ![a].row = NoRow, ![a].read = {},
                            ![a].more = FALSE]

Next == \/ \E r \in Rows : Begin(r) \/ Insert(r) \/ Commit(r) \/ Rollback(r)
        \/ \E t \in Tabs : \/ Render(t) \/ Connect(t) \/ StartBody(t)
                           \/ NeverStarted(t) \/ Wake(t) \/ ReadPage(t)
                           \/ TickFails(t) \/ Emit(t) \/ Disconnect(t)
        \/ OtherConnects \/ OtherDisconnects
        \/ \E a \in Auditors :
             \/ \E r \in Rows : Ask(a, r)
             \/ Answer(a)
             \/ AnswerFails(a)

Spec == Init /\ [][Next]_vars

(* The event loop runs a stream until its connection ends, and the database *)
(* answers again after it failed: a page that is asked for over and over is *)
(* read at last.                                                            *)
StreamRuns(t) == /\ WF_vars(StartBody(t)) /\ WF_vars(Wake(t)) /\ WF_vars(Emit(t))
                 /\ \A p \in 1..MaxPages : SF_vars(tab[t].page = p /\ ReadPage(t))
FairSpec == Spec /\ \A t \in Tabs : StreamRuns(t)

-----------------------------------------------------------------------------
(* The rows, tabs and walks have the values the code gives them.            *)
TypeOK ==
    /\ \A r \in Rows :
         /\ row[r].st \in {"none", "begun", "inserted", "saved", "gone"}
         /\ row[r].id \in Ids
         /\ r \in Saved <=> row[r].st = "saved"
    /\ {active, others, lost} \subseteq 0..Cap
    /\ \A t \in Tabs : /\ tab[t].st \in Streaming \cup {"blank", "closed", "page", "reserved",
                                                        "refused", "dropped"}
                       /\ tab[t].mark \in Ids /\ tab[t].base \in Ids
                       /\ ToSet(tab[t].batch) \cup tab[t].seen \subseteq Saved
    /\ \A a \in Auditors : /\ walk[a].st \in {"idle", "asking", "finished", "away"}
                           /\ walk[a].row \in Rows \cup {NoRow}

(* The count of open streams is exact but for the slots of bodies that never*)
(* started, and never above the cap: no interleaving of checks,             *)
(* reservations and releases (sse.py) opens one stream too many or frees a  *)
(* slot twice.                                                              *)
SlotsAccounted == active = Cardinality(Holding) + others + lost

(* No row is listed twice on a page: rows re-sent after the watermark fell, *)
(* after pages shifted under a tick, or after a reconnection are rows the   *)
(* stream sent before, never rows that were rendered with the page.         *)
NoRowListedTwice == \A t \in Tabs : IsInjective(tab[t].table)

(* r is out of order: the log sorts it and another row against their ids,   *)
(* or a row with a higher id committed before it.                           *)
OutOfOrder(r) ==
    \E q \in Saved \ {r} :
        \/ ~(Newer(q, r) <=> row[q].id > row[r].id)
        \/ /\ row[q].id > row[r].id
           /\ \E i, j \in 1..Len(saved) : i < j /\ saved[i] = q /\ saved[j] = r

(* When a tick ends, every row that was committed when it began is on the   *)
(* page: rendered, sent by this tick or an earlier one, or (the only        *)
(* excuses) older than the page, out of order, or beyond the page cap of    *)
(* some tick of this connection (sse.py 101-178).                           *)
Excused(t, r) == OutOfOrder(r) \/ row[r].id <= tab[t].base \/ tab[t].cut
TickCoversLog ==
    \A t \in Tabs : Asleep(t) =>
        \A r \in tab[t].from : r \in ToSet(tab[t].table) \/ Excused(t, r)

(* An administrator turning the pages does not pass a row that was in the   *)
(* log when the first page was read: each is on a page answered before or   *)
(* still ahead, although rows (the administrator's own audit rows among     *)
(* them) shift the pages between two requests and some requests fail.  At   *)
(* the page without has_more nothing is ahead, so all have been seen.       *)
Passed(a) == {r \in Saved : Rank(Saved, r) < (walk[a].page - 1) * AuditPage}
WalkMissesNothing ==
    \A a \in Auditors : walk[a].due \cap Passed(a) \subseteq walk[a].got

(* A committed row that is not out of order appears on every page whose     *)
(* stream stays connected, unless a burst went over the page cap; database  *)
(* errors only delay it.                                                         *)
Due(t, r) == r \in Saved /\ tab[t].st \in Streaming
RowsArrive ==
    \A t \in Tabs, r \in Rows :
        Due(t, r) ~> \/ r \in ToSet(tab[t].table)
                     \/ Excused(t, r)
                     \/ tab[t].st \notin Streaming
=============================================================================
