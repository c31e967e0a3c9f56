------------------------------- MODULE LogsPage --------------------------------
(***************************************************************************)
(* The request log of the console: src/web/src/pages/logs/Logs.tsx over    *)
(* queryLogs, getLogById and deleteLogsBefore of src/src/db/logs.ts and    *)
(* their routes in src/src/admin/router.ts.                                *)
(*                                                                         *)
(* The table grows at one end while the page leafs through it by offset,   *)
(* and is cut at the other, by this page or by another.  A filter is the   *)
(* kinds of rows it lets through.  Rows are numbered in the order of their *)
(* times; ids are never used again (AUTOINCREMENT).                        *)
(***************************************************************************)
EXTENDS Integers, Sequences, FiniteSets, SequencesExt, Ranks

CONSTANTS
  LogKinds,       \* what the filters tell apart: provider, model, status
  Filters,     \* the filters the user chooses
  Journals,    \* the tables the page may find, oldest row first
  Linked,      \* the row ?highlight names, or 0
  Opened,      \* bound: the rows the user opens
  PageLen,     \* PAGE_SIZE
  MaxJournal,  \* bound: rows ever written
  MaxLoads,    \* bound: lists asked for
  MaxCuts      \* bound: deletions, and requests that fail

ASSUME LogsPageAssumption ==
  /\ Filters \subseteq SUBSET LogKinds /\ LogKinds \in Filters /\ Journals \subseteq Seq(LogKinds)
  /\ PageLen \in Nat \ {0} /\ MaxJournal \in Nat /\ MaxLoads \in Nat /\ MaxCuts \in Nat

VARIABLES
  journal,   \* chat_logs: the kind of each row ever written, by id
  cut,       \* the rows up to this one are deleted
  lists,     \* lists on their way: filter and page, then the ids read and all that matched
  bodies,    \* details on their way: the id, and "sent", "read" or "missing"
  table,     \* the page: filter, page number, rows shown, error, spinner
  kept,      \* details: the ids whose bodies the page keeps
  expanded,  \* expandedRowKeys
  linkUsed,  \* initialHighlightApplied
  clearing,  \* the dialog that deletes: "closed", "open", "sent", "removed" or "listing"
  seen,      \* history: rows shown since the first page was
  first,     \* history: the rows that matched when it was read
  overtaken,   \* history: since then a list failed or overlapped another
  listed, cuts  \* counters of the bounds

tableVars == <<table, kept, expanded, linkUsed, seen, first, overtaken>>
logsPageVars == <<journal, cut, lists, bodies, tableVars, clearing, listed, cuts>>

Standing == cut + 1 .. Len(journal)
Matching(filter) == {i \in Standing : journal[i] \in filter}
Newest(filter) == Reverse(InOrder(Matching(filter)))

\* Seeded fault: oldest first.
QueryLogs_OldestFirst(filter, page) ==
  LET rows == Reverse(Newest(filter))
  IN SubSeq(rows, page * PageLen + 1, IF (page + 1) * PageLen < Len(rows) THEN (page + 1) * PageLen ELSE Len(rows))

\* queryLogs: newest first, by offset.
QueryLogs(filter, page) ==
  LET rows == Newest(filter)
  IN SubSeq(rows, page * PageLen + 1, IF (page + 1) * PageLen < Len(rows) THEN (page + 1) * PageLen ELSE Len(rows))

Unread == [filter |-> LogKinds, page |-> 0, at |-> "sent", rows |-> <<>>, matched |-> {}, alone |-> TRUE]

\* load() of the page as it is: another one on its way may answer later.
AskList(filter, page) ==
  /\ listed < MaxLoads /\ listed' = listed + 1
  /\ lists' = Append([n \in DOMAIN lists |-> [lists[n] EXCEPT !.alone = FALSE]],
                     [Unread EXCEPT !.filter = filter, !.page = page, !.alone = (lists = <<>>)])
  /\ table' = [table EXCEPT !.filter = filter, !.page = page, !.error = FALSE, !.loading = TRUE]
  /\ overtaken' = (overtaken \/ lists # <<>>)

LogsPageInit ==
  /\ journal \in Journals /\ cut = 0
  /\ lists = <<Unread>>
  /\ table = [filter |-> LogKinds, page |-> 0, rows |-> <<>>, error |-> FALSE, loading |-> TRUE]
  /\ bodies = {} /\ kept = {} /\ expanded = {} /\ linkUsed = FALSE /\ clearing = "closed"
  /\ seen = {} /\ first = {} /\ overtaken = FALSE /\ listed = 1 /\ cuts = 0

--------------------------------------------------------------------------------
(* The server *)

\* insertLog, at the end of a request.
RowWritten(kind) ==
  /\ Len(journal) < MaxJournal /\ journal' = Append(journal, kind)
  /\ UNCHANGED <<cut, lists, bodies, tableVars, clearing, listed, cuts>>

\* GET logs
ListServed(n) ==
  /\ lists[n].at = "sent"
  /\ lists' = [lists EXCEPT ![n].at = "read", ![n].rows = QueryLogs(lists[n].filter, lists[n].page),
                            ![n].matched = Matching(lists[n].filter)]
  /\ UNCHANGED <<journal, cut, bodies, tableVars, clearing, listed, cuts>>

\* GET logs/:id: 404 when the row is gone.
BodyServed(b) ==
  /\ b.at = "sent"
  /\ bodies' = (bodies \ {b}) \cup {[b EXCEPT !.at = IF b.id \in Standing THEN "read" ELSE "missing"]}
  /\ UNCHANGED <<journal, cut, lists, tableVars, clearing, listed, cuts>>

\* deleteLogsBefore, for this page's dialog or elsewhere.
Deleted(upTo) ==
  /\ upTo \in Standing /\ cuts < MaxCuts /\ cuts' = cuts + 1 /\ cut' = upTo
  /\ \/ clearing = "sent" /\ clearing' = "removed"
     \/ UNCHANGED clearing
  /\ UNCHANGED <<journal, lists, bodies, tableVars, listed>>

--------------------------------------------------------------------------------
(* The page *)

\* Behind the open dialog nothing can be clicked.
Usable == clearing = "closed"

\* A filter is chosen, and with it the first page.
Choose(filter) ==
  /\ Usable /\ filter # table.filter /\ AskList(filter, 0)
  /\ UNCHANGED <<journal, cut, bodies, kept, expanded, linkUsed, clearing, seen, first, cuts>>

\* The total is not known: the pager is given one page more when this one is
\* full, and never stands behind its last page.
Total == table.page * PageLen + Len(table.rows) + IF Len(table.rows) = PageLen THEN PageLen ELSE 0
PagerPages == 0 .. (Total + PageLen - 1) \div PageLen - 1
PagerAt == IF table.page \in PagerPages THEN table.page ELSE (Total + PageLen - 1) \div PageLen - 1

\* The pager does not answer a click on the page it stands at.
TurnTo(page) ==
  /\ Usable /\ page \in PagerPages \ {PagerAt}
  /\ page # table.page /\ AskList(table.filter, page)
  /\ UNCHANGED <<journal, cut, bodies, kept, expanded, linkUsed, clearing, seen, first, cuts>>

ClickRefresh ==
  /\ Usable /\ AskList(table.filter, table.page)
  /\ UNCHANGED <<journal, cut, bodies, kept, expanded, linkUsed, clearing, seen, first, cuts>>

InFlight(id) == \E b \in bodies : b.id = id
BodyAsked(id) == IF id \in kept \/ InFlight(id) THEN bodies ELSE bodies \cup {[id |-> id, at |-> "sent"]}

\* A row is opened or closed; its bodies are loaded once.
Expand(id) ==
  /\ Usable /\ id \in ToSet(table.rows)
  /\ IF id \in expanded THEN expanded' = expanded \ {id} /\ UNCHANGED bodies
     ELSE expanded' = expanded \cup {id} /\ bodies' = BodyAsked(id)
  /\ UNCHANGED <<journal, cut, lists, table, kept, linkUsed, clearing, seen, first, overtaken, listed, cuts>>

\* The list of the dialog is the last thing it waits for.
ListEnds(n) ==
  /\ lists' = RemoveAt(lists, n)
  /\ clearing' = IF clearing = "listing" /\ n = Len(lists) THEN "closed" ELSE clearing

\* A list arrives and is shown, whatever was asked for since; the first one
\* that holds the linked row opens it.
ListHeard(n) ==
  /\ lists[n].at = "read" /\ ListEnds(n)
  /\ table' = [table EXCEPT !.rows = lists[n].rows, !.loading = FALSE]
  /\ IF ~linkUsed /\ Linked \in ToSet(lists[n].rows)
     THEN linkUsed' = TRUE /\ expanded' = {Linked} /\ bodies' = BodyAsked(Linked)
     ELSE UNCHANGED <<linkUsed, expanded, bodies>>
  /\ IF lists[n].page = 0 /\ lists[n].alone
     THEN seen' = ToSet(lists[n].rows) /\ first' = lists[n].matched /\ overtaken' = FALSE
     ELSE seen' = seen \cup ToSet(lists[n].rows) /\ UNCHANGED <<first, overtaken>>
  /\ UNCHANGED <<journal, cut, kept, listed, cuts>>

\* It fails: what was shown stays.
ListFailed(n) ==
  /\ cuts < MaxCuts /\ cuts' = cuts + 1 /\ ListEnds(n)
  /\ table' = [table EXCEPT !.error = TRUE, !.loading = FALSE]
  /\ overtaken' = TRUE
  /\ UNCHANGED <<journal, cut, bodies, kept, expanded, linkUsed, seen, first, listed>>

BodyHeard(b) ==
  /\ b.at # "sent" /\ bodies' = bodies \ {b}
  /\ IF b.at = "read" THEN kept' = kept \cup {b.id} /\ UNCHANGED table
     ELSE table' = [table EXCEPT !.error = TRUE] /\ UNCHANGED kept
  /\ UNCHANGED <<journal, cut, lists, expanded, linkUsed, clearing, seen, first, overtaken, listed, cuts>>

OpenClearOld ==
  /\ clearing \in {"closed", "open"} /\ clearing' = (IF clearing = "open" THEN "closed" ELSE "open")
  /\ UNCHANGED <<journal, cut, lists, bodies, tableVars, listed, cuts>>

\* OK is sent; nothing may be that old, and it may fail.
ConfirmClear ==
  /\ clearing = "open" /\ clearing' \in {"sent", "removed", "closed"}
  /\ table' = [table EXCEPT !.error = @ \/ clearing' = "closed"]
  /\ UNCHANGED <<journal, cut, lists, bodies, kept, expanded, linkUsed, seen, first, overtaken, listed, cuts>>

\* Then the page is loaded again, still under the dialog.
ClearHeard ==
  /\ clearing = "removed" /\ AskList(table.filter, table.page) /\ clearing' = "listing"
  /\ UNCHANGED <<journal, cut, bodies, kept, expanded, linkUsed, seen, first, cuts>>

--------------------------------------------------------------------------------
LogsPageNext ==
  \/ \E kind \in LogKinds : RowWritten(kind)
  \/ \E n \in DOMAIN lists : ListServed(n) \/ ListHeard(n) \/ ListFailed(n)
  \/ \E b \in bodies : BodyServed(b) \/ BodyHeard(b)
  \/ \E upTo \in Standing : Deleted(upTo)
  \/ \E filter \in Filters : Choose(filter)
  \/ \E page \in 0 .. MaxLoads : TurnTo(page)
  \/ \E id \in Opened : Expand(id)
  \/ ClickRefresh \/ OpenClearOld \/ ConfirmClear \/ ClearHeard

LogsPageSpec == LogsPageInit /\ [][LogsPageNext]_logsPageVars

--------------------------------------------------------------------------------
Settled == lists = <<>> /\ ~table.error /\ ~overtaken

\* What is shown is what was chosen, and the spinner turns while it is awaited,
\* as long as no list overtook another.
ShownIsChosen ==
  /\ Settled => \A i \in ToSet(table.rows) : journal[i] \in table.filter
  /\ ~overtaken => (table.loading <=> lists # <<>>)

\* Who leafs from the first page to one that is not full has been shown every
\* row that was there at the start and still is, though rows are written
\* and deleted meanwhile and pages are cut by offset.
NothingSkipped ==
  Settled /\ Len(table.rows) < PageLen => first \cap Standing \subseteq seen

\* The log is shown as it is (Logs.tsx:103-129, logs.ts:134-171).
LogIsWhole == ShownIsChosen /\ NothingSkipped
================================================================================
