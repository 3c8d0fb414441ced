------------------------------ MODULE AuditPages ------------------------------
(***************************************************************************)
(* Reading the audit log by pages while entries are added to it.  A reader *)
(* asks for page after page as long as the answer says hasNext.  The rows  *)
(* and the count of a page are two statements, which queryAuditLogs runs   *)
(* at the same time and findPaginated one after the other.                 *)
(***************************************************************************)
EXTENDS Integers, FiniteSetsExt, SequencesExt

CONSTANTS
    MaxLimit,           \* MAX_LIMIT of a page
    AskedLimits,        \* limits that readers ask for
    MaxEntries          \* bound on the length of the log

ASSUME PagesAssumption ==
    MaxLimit \in Nat \ {0} /\ MaxEntries \in Nat /\ AskedLimits \subseteq Int

VARIABLES
    trail,          \* the table, in the order of the inserts: createdAt of each row
    reader,         \* the page a reader waits for, and what it has seen
    overtaken       \* history: an insert fell between count and rows of this page

pageVars == <<trail, reader, overtaken>>

Entries == DOMAIN trail
Unasked == -1

PagesInit ==
    /\ trail = <<>>
    /\ reader = [at |-> "idle"]
    /\ overtaken = FALSE

-----------------------------------------------------------------------------
(* PaginationHelper                                                        *)

\* validateParams; a page below 1 is page 1.
ValidLimit(limit) == Max({1, Min({limit, MaxLimit})})

\* Slip: pages counted from 0.
CalculateOffset_FromZero(page, limit) == page * limit

CalculateOffset(page, limit) == (page - 1) * limit

\* buildMeta
HasNext(page, limit, total) == page < (total + limit - 1) \div limit

-----------------------------------------------------------------------------
(* The table                                                               *)

\* In the order asked for, the rows in A may come before the others; createdAt
\* does not say how rows of one instant are ordered.
MayPrecede(A, others, order) ==
    \A a \in A, b \in others :
        IF order = "desc" THEN trail[a] >= trail[b] ELSE trail[a] <= trail[b]

\* ORDER BY createdAt OFFSET offset LIMIT limit
IsSlice(rows, offset, limit, order) ==
    \E skipped \in kSubset(Min({offset, Cardinality(Entries)}), Entries \ rows) :
        /\ Cardinality(rows) = Min({limit, Cardinality(Entries \ skipped)})
        /\ MayPrecede(skipped, Entries \ skipped, order)
        /\ MayPrecede(rows, Entries \ (skipped \cup rows), order)

\* create: createdAt is the time the insert began, so a row may be older than
\* the last one.
AddEntry(time) ==
    /\ Len(trail) < MaxEntries
    /\ IF trail = <<>> THEN time = 1 ELSE time - Last(trail) \in -1..1
    /\ trail' = Append(trail, time)
    /\ overtaken' = (overtaken \/ (reader.at = "asked" /\ reader.total # Unasked))
    /\ UNCHANGED reader

-----------------------------------------------------------------------------
(* The reader                                                              *)

\* listAuditLogs by way of queryAuditLogs, or findPaginated.  begun is history:
\* the entries that were there before the first page was asked for.
AskFirstPage(by, order, limit) ==
    /\ reader.at = "idle"
    /\ by = "query" => order = "desc"
    /\ reader' = [at |-> "asked", by |-> by, order |-> order, limit |-> ValidLimit(limit),
                  page |-> 1, total |-> Unasked, rows |-> {}, answered |-> FALSE,
                  seen |-> {}, begun |-> Entries]
    /\ UNCHANGED <<trail, overtaken>>

CountEntries ==
    /\ reader.at = "asked" /\ reader.total = Unasked
    /\ reader' = [reader EXCEPT !.total = Len(trail)]
    /\ UNCHANGED <<trail, overtaken>>

\* findPaginated counts first.
QueryEntries(rows) ==
    /\ reader.at = "asked" /\ ~ reader.answered
    /\ reader.by = "findPaginated" => reader.total # Unasked
    /\ IsSlice(rows, CalculateOffset(reader.page, reader.limit), reader.limit, reader.order)
    /\ reader' = [reader EXCEPT !.rows = rows, !.answered = TRUE]
    /\ UNCHANGED <<trail, overtaken>>

\* buildResponse; the reader goes on to the next page if there is one.
AnswerPage ==
    /\ reader.at = "asked" /\ reader.answered /\ reader.total # Unasked
    /\ IF HasNext(reader.page, reader.limit, reader.total)
       THEN /\ reader' = [reader EXCEPT !.page = @ + 1, !.total = Unasked, !.rows = {},
                                        !.answered = FALSE, !.seen = @ \cup reader.rows]
            /\ overtaken' = FALSE
       ELSE /\ reader' = [reader EXCEPT !.at = "done", !.seen = @ \cup reader.rows]
            /\ UNCHANGED overtaken
    /\ UNCHANGED trail

PagesNext ==
    \/ \E time \in 0..MaxEntries : AddEntry(time)
    \/ \E by \in {"query", "findPaginated"}, order \in {"asc", "desc"}, limit \in AskedLimits :
         AskFirstPage(by, order, limit)
    \/ CountEntries
    \/ \E rows \in SUBSET Entries : QueryEntries(rows)
    \/ AnswerPage

PagesSpec == PagesInit /\ [][PagesNext]_pageVars

-----------------------------------------------------------------------------
(* Properties                                                              *)

Tied(e) == \E f \in Entries \ {e} : trail[f] = trail[e]

\* A reader that follows hasNext to the end has seen every entry that was there
\* when it began, however many were added meanwhile: except those of one and
\* the same instant, and unless an insert fell between the count and the rows of
\* its last page (calculateOffset, buildMeta, queryAuditLogs, findPaginated).
ReaderSeesAll ==
    reader.at = "done" /\ ~ overtaken => \A e \in reader.begun \ reader.seen : Tied(e)

\* The log only grows, so hasNext promises a page that is not empty.
NextPageHasRows ==
    reader.at = "asked" /\ reader.page > 1 /\ reader.answered => reader.rows # {}

\* A reader that follows hasNext gets to the end, and sees everything.
PagesComplete == ReaderSeesAll /\ NextPageHasRows
===============================================================================
