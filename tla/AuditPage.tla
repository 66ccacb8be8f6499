----------------------------- MODULE AuditPage ------------------------------
(***************************************************************************)
(* An admin reading the audit log while it grows: audit.List with its        *)
(* search-mode scan (audit.go) behind the paging of AdminAuditPage.tsx.      *)
(*                                                                           *)
(* A first-page query that is superseded by a newer one is forgotten at      *)
(* once: the page discards its response (querySeq) and List changes nothing. *)
(* The SQL filters (type, actor, dates) restrict every query of a walk in    *)
(* the same way; the "all" filter stands for them (the filter on             *)
(* STORE_SYNC_TYPE, which shows the hidden rows, like the box unticked).     *)
(***************************************************************************)
EXTENDS AuditLog

CONSTANTS
  Needle,           \* the event the search text matches
  STORE_SYNC_TYPE,  \* the event that counts as noise
  PageSize,         \* limit: rows per response
  SearchScanBatch,  \* rows fetched per round-trip in search mode
  SearchScanCap,    \* rows examined at most by one List call in search mode
  PatientAdmin      \* the filters are not changed while "load more" is loading

ASSUME PageAssumption ==
  /\ {PageSize, SearchScanBatch, SearchScanCap} \subseteq Nat \ {0}
  /\ PatientAdmin \in BOOLEAN

VARIABLES
  request,   \* the requests in flight: the page's first query, and "load more"
  filter,    \* appliedFilters
  entries,   \* the ids of the entries shown
  cursor,    \* cursorRef, 0 when undefined
  hasMore, fetching,
  hideSyncNoise,    \* the box "hide module store syncs"
  loadedFor, \* history: the filter of the first page on screen
  capped     \* history: the last response ended at SearchScanCap

shown == <<entries, hasMore, loadedFor, capped>>
pagevars == <<request, filter, cursor, fetching, hideSyncNoise, shown>>
vars == <<logvars, pagevars>>

Filters == {"all", "search"}
Callers == {"runQuery", "loadMore"}

Matches(f, row) == f = "search" => row.event = Needle

(* A List call: its parameters, and the state of its scan loop.              *)
NoRequest == [state |-> "none", filter |-> "all", before |-> 0, scanned |-> 0,
              results |-> << >>, capped |-> FALSE]
NewRequest(f, before) == [NoRequest EXCEPT !.state = "scan", !.filter = f, !.before = before]

PageInit ==
  /\ Init
  /\ request = [c \in Callers |-> NoRequest]
  /\ filter = "all"
  /\ entries = << >>
  /\ cursor = 0
  /\ hasMore = FALSE
  /\ fetching = FALSE
  /\ hideSyncNoise = TRUE
  /\ loadedFor = "all"
  /\ capped = FALSE

-----------------------------------------------------------------------------
(* audit.List *)

(* ORDER BY id DESC, and LIMIT: the ids of a table as a sequence, newest     *)
(* first, and the newest few of them.                                        *)
Descending(ids) ==
  [n \in 1 .. Cardinality(ids) |->
     CHOOSE i \in ids : Cardinality({j \in ids : j > i}) = n - 1]
Newer(ids, limit) == {i \in ids : Cardinality({j \in ids : j > i}) < limit}

(* The cursor row itself is fetched once more.                               *)
queryPageMutant(limit, before) ==
  Descending(Newer({i \in DOMAIN log : before > 0 => i <= before}, limit))

(* The ids of the newest limit rows below the cursor, newest first.          *)
queryPage(limit, before) ==
  Descending(Newer({i \in DOMAIN log : before > 0 => i < before}, limit))

IdsOf(page) == {page[n] : n \in 1 .. Len(page)}

(* The rows of a batch that entryMatches keeps, in their order.              *)
MatchesOf(batch) == Descending({i \in IdsOf(batch) : Matches("search", log[i])})

(* Without a search text List is one round-trip.                             *)
List(c) ==
  /\ request[c].state = "scan"
  /\ request[c].filter = "all"
  /\ request' = [request EXCEPT ![c].state = "answered",
                                ![c].results = queryPage(PageSize, request[c].before)]
  /\ UNCHANGED <<logvars, filter, cursor, fetching, hideSyncNoise, shown>>

(* The loop ends after its first batch, full or not.                         *)
ScannedMutant(r) ==
  LET batch == queryPage(SearchScanBatch, r.before)
  IN [r EXCEPT !.results = MatchesOf(batch),
               !.state   = "answered"]

(* One turn of the search loop: the matches of a batch are added up to the   *)
(* limit; the scan ends at the limit, at a short batch or at the cap.        *)
Scanned(r) ==
  LET batch   == queryPage(SearchScanBatch, r.before)
      all     == r.results \o MatchesOf(batch)
      full    == Len(all) >= PageSize
      scanned == r.scanned + Len(batch)
      short   == Len(batch) < SearchScanBatch
      atCap   == scanned >= SearchScanCap
  IN [r EXCEPT !.results = IF full THEN SubSeq(all, 1, PageSize) ELSE all,
               !.scanned = scanned,
               !.before  = IF batch = << >> THEN @ ELSE batch[Len(batch)],
               !.capped  = ~full /\ ~short /\ atCap,
               !.state   = IF full \/ short \/ atCap THEN "answered" ELSE "scan"]

SearchBatch(c) ==
  /\ request[c].state = "scan"
  /\ request[c].filter = "search"
  /\ request' = [request EXCEPT ![c] = Scanned(@)]
  /\ UNCHANGED <<logvars, filter, cursor, fetching, hideSyncNoise, shown>>

-----------------------------------------------------------------------------
(* The page *)

(* A filter is chosen, or reset: a fresh first-page query.                   *)
runQuery(f) ==
  /\ PatientAdmin => request["loadMore"].state = "none"
  /\ filter' = f
  /\ cursor' = 0
  /\ fetching' = TRUE
  /\ request' = [request EXCEPT !["runQuery"] = NewRequest(f, 0)]
  /\ UNCHANGED <<logvars, hideSyncNoise, shown>>

setHideSyncNoise ==
  /\ hideSyncNoise' = ~hideSyncNoise
  /\ UNCHANGED <<logvars, request, filter, cursor, fetching, shown>>

visibleEntries == {i \in IdsOf(entries) : hideSyncNoise => log[i].event # STORE_SYNC_TYPE}

(* The button is drawn below at least one visible entry.                     *)
Offered == hasMore /\ visibleEntries # {}

loadMore ==
  /\ cursor # 0
  /\ Offered
  /\ ~fetching
  /\ request["loadMore"].state = "none"  \* bound: one at a time
  /\ fetching' = TRUE
  /\ request' = [request EXCEPT !["loadMore"] = NewRequest(filter, cursor)]
  /\ UNCHANGED <<logvars, filter, cursor, hideSyncNoise, shown>>

(* The response arrives: shown from the first entry, or appended.            *)
Received(c, before) ==
  LET data == request[c].results
  IN /\ request[c].state = "answered"
     /\ entries' = before \o data
     /\ hasMore' = (Len(data) = PageSize)
     /\ cursor' = IF data = << >> THEN cursor ELSE data[Len(data)]
     /\ fetching' = FALSE
     /\ capped' = request[c].capped
     /\ request' = [request EXCEPT ![c] = NoRequest]
     /\ loadedFor' = IF c = "runQuery" THEN request[c].filter ELSE loadedFor
     /\ UNCHANGED <<logvars, filter, hideSyncNoise>>

runQueryThen == Received("runQuery", << >>)
loadMoreThen == Received("loadMore", entries)

(* The request fails: the error is shown, everything else stays.             *)
Failed(c) ==
  /\ request[c].state # "none"
  /\ fetching' = FALSE
  /\ request' = [request EXCEPT ![c] = NoRequest]
  /\ UNCHANGED <<logvars, filter, cursor, hideSyncNoise, shown>>

-----------------------------------------------------------------------------
PageNext ==
  \/ Next /\ UNCHANGED pagevars
  \/ \E c \in Callers : List(c) \/ SearchBatch(c) \/ Failed(c)
  \/ \E f \in Filters : runQuery(f)
  \/ setHideSyncNoise \/ loadMore \/ runQueryThen \/ loadMoreThen

PageSpec == PageInit /\ [][PageNext]_vars

-----------------------------------------------------------------------------
(* Properties *)

PageTypeOK ==
  /\ TypeOK
  /\ request \in [Callers -> [state : {"none", "scan", "answered"}, filter : Filters,
                              before : 0 .. seq, scanned : Nat,
                              results : Seq(1 .. seq), capped : BOOLEAN]]
  /\ {filter, loadedFor} \subseteq Filters
  /\ entries \in Seq(1 .. seq)
  /\ cursor \in 0 .. seq
  /\ {hasMore, fetching, hideSyncNoise, capped} \subseteq BOOLEAN

Shown == IdsOf(entries)

(* The list on screen is a gap-free window of the log: newest first, no row  *)
(* twice, and no matching row missing between two that are shown, however    *)
(* many rows were written between the pages.                                 *)
GapFreeWindow ==
  /\ \A m, n \in 1 .. Len(entries) : m < n => entries[m] > entries[n]
  /\ \A i \in DOMAIN log :
       (Matches(loadedFor, log[i]) /\ \E j, k \in Shown : j < i /\ i < k) => i \in Shown

(* Only hidden noise has been loaded so far: no button, though there is more. *)
OnlyNoise == hasMore /\ visibleEntries = {}

(* No "load more" button means there is nothing more: every older matching   *)
(* row is loaded, however pages, batches, limits and the box that hides the  *)
(* noise work out; unless all that was loaded is hidden noise, or the scan   *)
(* cap ended the search.                                                     *)
EndMeansEnd ==
  (entries # << >> /\ ~Offered /\ ~OnlyNoise /\ ~capped) =>
    \A i \in DOMAIN log : (i < entries[1] /\ Matches(loadedFor, log[i])) => i \in Shown

(* "A slow older response must not clobber the newer one's results": once    *)
(* the first page for a filter has been shown, only its matches are shown.   *)
ShownMatchesFilter == \A i \in Shown : Matches(loadedFor, log[i])
=============================================================================
