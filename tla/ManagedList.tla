----------------------------- MODULE ManagedList -----------------------------
(***************************************************************************)
(* One list of the server (its tools, say) as the client keeps it: the     *)
(* aggregate of all pages (core/mcp/state/managedListState.ts, fetched by  *)
(* inspectorClient.ts listAllTools) and the pages loaded one by one        *)
(* (pagedToolsState.ts).  The `paginatedLists` setting chooses which of    *)
(* the two is shown.  The contents of a list are the version of the        *)
(* server's list they were read from; 0 is the empty list.                 *)
(***************************************************************************)
EXTENDS ClientSession, Sequences

CONSTANTS
  Pages,      \* pages of the server's list
  MaxChanges, \* bound: changes of the server's list
  MaxSaves,   \* bound: edits of the settings by the user
  MaxEvents   \* bound: sessions, changes and edits together

ASSUME ManagedListAssumption ==
  /\ Pages \in Nat \ {0} /\ MaxEvents \in Nat
  /\ MaxChanges \in Nat /\ MaxSaves \in Nat

(* Who may have a fetch in flight: the list_changed loop, the connect-time  *)
(* load of session n as caller n, and the user.                             *)
Callers == 0..(MaxSessions + 1)
Loop == 0
User == MaxSessions + 1
Versions == 0..(MaxChanges + 1)

VARIABLES
  current,   \* version of the server's list
  notices,   \* list_changed notifications on their way to the client
  auto,      \* settings.autoRefreshOnListChanged
  paginated, \* settings.paginatedLists
  saves,     \* edits of the settings so far
  fallback,  \* the paginatedLists a toggle falls back to while it is being saved
  items,     \* ManagedListState.items
  lit,       \* ManagedListState.listChanged, the indicator
  err,       \* session whose fetch failed last; 0 is ManagedListState.error = null
  timer,     \* listChangedTimer is armed
  running, runQueued,
  fetch,     \* per caller: its session, and the version read so far
  pages,     \* PagedToolsState.tools, page by page
  more,      \* PagedToolsState.nextCursor is defined
  load,      \* the page load in flight (PagedToolsState.loading)
  pageErr,   \* PagedToolsState.error is set
  excuses    \* history: why what is shown may be stale without a sign of it

serverVars == <<current, notices>>
settingVars == <<auto, paginated, saves, fallback>>
itemVars == <<items, lit, err>>
loopVars == <<timer, running, runQueued>>
pagedVars == <<pages, more, load, pageErr>>
listVars == <<serverVars, settingVars, itemVars, loopVars, fetch, pagedVars, excuses>>

NoFetch == [of |-> 0, got |-> 0]
NoLoad == [page |-> 0, got |-> 0, of |-> 0]
Fallbacks == {"none", "paginated", "aggregate"}

ListTypeOK ==
  /\ current \in 1..(MaxChanges + 1) /\ notices \in 0..MaxChanges
  /\ auto \in BOOLEAN /\ paginated \in BOOLEAN /\ saves \in 0..MaxSaves
  /\ fallback \in Fallbacks
  /\ items \in Versions /\ lit \in BOOLEAN /\ err \in 0..MaxSessions
  /\ timer \in BOOLEAN /\ running \in BOOLEAN /\ runQueued \in BOOLEAN
  /\ fetch \in [Callers -> [of : 0..MaxSessions, got : Versions]]
  /\ pages \in Seq([page : 1..Pages, got : Versions])
  /\ more \in BOOLEAN /\ pageErr \in BOOLEAN
  /\ load \in [page : 0..Pages, got : Versions, of : 0..MaxSessions]
  /\ excuses \subseteq {"overlap", "dropped", "reverted", "late", "masked"}

ListInit ==
  /\ SessionInit
  /\ current = 1 /\ notices = 0
  /\ auto \in BOOLEAN /\ paginated \in BOOLEAN /\ saves = 0 /\ fallback = "none"
  /\ items = 0 /\ lit = FALSE /\ err = 0
  /\ timer = FALSE /\ running = FALSE /\ runQueued = FALSE
  /\ fetch = [c \in Callers |-> NoFetch]
  /\ pages = <<>> /\ more = FALSE /\ load = NoLoad /\ pageErr = FALSE
  /\ excuses = {}

-----------------------------------------------------------------------------
Events == session + (current - 1) + saves
Fetching(f) == {c \in Callers : f[c] # NoFetch}
Settled(c) == [fetch EXCEPT ![c] = NoFetch]

(* Aggregates f in flight at once may commit in any order. *)
Overlap(f) == IF \E c, d \in Fetching(f) : c # d THEN {"overlap"} ELSE {}

(* refresh() by caller c, other fetches being f: fetchItems asks the server *)
(* if the client is connected.                                              *)
Asked(c, f) ==
  IF Connected
  THEN [f EXCEPT ![c] = [of |-> session, got |-> 0]]
  ELSE f

Fetch(c) ==
  /\ fetch' = Asked(c, fetch)
  /\ excuses' = (excuses \ {"overlap"}) \union Overlap(fetch')

(* loadPage(): dropped while another load is in flight. *)
LoadPage(p) ==
  /\ load' = IF Connected /\ load = NoLoad THEN [page |-> p, got |-> 0, of |-> session]
             ELSE load
  /\ excuses' = IF load # NoLoad THEN excuses \union {"dropped"}
                ELSE IF p = 1 THEN excuses \ {"dropped"} ELSE excuses

(* A terminal statusChange empties both stores. *)
DropLists ==
  /\ items' = 0 /\ lit' = FALSE /\ err' = 0 /\ timer' = FALSE
  /\ pages' = <<>> /\ more' = FALSE /\ pageErr' = FALSE
  /\ UNCHANGED <<serverVars, settingVars, running, runQueued, fetch, load, excuses>>

-----------------------------------------------------------------------------
(* Frames in flight on a transport that closed are rejected before the      *)
(* handshake over the next one is through.                                  *)
ListOpens ==
  /\ SessionOpens /\ Events < MaxEvents
  /\ wire \/ (Fetching(fetch) = {} /\ load = NoLoad)
  /\ notices' = IF wire THEN notices ELSE 0
  /\ UNCHANGED <<current, settingVars, itemVars, loopVars, fetch, pagedVars, excuses>>

(* onConnect of both stores: the one that is not shown stays idle. *)
ListAnnounced ==
  /\ SessionAnnounced
  /\ IF paginated
     THEN LoadPage(1) /\ UNCHANGED fetch
     ELSE /\ fetch' = Asked(session, fetch)
          /\ excuses' = (excuses \intersect {"late", "masked"}) \union Overlap(fetch')
          /\ UNCHANGED load
  /\ UNCHANGED <<serverVars, settingVars, itemVars, loopVars, pages, more, pageErr>>

ListCloses ==
  /\ SessionCloses
  /\ IF status' # status THEN DropLists ELSE UNCHANGED listVars

ListErrs == SessionErrs /\ DropLists

-----------------------------------------------------------------------------
(* The server changes its list, and says so if there is somebody to tell. *)
ListChanges ==
  /\ current <= MaxChanges /\ Events < MaxEvents
  /\ current' = current + 1
  /\ notices' = IF wire THEN notices + 1 ELSE notices
  /\ UNCHANGED <<sessionVars, settingVars, itemVars, loopVars, fetch, pagedVars, excuses>>

(* onListChanged: (re)arm the debounce timer. *)
NoticeArrives ==
  /\ wire /\ notices > 0
  /\ notices' = notices - 1
  /\ timer' = TRUE
  /\ UNCHANGED <<sessionVars, current, settingVars, itemVars, running, runQueued,
                 fetch, pagedVars, excuses>>

(* One turn of the loop of runListChangedOnce, the fetch of the last turn   *)
(* being settled and `error` its outcome: fetch or light the indicator.     *)
Turn(f, error) ==
  /\ runQueued' = FALSE
  /\ IF auto /\ ~paginated
     THEN /\ fetch' = Asked(Loop, f)
          /\ running' = Connected
          /\ err' = IF Connected THEN error ELSE 0
          /\ UNCHANGED lit
     ELSE fetch' = f /\ lit' = TRUE /\ running' = FALSE /\ err' = error
  /\ excuses' = excuses \union Overlap(fetch')

(* Mutation: a list_changed during a fetch is taken as served by it. *)
TimerFiresUnqueued ==
  /\ timer
  /\ timer' = FALSE
  /\ IF running
     THEN UNCHANGED <<lit, err, running, runQueued, fetch, excuses>>
     ELSE Turn(fetch, err)
  /\ UNCHANGED <<sessionVars, serverVars, settingVars, items, pagedVars>>

(* runListChanged: queue one more turn while the loop is running. *)
TimerFires ==
  /\ timer
  /\ timer' = FALSE
  /\ IF running
     THEN runQueued' = TRUE /\ UNCHANGED <<lit, err, running, fetch, excuses>>
     ELSE Turn(fetch, err)
  /\ UNCHANGED <<sessionVars, serverVars, settingVars, items, pagedVars>>

(* The server reads its list for an aggregate. *)
FetchAnswered(c) ==
  /\ wire /\ fetch[c] # NoFetch /\ fetch[c].got = 0
  /\ fetch' = [fetch EXCEPT ![c].got = current]
  /\ UNCHANGED <<sessionVars, serverVars, settingVars, itemVars, loopVars, pagedVars, excuses>>

(* refresh() ends with outcome `error`: the auto-refresh loop goes on if a  *)
(* turn was queued.                                                         *)
FetchEnds(c, error) ==
  /\ IF c = Loop /\ runQueued
     THEN Turn(Settled(c), error)
     ELSE /\ fetch' = Settled(c) /\ err' = error
          /\ running' = (running /\ c # Loop)
          /\ UNCHANGED <<lit, runQueued, excuses>>
  /\ UNCHANGED <<sessionVars, serverVars, settingVars, timer, pagedVars>>

(* applyItems commits what was read, whatever the session is by now: the    *)
(* tools are in hand while listAllTools walks the list once more for those  *)
(* the SDK left out, and what fails that walk is caught.                    *)
FetchCommits(c) ==
  /\ fetch[c].got # 0
  /\ items' = fetch[c].got
  /\ FetchEnds(c, 0)

(* The server answers with an error, or the transport closed under it. *)
FetchFails(c) ==
  /\ fetch[c] # NoFetch
  /\ FetchEnds(c, fetch[c].of)
  /\ UNCHANGED items

-----------------------------------------------------------------------------
PageAnswered ==
  /\ wire /\ load.page # 0 /\ load.got = 0
  /\ load' = [load EXCEPT !.got = current]
  /\ UNCHANGED <<sessionVars, serverVars, settingVars, itemVars, loopVars, fetch,
                 pages, more, pageErr, excuses>>

Loaded == [page |-> load.page, got |-> load.got]

(* A later page that was asked for before the list was emptied, or that   *)
(* clears the error of a refresh that failed.                              *)
Blemish ==
  IF load.page = 1 THEN {}
  ELSE (IF ~Connected \/ load.of # session THEN {"late"} ELSE {})
       \union (IF pageErr THEN {"masked"} ELSE {})
       \union (excuses \intersect {"late", "masked"})

(* Page 1 replaces the list, a page with a cursor extends it. *)
PageCommits ==
  /\ wire /\ load.got # 0
  /\ pages' = IF load.page = 1 THEN <<Loaded>> ELSE Append(pages, Loaded)
  /\ more' = (load.page < Pages)
  /\ load' = NoLoad /\ pageErr' = FALSE
  /\ excuses' = (excuses \ {"late", "masked"}) \union Blemish
  /\ UNCHANGED <<sessionVars, serverVars, settingVars, itemVars, loopVars, fetch>>

PageFails ==
  /\ load # NoLoad
  /\ load' = NoLoad /\ pageErr' = TRUE
  /\ UNCHANGED <<sessionVars, serverVars, settingVars, itemVars, loopVars, fetch,
                 pages, more, excuses>>

(* onLoadMore of the shown list. *)
LoadMore ==
  /\ Connected /\ paginated /\ more /\ load = NoLoad
  /\ LoadPage(Len(pages) + 1)
  /\ UNCHANGED <<sessionVars, serverVars, settingVars, itemVars, loopVars, fetch,
                 pages, more, pageErr>>

-----------------------------------------------------------------------------
(* The Refresh button: it acknowledges the indicator, then pulls. *)
UserRefreshes ==
  /\ Connected /\ fetch[User] = NoFetch
  /\ lit' = FALSE
  /\ IF paginated
     THEN LoadPage(1) /\ UNCHANGED fetch
     ELSE Fetch(User) /\ UNCHANGED load
  /\ UNCHANGED <<sessionVars, serverVars, settingVars, items, err, loopVars,
                 pages, more, pageErr>>

UserTogglesAuto ==
  /\ saves < MaxSaves /\ Events < MaxEvents
  /\ auto' = ~auto /\ saves' = saves + 1
  /\ UNCHANGED <<sessionVars, serverVars, paginated, fallback, itemVars, loopVars,
                 fetch, pagedVars, excuses>>

(* onTogglePaginatedLists: set it live, load what is shown now, save it. *)
UserTogglesPaginated ==
  /\ saves < MaxSaves /\ Events < MaxEvents
  /\ fallback = "none" /\ fetch[User] = NoFetch
  /\ paginated' = ~paginated /\ saves' = saves + 1
  /\ fallback' = IF paginated THEN "paginated" ELSE "aggregate"
  /\ IF ~Connected THEN UNCHANGED <<lit, fetch, load, excuses>>
     ELSE IF paginated' THEN LoadPage(1) /\ UNCHANGED <<lit, fetch>>
     ELSE Fetch(User) /\ lit' = FALSE /\ UNCHANGED load
  /\ UNCHANGED <<sessionVars, serverVars, auto, items, err, loopVars, pages, more, pageErr>>

(* The PUT of the settings returns; a failed one reverts the live setting. *)
SaveSettles ==
  /\ fallback # "none"
  /\ fallback' = "none"
  /\ \/ UNCHANGED <<paginated, excuses>>
     \/ /\ paginated' = (fallback = "paginated")
        /\ excuses' = excuses \union {"reverted"}
  /\ UNCHANGED <<sessionVars, serverVars, auto, saves, itemVars, loopVars, fetch, pagedVars>>

ListNext ==
  \/ ListOpens \/ ListAnnounced \/ ListCloses \/ ListErrs
  \/ ListChanges \/ NoticeArrives \/ TimerFires
  \/ \E c \in Callers : FetchAnswered(c) \/ FetchCommits(c) \/ FetchFails(c)
  \/ PageAnswered \/ PageCommits \/ PageFails \/ LoadMore
  \/ UserRefreshes \/ UserTogglesAuto \/ UserTogglesPaginated \/ SaveSettles

ListSpec == ListInit /\ [][ListNext]_<<sessionVars, listVars>>

-----------------------------------------------------------------------------
Quiet ==
  /\ announced /\ Fetching(fetch) = {} /\ load = NoLoad
  /\ ~timer /\ notices = 0

ShownIsCurrent ==
  IF paginated
  THEN pages # <<>> /\ \A i \in DOMAIN pages : pages[i] = [page |-> i, got |-> current]
  ELSE items = current

(* Once nothing is under way, the list the user sees is the server's or the *)
(* screen says that it may not be, by the indicator or by an error; unless   *)
(* two aggregates raced (overlap), a page-1 load was dropped behind another  *)
(* load (dropped), a failed save switched the display back (reverted), a     *)
(* page asked for before the list was emptied came after (late), or a later  *)
(* page cleared the error of a refresh that failed (masked).                 *)
NothingMissed ==
  Quiet /\ excuses = {} => \/ ShownIsCurrent \/ lit
                           \/ IF paginated THEN pageErr ELSE err # 0

(* The double-click guard of loadPage: no page is shown twice or skipped. *)
PagesInOrder ==
  "late" \notin excuses => \A i \in DOMAIN pages : pages[i].page = i

(* managedListState.ts on a terminal status: "a stale 'couldn't load tools'  *)
(* must not outlive it into the next connect".  The rejections that the end  *)
(* of a session causes arrive after the status that clears the error.        *)
ErrorEndsWithSession == Connected => err \in {0, session}
=============================================================================
