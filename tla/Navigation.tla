----------------------------- MODULE Navigation -----------------------------
(***************************************************************************)
(* The session history of a tab.                                           *)
(*                                                                         *)
(* The browser process keeps the list of entries (NavigationController):   *)
(* the committed ones, the pending one - an entry of its own or one of the *)
(* list - and the transient one of an interstitial page.  The renderer     *)
(* process (RenderView) keeps the page it shows and the page ids it gives  *)
(* out.  Both start navigations, and tell each other in messages that      *)
(* cross: a Navigate is computed from a list that a commit under way is    *)
(* about to change, and a commit arrives when the user has already asked   *)
(* for another page.                                                       *)
(*                                                                         *)
(* One SiteInstance and one RenderViewHost: transitions between hosts are  *)
(* RenderViewHostManager's.  Indices start at 1, and 0 stands for the      *)
(* code's -1 and NULL.  A failed load shows an error page, which commits   *)
(* like any other page; only ERR_ABORTED is told apart.                    *)
(***************************************************************************)
EXTENDS Integers, Sequences, SequencesExt, FiniteSets

CONSTANTS
  Scenarios,    \* bound: what the user and the pages may do, see scenario
  MaxEntries,   \* content::kMaxSessionHistoryEntries
  MaxCommands   \* bound: commands of the user

ASSUME BoundsAssumption ==
  /\ MaxEntries \in Nat /\ MaxEntries >= 2
  /\ MaxCommands \in Nat
  /\ \A s \in Scenarios : s.maxActs \in Nat /\ \A u \in s.urls : u.ref \in Nat

VARIABLES
  tab,         \* the browser's side: NavigationController, InterstitialPage
  r,           \* the RenderView
  toRenderer,  \* messages to the renderer, in order
  toBrowser,   \* messages and tasks for the UI thread, in order
  scenario     \* chosen at the start and kept

vars == <<tab, r, toRenderer, toBrowser, scenario>>

Urls == scenario.urls          \* [base, ref]: a URL and its fragment, ref = 0 for none
Commands == scenario.commands  \* what the user does
Contents == scenario.contents  \* what the page in the renderer does
MaxActs == scenario.maxActs    \* navigations, failures and crashes of the renderer

(***************************************************************************)
(* The content state of a page is what WebKit needs to show it again: the  *)
(* history item, the document it is in, and the content of its frames.     *)
(***************************************************************************)
NoState == [item |-> 0, doc |-> 0, frame |-> 0]
NoUrl == [base |-> "none", ref |-> 0]
BlankUrl == [base |-> "blank", ref |-> 0]   \* the default page
NoEntry == [id |-> 0, page |-> 0, url |-> NoUrl, state |-> NoState]

(***************************************************************************)
(* A load of the renderer: what it is, the page id and the offset it goes  *)
(* to (0 for a new page), and the entry it was asked for.                  *)
(***************************************************************************)
NoLoad == [kind |-> "none", page |-> 0, offset |-> 0, url |-> NoUrl,
           state |-> NoState, entry |-> 0]
NoInterstitial == [st |-> "none", url |-> NoUrl, enabled |-> FALSE,
                   proceed |-> FALSE, notified |-> FALSE, mine |-> FALSE]

NewRenderView(next, items) ==
  [alive |-> TRUE, page |-> 0, next |-> next, offset |-> 0, length |-> 0,
   url |-> NoUrl, state |-> NoState, load |-> NoLoad, items |-> items,
   acts |-> 0]

(***************************************************************************)
(* tab.pend is the id of the pending entry and tab.own that entry when it  *)
(* is not one of the list; tab.request is what the resource dispatcher     *)
(* does with the renderer's current main request.                          *)
(***************************************************************************)
Init ==
  /\ tab = [entries |-> <<>>, last |-> 0, pend |-> 0, own |-> NoEntry,
            pendIdx |-> 0, trans |-> 0, maxPage |-> 0, ids |-> 0,
            commands |-> 0, live |-> FALSE, request |-> "none",
            inter |-> NoInterstitial]
  /\ r = [NewRenderView(1, 0) EXCEPT !.alive = FALSE]
  /\ toRenderer = <<>>
  /\ toBrowser = <<>>
  /\ scenario \in Scenarios

-----------------------------------------------------------------------------
(* NavigationController: its lists, as functions of the tab's state.       *)

IndexOfId(t, id) ==
  IF \E i \in DOMAIN t.entries : t.entries[i].id = id
  THEN CHOOSE i \in DOMAIN t.entries : t.entries[i].id = id ELSE 0

PendingEntry(t) ==
  IF t.own # NoEntry THEN t.own
  ELSE IF t.pend = 0 \/ IndexOfId(t, t.pend) = 0 THEN NoEntry
  ELSE t.entries[IndexOfId(t, t.pend)]

(* The last one is found: the code searches from the end of the list. *)
GetEntryIndexWithPageID(t, page) ==
  SelectLastInSeq(t.entries, LAMBDA e : e.page = page)

GetCurrentEntryIndex(t) ==
  IF t.trans # 0 THEN t.trans ELSE IF t.pendIdx # 0 THEN t.pendIdx ELSE t.last

CanGoBack(t) == Len(t.entries) > 1 /\ GetCurrentEntryIndex(t) > 1

CanGoForward(t) ==
  GetCurrentEntryIndex(t) > 0 /\ GetCurrentEntryIndex(t) < Len(t.entries)

DiscardTransientEntry(t) ==
  IF t.trans = 0 THEN t
  ELSE [t EXCEPT !.entries = RemoveAt(t.entries, t.trans),
                 !.last = IF t.last > t.trans THEN @ - 1 ELSE @,
                 !.trans = 0]

DiscardNonCommittedEntries(t) ==
  DiscardTransientEntry([t EXCEPT !.pend = 0, !.own = NoEntry, !.pendIdx = 0])

\* Fault: the pending entry is not discarded.
RemoveEntryAtIndexInternalPending(t, i) ==
  LET u == DiscardTransientEntry(t)
  IN  [u EXCEPT !.entries = RemoveAt(u.entries, i),
                !.last = IF u.last >= i THEN @ - 1 ELSE @]

RemoveEntryAtIndexInternal(t, i) ==
  LET u == DiscardNonCommittedEntries(t)
  IN  [u EXCEPT !.entries = RemoveAt(u.entries, i),
                !.last = IF u.last >= i THEN @ - 1 ELSE @]

(***************************************************************************)
(* A new committed entry: what lies ahead of the last committed entry is   *)
(* pruned, and that entry too if it is replaced; a full list loses its     *)
(* first entry.                                                            *)
(***************************************************************************)
InsertOrReplaceEntry(t, e, replace) ==
  LET u == DiscardNonCommittedEntries(t)
      kept == SubSeq(u.entries, 1, IF replace THEN u.last - 1 ELSE u.last)
      v == [u EXCEPT !.entries = kept]
      w == IF Len(kept) >= MaxEntries
           THEN RemoveEntryAtIndexInternal(v, 1) ELSE v
  IN  [w EXCEPT !.entries = Append(w.entries, [e EXCEPT !.id = t.ids + 1]),
                !.last = Len(w.entries) + 1, !.ids = t.ids + 1,
                !.maxPage = IF e.page > @ THEN e.page ELSE @]

(* The place is computed before an older transient entry is discarded. *)
AddTransientEntry(t, url) ==
  LET i == t.last + 1
      u == DiscardTransientEntry(t)
  IN  [u EXCEPT !.entries = InsertAt(u.entries, i,
                              [NoEntry EXCEPT !.id = t.ids + 1, !.url = url]),
                !.trans = i, !.ids = t.ids + 1]

-----------------------------------------------------------------------------
(* InterstitialPage, for a main request that waits for the user's word.    *)

(***************************************************************************)
(* While it is there the requests that the page behind it starts are       *)
(* blocked; they are resumed or cancelled once.                            *)
(***************************************************************************)
Blocking(t) == t.inter.st # "none" /\ ~t.inter.notified

TakeActionOnResourceDispatcher(t, verdict) ==
  IF t.inter.notified THEN t
  ELSE [t EXCEPT !.inter.notified = TRUE,
                 !.request = IF @ = "blocked" THEN verdict ELSE @]

StartRequest(t) ==
  [t EXCEPT !.request = IF Blocking(t) THEN "blocked" ELSE "go",
            !.inter.mine = FALSE]

(* The request that the interstitial is about, unless another replaced it. *)
Decide(t, verdict) ==
  IF t.inter.mine THEN [t EXCEPT !.request = verdict] ELSE t

Hide(t) == [t EXCEPT !.inter = NoInterstitial]

(* The page behind it goes on, and its own request is refused. *)
Refuse(t) == Decide(TakeActionOnResourceDispatcher(t, "go"), "denied")

DontProceed(t) == Hide(DiscardNonCommittedEntries(Refuse(t)))

CancelForNavigation(t) ==
  IF t.inter.st # "shown" THEN t
  ELSE [TakeActionOnResourceDispatcher(t, "go") EXCEPT !.inter.enabled = FALSE]

(* NAV_ENTRY_PENDING. *)
NavigationPending(t) ==
  IF t.inter.st = "none" THEN t
  ELSE [TakeActionOnResourceDispatcher(t, "denied")
        EXCEPT !.inter.enabled = FALSE]

(* NAV_ENTRY_COMMITTED. *)
NavigationCommitted(t) ==
  CASE t.inter.st = "none" -> t
    [] t.inter.st # "none" /\ ~t.inter.proceed -> DontProceed(t)
    [] t.inter.st # "none" /\ t.inter.proceed -> Hide(t)

(***************************************************************************)
(* An interstitial that is there already is closed first; its transient    *)
(* entry goes, and the pending entry is the new one's.                     *)
(***************************************************************************)
Show(t, url, mine) ==
  LET u == CASE t.inter.st = "none" -> t
             [] t.inter.st # "none" /\ t.inter.proceed -> Hide(t)
             [] t.inter.st # "none" /\ ~t.inter.proceed ->
                  Hide(Refuse(t))
  IN  AddTransientEntry(
        [u EXCEPT !.inter = [NoInterstitial EXCEPT !.st = "made", !.url = url,
                             !.enabled = TRUE, !.mine = mine]], url)

-----------------------------------------------------------------------------
(* The commands of the user.                                               *)

(***************************************************************************)
(* What a Navigate message says is read from the list as it is now; the    *)
(* first one after a crash starts a process, whose page ids begin after    *)
(* every one that the browser has seen.                                    *)
(***************************************************************************)
NavigateParams(t, reload) ==
  LET e == PendingEntry(t)
  IN  [type |-> "navigate", page |-> e.page, offset |-> IndexOfId(t, e.id),
       current |-> t.last, length |-> Len(t.entries), url |-> e.url,
       state |-> e.state, reload |-> reload, entry |-> e.id]

Restart(t) == [NewRenderView(t.maxPage + 1, r.items) EXCEPT !.acts = r.acts]

NavigateToPendingEntry(t, reload) ==
  LET u == IF t.pend = 0 THEN [t EXCEPT !.pend = t.entries[t.pendIdx].id]
           ELSE t
      m == NavigateParams(u, reload)
  IN  /\ tab' = [u EXCEPT !.commands = @ + 1, !.live = TRUE]
      /\ IF u.live
         THEN /\ toRenderer' = IF r.alive THEN Append(toRenderer, m)
                               ELSE toRenderer
              /\ UNCHANGED <<r, toBrowser>>
         ELSE /\ r' = Restart(u)
              /\ toRenderer' = <<m>>
              /\ UNCHANGED toBrowser

(* A command that ends in the browser. *)
Handled(t) ==
  /\ tab' = [t EXCEPT !.commands = @ + 1]
  /\ UNCHANGED <<r, toRenderer, toBrowser>>

Command(name) == name \in Commands /\ tab.commands < MaxCommands

LoadEntry(t, url) ==
  LET u == DiscardNonCommittedEntries(t)
      e == [NoEntry EXCEPT !.id = u.ids + 1, !.url = url]
  IN  NavigateToPendingEntry(
        NavigationPending([u EXCEPT !.own = e, !.pend = e.id, !.ids = e.id]),
        FALSE)

LoadURL(url) ==
  /\ Command("load")
  /\ LoadEntry(tab, url)

GoBack ==
  /\ Command("history")
  /\ CanGoBack(tab)
  /\ IF tab.inter.st = "shown" THEN Handled(DontProceed(tab))
     ELSE NavigateToPendingEntry(
            [DiscardNonCommittedEntries(tab)
             EXCEPT !.pendIdx = GetCurrentEntryIndex(tab) - 1], FALSE)

(* Without the transient entry its index is that of the next page. *)
GoForward ==
  /\ Command("history")
  /\ CanGoForward(tab)
  /\ NavigateToPendingEntry(
       [DiscardNonCommittedEntries(CancelForNavigation(tab))
        EXCEPT !.pendIdx = GetCurrentEntryIndex(tab)
                           + (IF tab.trans # 0 THEN 0 ELSE 1)], FALSE)

GoToIndex(index) ==
  /\ Command("history")
  /\ index # tab.trans
  /\ LET i == IF tab.trans # 0 /\ index > tab.trans THEN index - 1 ELSE index
     IN  IF tab.inter.st = "shown" /\ i = GetCurrentEntryIndex(tab) - 1
         THEN Handled(DontProceed(tab))
         ELSE NavigateToPendingEntry(
                [DiscardNonCommittedEntries(CancelForNavigation(tab))
                 EXCEPT !.pendIdx = i], FALSE)

(* Reloading a transient entry does nothing. *)
Reload ==
  /\ Command("reload")
  /\ tab.trans = 0
  /\ LET t == DiscardNonCommittedEntries(tab)
     IN  IF t.last = 0 THEN Handled(t)
         ELSE NavigateToPendingEntry([t EXCEPT !.pendIdx = t.last], TRUE)

RemoveEntryAtIndex(i) ==
  /\ Command("remove")
  /\ i <= Len(DiscardNonCommittedEntries(tab).entries)
  /\ LET t == RemoveEntryAtIndexInternal(tab, i)
     IN  CASE i # tab.last -> Handled(t)
           [] i = tab.last /\ t.last # 0 ->
                NavigateToPendingEntry([t EXCEPT !.pendIdx = t.last], FALSE)
           [] i = tab.last /\ t.last = 0 -> LoadEntry(t, BlankUrl)

(* The pending entry is left to the answer of the renderer. *)
Stop ==
  /\ Command("stop")
  /\ tab.live
  /\ tab' = [tab EXCEPT !.commands = @ + 1]
  /\ toRenderer' = IF r.alive THEN Append(toRenderer, [type |-> "stop"])
                   ELSE toRenderer
  /\ UNCHANGED <<r, toBrowser>>

(* The interstitial's own page is there: InterstitialPage::DidNavigate. *)
Attach ==
  /\ tab.inter.st = "made"
  /\ tab' = IF tab.inter.enabled THEN [tab EXCEPT !.inter.st = "shown"]
            ELSE DontProceed(tab)
  /\ UNCHANGED <<r, toRenderer, toBrowser>>

Proceed ==
  /\ tab.inter.st = "shown"
  /\ tab.inter.enabled
  /\ tab' = [TakeActionOnResourceDispatcher(Decide(tab, "go"), "denied")
             EXCEPT !.inter.enabled = FALSE, !.inter.proceed = TRUE]
  /\ UNCHANGED <<r, toRenderer, toBrowser>>

Dismiss ==
  /\ tab.inter.st = "shown"
  /\ tab.inter.enabled
  /\ tab' = DontProceed(tab)
  /\ UNCHANGED <<r, toRenderer, toBrowser>>

-----------------------------------------------------------------------------
(* The RenderView.                                                         *)

InPage(old, new) == old # new /\ new.ref # 0 /\ old.base = new.base

Aborted(load) ==
  IF load = NoLoad THEN <<>>
  ELSE <<[type |-> "abort", url |-> load.url, entry |-> load.entry]>>

(* didCommitProvisionalLoad, for a new page ... *)
CommitNew(v, url, state) ==
  LET offset == IF v.offset + 1 > MaxEntries THEN MaxEntries ELSE v.offset + 1
  IN  [v EXCEPT !.page = v.next, !.next = @ + 1, !.url = url, !.state = state,
                !.offset = offset, !.length = offset, !.load = NoLoad]

(* ... and for a page of the history, a reload or a replacement. *)
CommitExisting(v, load, state) ==
  LET moved == load.page # 0 /\ load.page # v.page
  IN  [v EXCEPT !.page = IF moved THEN load.page ELSE @,
                !.offset = IF moved THEN load.offset ELSE @,
                !.url = load.url, !.state = state, !.load = NoLoad]

(* UpdateURL. *)
Committed(v, main) ==
  [type |-> "commit", page |-> v.page, url |-> v.url, state |-> v.state,
   main |-> main]

(* The item of a new document, of another place in it, of other frames. *)
NewDocument(v) ==
  [item |-> v.items + 1, doc |-> v.items + 1, frame |-> v.items + 1]
NewPlace(v) == [v.state EXCEPT !.item = v.items + 1]
NewFrame(v) == [v.state EXCEPT !.item = v.items + 1, !.frame = v.items + 1]
Numbered(v) == [v EXCEPT !.items = @ + 1]

(* A load begins; the one under way is cancelled. *)
Starts(v, load) ==
  /\ r' = [v EXCEPT !.load = load]
  /\ tab' = StartRequest(tab)
  /\ toBrowser' = toBrowser \o Aborted(v.load)

(***************************************************************************)
(* A place in the page is reached at once, which ends a load of another    *)
(* page that is under way.                                                 *)
(***************************************************************************)
CommitsInPage(v, w) ==
  LET kept == v.load # NoLoad /\ v.load.url.base = w.url.base
  IN  /\ r' = IF kept THEN [w EXCEPT !.load = v.load] ELSE w
      /\ tab' = IF kept THEN tab
                ELSE [tab EXCEPT !.request = "none", !.inter.mine = FALSE]
      /\ toBrowser' = toBrowser \o (IF kept THEN <<>> ELSE Aborted(v.load))
                                \o <<Committed(w, TRUE)>>

(***************************************************************************)
(* OnNavigate.  What the browser knows of the history replaces what the    *)
(* renderer knows.  A reload loads the page that is there, under the page  *)
(* id that the browser names; a page of the history in the document that   *)
(* is there is a place in it or a load of its frames; a URL that is there  *)
(* is loaded again, and another fragment of it is a place in the page.     *)
(***************************************************************************)
OnNavigate ==
  /\ r.alive
  /\ toRenderer # <<>>
  /\ Head(toRenderer).type = "navigate"
  /\ toRenderer' = Tail(toRenderer)
  /\ LET m == Head(toRenderer)
         v == [r EXCEPT !.offset = m.current, !.length = m.length]
         load == [kind |-> "load", page |-> m.page, offset |-> m.offset,
                  url |-> m.url, state |-> m.state, entry |-> m.entry]
         inDoc == r.state # NoState /\ m.state # r.state
                  /\ m.state.doc = r.state.doc
     IN  CASE m.reload /\ r.state # NoState ->
                Starts(v, [load EXCEPT !.kind = "history", !.url = r.url,
                                       !.state = r.state])
           [] ~(m.reload /\ r.state # NoState) /\ m.state # NoState ->
                IF inDoc /\ m.state.frame = r.state.frame
                THEN CommitsInPage(v, CommitExisting(v, load, m.state))
                ELSE Starts(v, [load EXCEPT !.kind = IF inDoc THEN "frames"
                                                     ELSE "history"])
           [] m.state = NoState ->
                CASE r.state # NoState /\ m.url = r.url ->
                       Starts(v, [load EXCEPT !.kind = "replace"])
                  [] r.state # NoState /\ InPage(r.url, m.url) ->
                       CommitsInPage(v,
                         CommitNew(Numbered(v), m.url, NewPlace(v)))
                  [] r.state = NoState
                     \/ (m.url # r.url /\ ~InPage(r.url, m.url)) ->
                       Starts(v, load)

(* The load under way, if any, is cancelled. *)
CancelLoad ==
  /\ r' = [r EXCEPT !.load = NoLoad]
  /\ tab' = [tab EXCEPT !.request = "none", !.inter.mine = FALSE]
  /\ toBrowser' = toBrowser \o Aborted(r.load)

OnStop ==
  /\ r.alive
  /\ toRenderer # <<>>
  /\ Head(toRenderer).type = "stop"
  /\ toRenderer' = Tail(toRenderer)
  /\ CancelLoad

(* didCommitProvisionalLoad. *)
LoadCommits ==
  /\ r.load # NoLoad
  /\ tab.request = "go"
  /\ LET l == r.load
         v == CASE l.kind = "load" ->
                     CommitNew(Numbered(r), l.url, NewDocument(r))
                [] l.kind = "replace" ->
                     CommitExisting(Numbered(r), l, NewDocument(r))
                [] l.kind \in {"history", "frames"} ->
                     CommitExisting(r, l, l.state)
     IN  /\ r' = v
         /\ toBrowser' = Append(toBrowser, Committed(v, l.kind # "frames"))
  /\ tab' = [tab EXCEPT !.request = "none"]
  /\ UNCHANGED toRenderer

(* The request is refused by the browser: it was cancelled there. *)
LoadDenied ==
  /\ r.load # NoLoad
  /\ tab.request = "denied"
  /\ CancelLoad
  /\ UNCHANGED toRenderer

Acts(what) ==
  /\ what \in Contents
  /\ r.alive
  /\ r.acts < MaxActs

(* It turns out to be a download, or there is nothing to show. *)
LoadAborts ==
  /\ Acts("abort")
  /\ r.load # NoLoad
  /\ tab.request = "go"
  /\ r' = [r EXCEPT !.load = NoLoad, !.acts = @ + 1]
  /\ toBrowser' = toBrowser \o Aborted(r.load)
  /\ tab' = [tab EXCEPT !.request = "none"]
  /\ UNCHANGED toRenderer

(* The certificate is doubtful: the request waits, and a task for the UI thread asks the user. *)
LoadIsHeld ==
  /\ Acts("hold")
  /\ r.load # NoLoad
  /\ tab.request = "go"
  /\ tab' = [tab EXCEPT !.request = "held"]
  /\ r' = [r EXCEPT !.acts = @ + 1]
  /\ toBrowser' = Append(toBrowser, [type |-> "hold", url |-> r.load.url])
  /\ UNCHANGED toRenderer

Acted == [r EXCEPT !.acts = @ + 1]

(* The page navigates: a link or script, with or without a new page. *)
ContentLoads(kind, url) ==
  /\ Acts(kind)
  /\ r.state # NoState
  /\ url # r.url /\ ~InPage(r.url, url)
  /\ Starts(Acted, [NoLoad EXCEPT !.kind = IF kind = "link" THEN "load"
                                           ELSE "replace", !.url = url])
  /\ UNCHANGED toRenderer

ScriptReloads ==
  /\ Acts("reload")
  /\ r.state # NoState
  /\ Starts(Acted, [NoLoad EXCEPT !.kind = "history", !.url = r.url,
                                  !.state = r.state])
  /\ UNCHANGED toRenderer

ContentFragment(url) ==
  /\ Acts("fragment")
  /\ r.state # NoState
  /\ InPage(r.url, url)
  /\ CommitsInPage(r, CommitNew(Numbered(Acted), url, NewPlace(r)))
  /\ UNCHANGED toRenderer

(* The user follows a link in a frame: a new page id, a subframe commit. *)
SubframeNavigates ==
  /\ Acts("subframe")
  /\ r.state # NoState
  /\ LET v == [CommitNew(Numbered(Acted), r.url, NewFrame(r))
               EXCEPT !.load = r.load]
     IN  /\ r' = v
         /\ toBrowser' = Append(toBrowser, Committed(v, FALSE))
  /\ UNCHANGED <<tab, toRenderer>>

(* A frame of the page is loaded without the user: no new page id. *)
SubframeLoads ==
  /\ Acts("autoframe")
  /\ r.state # NoState
  /\ r' = Acted
  /\ toBrowser' = Append(toBrowser, Committed(r, FALSE))
  /\ UNCHANGED <<tab, toRenderer>>

RendererDies ==
  /\ Acts("crash")
  /\ r' = [Acted EXCEPT !.alive = FALSE, !.load = NoLoad]
  /\ tab' = [tab EXCEPT !.request = "none", !.inter.mine = FALSE]
  /\ toRenderer' = <<>>
  /\ toBrowser' = Append(toBrowser, [type |-> "gone"])

-----------------------------------------------------------------------------
(* What the browser makes of the renderer's messages.                      *)

ClassifyNavigation(t, m) ==
  LET i == GetEntryIndexWithPageID(t, m.page)
      e == t.entries[i]
  IN  CASE m.page > t.maxPage ->
             IF m.main THEN "new"
             ELSE IF t.last = 0 THEN "ignore" ELSE "newSubframe"
        [] m.page <= t.maxPage /\ i = 0 -> "ignore"
        [] m.page <= t.maxPage /\ i # 0 /\ ~m.main -> "autoSubframe"
        [] m.page <= t.maxPage /\ i # 0 /\ m.main ->
             IF t.pend # 0 /\ e.id # t.pend /\ PendingEntry(t).page = 0
                /\ i = t.last
             THEN "same"
             ELSE IF InPage(e.url, m.url) THEN "inPage" ELSE "existing"

RendererDidNavigateToNewPage(t, m) ==
  InsertOrReplaceEntry(t, [PendingEntry(t) EXCEPT !.page = m.page,
                                                  !.url = m.url], FALSE)

RendererDidNavigateToExistingPage(t, m) ==
  LET i == GetEntryIndexWithPageID(t, m.page)
      u == [t EXCEPT !.entries[i].url = m.url]
      v == IF t.pend # 0 THEN DiscardNonCommittedEntries(u) ELSE u
  IN  [v EXCEPT !.last = GetEntryIndexWithPageID(v, m.page)]

RendererDidNavigateToSamePage(t, m) ==
  DiscardNonCommittedEntries(
    [t EXCEPT !.entries[GetEntryIndexWithPageID(t, m.page)].url = m.url])

RendererDidNavigateInPage(t, m) ==
  InsertOrReplaceEntry(
    t, [t.entries[GetEntryIndexWithPageID(t, m.page)] EXCEPT !.url = m.url],
    TRUE)

RendererDidNavigateNewSubframe(t, m) ==
  InsertOrReplaceEntry(t, [t.entries[t.last] EXCEPT !.page = m.page], FALSE)

RendererDidNavigateAutoSubframe(t, m) ==
  [t EXCEPT !.last = GetEntryIndexWithPageID(t, m.page)]

GetActiveEntryIndex(t) == IF t.trans # 0 THEN t.trans ELSE t.last

(***************************************************************************)
(* After the entry is committed, the active entry - the transient one, if  *)
(* it is still there - gets the content state of the page, and the         *)
(* interstitial is told.                                                   *)
(***************************************************************************)
ActiveEntryCommitted(t, m) ==
  NavigationCommitted(
    IF t.trans = 0 /\ t.own # NoEntry
    THEN [t EXCEPT !.own.state = m.state]
    ELSE IF t.trans = 0 /\ t.pend # 0
    THEN [t EXCEPT !.entries[IndexOfId(t, t.pend)].state = m.state]
    ELSE [t EXCEPT !.entries[GetActiveEntryIndex(t)].state = m.state])

RendererDidNavigate(t, m) ==
  LET type == ClassifyNavigation(t, m)
  IN  CASE type = "new" ->
             ActiveEntryCommitted(RendererDidNavigateToNewPage(t, m), m)
        [] type = "existing" ->
             ActiveEntryCommitted(RendererDidNavigateToExistingPage(t, m), m)
        [] type = "same" ->
             ActiveEntryCommitted(RendererDidNavigateToSamePage(t, m), m)
        [] type = "inPage" ->
             ActiveEntryCommitted(RendererDidNavigateInPage(t, m), m)
        [] type = "newSubframe" ->
             ActiveEntryCommitted(RendererDidNavigateNewSubframe(t, m), m)
        [] type = "autoSubframe" ->
             IF GetEntryIndexWithPageID(t, m.page) = t.last THEN t
             ELSE ActiveEntryCommitted(RendererDidNavigateAutoSubframe(t, m), m)
        [] type = "ignore" ->
             IF t.pend # 0 THEN DiscardNonCommittedEntries(t) ELSE t

Receives(type) ==
  /\ toBrowser # <<>>
  /\ Head(toBrowser).type = type
  /\ toBrowser' = Tail(toBrowser)
  /\ UNCHANGED <<r, toRenderer>>

DidNavigate ==
  /\ Receives("commit")
  /\ tab' = RendererDidNavigate(tab, Head(toBrowser))

(***************************************************************************)
(* An aborted load ends the navigation that is pending, if it is to the    *)
(* same URL; it is not heard while an interstitial is shown.               *)
(***************************************************************************)
\* Fault: the failed load is taken to have been committed.
AbortsLast(t, m) ==
  IF t.inter.st # "shown" /\ t.pend # 0 /\ PendingEntry(t).url = m.url
     /\ t.last # 0
  THEN RemoveEntryAtIndexInternal(t, t.last) ELSE t

\* Fault: the pending entry is left there.
AbortsNothing(t, m) == t

Aborts(t, m) ==
  IF t.inter.st # "shown" /\ t.pend # 0 /\ PendingEntry(t).url = m.url
  THEN DiscardNonCommittedEntries(t) ELSE t

OnDidFailProvisionalLoad ==
  /\ Receives("abort")
  /\ tab' = Aborts(tab, Head(toBrowser))

RenderViewGone ==
  /\ Receives("gone")
  /\ tab' = [tab EXCEPT !.live = FALSE]

(* The interstitial is about the renderer's current request, or an older. *)
ShowInterstitial ==
  /\ Receives("hold")
  /\ LET newer == \E i \in 2..Len(toBrowser) : toBrowser[i].type = "hold"
     IN  tab' = Show(tab, Head(toBrowser).url,
                     tab.request = "held" /\ ~newer)

-----------------------------------------------------------------------------
Commanded ==
  \/ \E u \in Urls : LoadURL(u)
  \/ GoBack
  \/ GoForward
  \/ \E i \in 1..Len(tab.entries) : GoToIndex(i) \/ RemoveEntryAtIndex(i)
  \/ Reload
  \/ Stop
  \/ Proceed
  \/ Dismiss

ContentActs ==
  \/ \E u \in Urls : \/ \E k \in {"link", "replace"} : ContentLoads(k, u)
                     \/ ContentFragment(u)
  \/ ScriptReloads
  \/ SubframeNavigates
  \/ SubframeLoads
  \/ LoadAborts
  \/ LoadIsHeld
  \/ RendererDies

RendererWorks == OnNavigate \/ OnStop \/ LoadCommits \/ LoadDenied

BrowserHears == DidNavigate \/ OnDidFailProvisionalLoad \/ RenderViewGone
                \/ ShowInterstitial

Step == Commanded \/ ContentActs \/ RendererWorks \/ BrowserHears \/ Attach

Next == Step /\ UNCHANGED scenario

Spec == Init /\ [][Next]_vars

-----------------------------------------------------------------------------
Indices == 0..Len(tab.entries)

CommittedEntries ==
  {tab.entries[i] : i \in DOMAIN tab.entries \ {tab.trans}}

LastEntry(t) == IF t.last = 0 THEN NoEntry ELSE t.entries[t.last]

Quiet == toRenderer = <<>> /\ toBrowser = <<>> /\ tab.live /\ r.alive

(* The shape of the state.  The indices are within the list, the transient
   entry is never the committed one, and the pending entry is an entry of
   its own or one that is still in the list: pending_entry_ is a pointer
   into entries_, which every operation that removes entries must clear. *)
TypeOK ==
  /\ tab.last \in Indices /\ tab.trans \in Indices
  /\ tab.trans # 0 => tab.trans # tab.last
  /\ tab.pend # 0 => PendingEntry(tab).id = tab.pend
  /\ tab.own # NoEntry => tab.pend = tab.own.id /\ tab.pendIdx = 0
  /\ tab.pendIdx # 0 => tab.pendIdx \in Indices /\ tab.pend # 0
  /\ Cardinality({tab.entries[i].id : i \in DOMAIN tab.entries})
       = Len(tab.entries)
  /\ Cardinality(CommittedEntries) <= MaxEntries
  /\ tab.request \in {"none", "go", "blocked", "held", "denied"}
  /\ r.offset \in 0..MaxEntries /\ r.length \in 0..MaxEntries + 1
  /\ r.page < r.next

(* No two entries of the list have the same page id, and no page id is
   beyond the greatest one seen: GetEntryIndexWithPageID finds the entry
   that a commit is about, and ClassifyNavigation tells a new page from a
   page that it knows, after a crash of the renderer too. *)
PageIdsDistinct ==
  /\ \A i, j \in DOMAIN tab.entries \ {tab.trans} :
       i # j => tab.entries[i].page # tab.entries[j].page
  /\ \A e \in CommittedEntries : e.page \in 1..tab.maxPage

(* Only a commit, or the removal of entries, changes what is committed: a
   navigation that is only pending, its failure, and an interstitial that
   comes and goes leave the committed entries and the place in them as
   they were. *)
CommittedEntriesStay ==
  [][ ~DidNavigate /\ ~(\E i \in DOMAIN tab.entries : RemoveEntryAtIndex(i))
      => /\ CommittedEntries' = CommittedEntries
         /\ LastEntry(tab') = LastEntry(tab) ]_vars

(* When no message is under way the last committed entry is the page that
   the renderer shows: page id and content state. *)
CommittedIsShown ==
  Quiet /\ r.page # 0 =>
           /\ r.page = LastEntry(tab).page
           /\ r.state = LastEntry(tab).state

(* Every page of the renderer that the browser has once seen and that is
   not new is one of the list: the NOTREACHED of ClassifyNavigation is not
   reached. *)
KnownPage ==
  toBrowser # <<>> /\ Head(toBrowser).type = "commit" =>
    \/ Head(toBrowser).page > tab.maxPage
    \/ GetEntryIndexWithPageID(tab, Head(toBrowser).page) # 0

(* pending_entry_index_ is the index of the pending entry in entries_. *)
PendingIndexIsPending ==
  tab.pendIdx # 0 => /\ tab.pendIdx \in DOMAIN tab.entries
                     /\ tab.entries[tab.pendIdx].id = tab.pend

(* An aborted load takes away the pending entry that it was the load of,
   and never that of a later navigation. *)
AbortDiscardsItsOwn ==
  [][ OnDidFailProvisionalLoad /\ tab.pend # 0 /\ tab'.pend = 0
      => Head(toBrowser).entry = tab.pend ]_vars

(* When no message is under way the renderer knows its place in the list
   and the length of the list. *)
RendererKnowsHistory ==
  Quiet /\ tab.pend = 0 /\ tab.trans = 0 =>
    r.offset = tab.last /\ r.length = Len(tab.entries)

(* There is a transient entry only as long as its interstitial is there. *)
TransientHasInterstitial == tab.trans # 0 => tab.inter.st # "none"

(* A request that the renderer waits for is not held back for ever: there is
   an interstitial that will decide on it, or that is about to be shown. *)
HeldHasInterstitial ==
  /\ r.load # NoLoad /\ tab.request = "held" =>
       \/ tab.inter.mine /\ ~tab.inter.proceed
       \/ \E i \in DOMAIN toBrowser : toBrowser[i].type = "hold"
  /\ r.load # NoLoad /\ tab.request = "blocked" => Blocking(tab)

(* An interstitial that the user has proceeded through goes away: it is not
   there any more when nothing is left to be done. *)
ProceededInterstitialEnds == Quiet /\ r.load = NoLoad => ~tab.inter.proceed

(* A navigation that the user asked for does not stay pending: when nothing
   is left to be done it has been committed, given up or replaced. *)
NothingStaysPending ==
  Quiet /\ r.load = NoLoad /\ tab.inter.st = "none" => tab.pend = 0

(* The list, the entries that are not committed and the interstitial agree
   with each other, and with the messages that are under way.  A Navigate to
   an entry that a commit under way prunes makes the renderer show a page
   that the list does not have, and an interstitial can shift the entries
   under pending_entry_index_: see the README. *)
NavigationInv ==
  /\ TypeOK
  /\ PageIdsDistinct
  /\ HeldHasInterstitial
  /\ "hold" \notin Contents => PendingIndexIsPending
  /\ "history" \notin Commands => KnownPage

(* Once every message has been handled the tab comes to rest: the committed
   entry is the page shown, and nothing is pending. *)
ComesToRest ==
  /\ "history" \notin Commands => CommittedIsShown
  /\ "history" \notin Commands \/ "subframe" \notin Contents => NothingStaysPending
=============================================================================
